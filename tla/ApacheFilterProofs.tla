------------------------- MODULE ApacheFilterProofs -------------------------
(***************************************************************************)
(* The properties of ApacheFilter, for any bodies, requests, hooks and     *)
(* limits and any number of filters, redirects and settings.               *)
(***************************************************************************)
EXTENDS ApacheFilter, BodyLemmas

-----------------------------------------------------------------------------
(* Stretches of the body.                                                  *)

\* n positions from a place on are consecutive.
LEMMA PositionsType ==
  ASSUME NEW from \in Nat, NEW n \in Nat
  PROVE  /\ Positions(from, n) \in Seq(Nat) /\ Len(Positions(from, n)) = n
         /\ DOMAIN Positions(from, n) = 1..n
         /\ \A i \in 1..n : Positions(from, n)[i] = from + i
BY DEF Positions

\* An empty sequence is a stretch of no blocks, wherever it is.
LEMMA NoPositions ==
  ASSUME NEW from \in Nat
  PROVE  Positions(from, 0) = <<>>
BY DEF Positions

\* Two stretches that meet are one stretch.
LEMMA PositionsJoin ==
  ASSUME NEW from \in Nat, NEW m \in Nat, NEW n \in Nat
  PROVE  Positions(from, m) \o Positions(from + m, n) = Positions(from, m + n)
<1>. DEFINE s == Positions(from, m)
            t == Positions(from + m, n)
            u == Positions(from, m + n)
<1>1. /\ s \in Seq(Nat) /\ Len(s) = m /\ \A i \in 1..m : s[i] = from + i
      /\ t \in Seq(Nat) /\ Len(t) = n /\ \A i \in 1..n : t[i] = from + m + i
      /\ u \in Seq(Nat) /\ Len(u) = m + n /\ \A i \in 1..(m + n) : u[i] = from + i
  <2>1. m + n \in Nat /\ from + m \in Nat
    OBVIOUS
  <2>. QED  BY <2>1, PositionsType
<1>. HIDE DEF s, t, u
<1>2. /\ s \o t \in Seq(Nat) /\ Len(s \o t) = m + n
      /\ \A i \in 1..(m + n) : (s \o t)[i] = IF i <= m THEN s[i] ELSE t[i - m]
  BY <1>1, ConcatProperties
<1>3. ASSUME NEW i \in 1..(m + n) PROVE (s \o t)[i] = u[i]
  <2>1. CASE i <= m
    <3>1. i \in 1..m
      BY <2>1
    <3>. QED  BY <1>1, <1>2, <2>1, <3>1
  <2>2. CASE ~(i <= m)
    <3>1. i - m \in 1..n /\ from + m + (i - m) = from + i
      BY <2>2
    <3>. QED  BY <1>1, <1>2, <2>2, <3>1
  <2>. QED  BY <2>1, <2>2
<1>4. s \o t = u
  BY <1>1, <1>2, <1>3, SeqEqual
<1>. QED  BY <1>4 DEF s, t, u

\* The first m of a stretch, and the rest.
LEMMA PositionsSplit ==
  ASSUME NEW from \in Nat, NEW n \in Nat, NEW m \in 0..n
  PROVE  /\ SubSeq(Positions(from, n), 1, m) = Positions(from, m)
         /\ SubSeq(Positions(from, n), m + 1, n) = Positions(from + m, n - m)
<1>. DEFINE u == Positions(from, n)
            s == Positions(from, m)
            t == Positions(from + m, n - m)
<1>1. /\ s \in Seq(Nat) /\ Len(s) = m /\ \A i \in 1..m : s[i] = from + i
      /\ t \in Seq(Nat) /\ Len(t) = n - m /\ \A i \in 1..(n - m) : t[i] = from + m + i
      /\ u \in Seq(Nat) /\ Len(u) = n /\ \A i \in 1..n : u[i] = from + i
  <2>1. m \in Nat /\ n - m \in Nat /\ from + m \in Nat
    OBVIOUS
  <2>. QED  BY <2>1, PositionsType
<1>. HIDE DEF s, t, u
<1>2. SubSeq(u, 1, m) = s
  <2>1. /\ SubSeq(u, 1, m) \in Seq(Nat) /\ Len(SubSeq(u, 1, m)) = m
        /\ \A i \in 1..m : SubSeq(u, 1, m)[i] = u[i]
    BY <1>1
  <2>. QED  BY <1>1, <2>1
<1>3. SubSeq(u, m + 1, n) = t
  <2>1. /\ SubSeq(u, m + 1, n) \in Seq(Nat) /\ Len(SubSeq(u, m + 1, n)) = n - m
        /\ \A i \in 1..(n - m) : SubSeq(u, m + 1, n)[i] = u[m + i]
    BY <1>1
  <2>2. \A i \in 1..(n - m) : m + i \in 1..n
    OBVIOUS
  <2>. QED  BY <1>1, <2>1, <2>2
<1>. QED  BY <1>2, <1>3 DEF s, t, u

\* The last of a stretch.
LEMMA PositionsLast ==
  ASSUME NEW from \in Nat, NEW n \in Nat, n # 0
  PROVE  /\ Positions(from, n) # <<>> /\ Positions(from, n)[1] = from + 1
         /\ Last(Positions(from, n)) = from + n
<1>1. 1 \in 1..n /\ n \in 1..n
  OBVIOUS
<1>. QED  BY <1>1, PositionsType DEF Last
-----------------------------------------------------------------------------
(* The stream: stretches of the body down the chain.  The lemmas speak of  *)
(* any list of sights, one for every filter.                               *)
Sight == [data : Seq(Nat), eos : BOOLEAN, err : BOOLEAN, parsing : BOOLEAN, shown : Seq(Nat)]

\* w is in the stream where v was.
Like(w, v) ==
  /\ w.data = v.data /\ w.eos = v.eos /\ w.err = v.err
  /\ w.parsing /\ w.shown # <<>> => v.parsing /\ v.shown = w.shown
Quiet(v) == v.data = <<>> /\ ~v.eos /\ ~v.err

\* A filter that looks like another fits in the same place of the stream.
LEMMA StretchLike ==
  ASSUME NEW v \in Sight, NEW w \in Sight, Like(w, v), NEW from \in Nat, NEW to \in Int,
         NEW size \in Nat, NEW whole \in BOOLEAN, Stretch(v, from, to, size, whole)
  PROVE  Stretch(w, from, to, size, whole)
BY DEF Stretch, Like, Sight

\* What a quiet filter says of the stream: nothing.
LEMMA StretchQuiet ==
  ASSUME NEW v \in Sight, Quiet(v), NEW from \in Nat, NEW to \in Int,
         NEW size \in Nat, NEW whole \in BOOLEAN
  PROVE  /\ Stretch(v, from, to, size, whole) => from = to
         /\ from = to /\ (v.parsing => v.shown = <<>> \/ Last(v.shown) = to) =>
              Stretch(v, from, to, size, whole)
<1>1. Len(v.data) = 0 /\ v.data = Positions(from, 0)
  BY NoPositions DEF Quiet
<1>2. v.data = Positions(from, Len(v.data))
  BY <1>1
<1>. QED  BY <1>1, <1>2 DEF Stretch, Quiet, Sight

Stream(v, p, size) == v \in Seq(Sight) /\ size \in Nat /\ p \in [1..(Len(v) + 1) -> 0..size]

\* A filter leaves the chain: the u-th, at or below the hole.  Away(u, t) is where the
\* filter was that is then the t-th.
Away(u, t) == IF t < u THEN t ELSE t + 1
Drops(v, w, u) ==
  /\ u \in 1..Len(v) /\ Quiet(v[u]) /\ Len(w) = Len(v) - 1
  /\ \A t \in 1..Len(w) : Like(w[t], v[Away(u, t)])
LEMMA CutsDrop ==
  ASSUME NEW v, NEW w \in Seq(Sight), NEW p, NEW a, NEW b, NEW h \in Nat, NEW m \in Nat,
         NEW size, NEW whole \in BOOLEAN, Stream(v, p, size), Cuts(v, p, a, b, h, m, size, whole),
         NEW u, Drops(v, w, u), h <= u
  PROVE  \E q : Stream(w, q, size) /\ Cuts(w, q, a, b, h, m, size, whole) /\ q[u] = p[u]
<1>00. /\ u \in 1..Len(v) /\ Quiet(v[u]) /\ Len(w) = Len(v) - 1
       /\ \A t \in 1..Len(w) : Like(w[t], v[Away(u, t)])
  BY DEF Drops
<1>. USE <1>00
<1>. DEFINE q == [t \in 1..(Len(w) + 1) |-> IF t <= u THEN p[t] ELSE p[t + 1]]
            n == Len(v)
<1>1. v \in Seq(Sight) /\ n \in Nat /\ size \in Nat /\ p \in [1..(n + 1) -> 0..size]
  BY DEF Stream
<1>0. \A t \in 1..(n + 1) : p[t] \in Nat /\ p[t] <= size
  <2>. HIDE <1>00
  <2>. HIDE DEF n
  <2>. QED  BY <1>1
<1>2. p[u] = p[u + 1]
  <2>0. u \in 1..n /\ u \in 1..(n + 1) /\ u + 1 \in 1..(n + 1)
    BY <1>1
  <2>1. v[u] \in Sight /\ p[u] \in Nat /\ p[u + 1] \in Nat
    BY <1>0, <1>1, <2>0
  <2>2. Stretch(v[u], p[u], Above(p, h, m, u + 1), size, whole)
    BY DEF Cuts
  <2>3. Above(p, h, m, u + 1) = p[u + 1]
    BY DEF Above
  <2>. QED  BY <1>1, <2>1, <2>2, <2>3, StretchQuiet
<1>3. Len(w) + 1 = n /\ DOMAIN q = 1..n
  BY <1>1
<1>4. ASSUME NEW t \in 1..n PROVE q[t] = p[IF t < u THEN t ELSE t + 1] /\ q[t] \in 0..size
  <2>1. q[t] = IF t <= u THEN p[t] ELSE p[t + 1]
    BY <1>3
  <2>2. t \in 1..(n + 1) /\ t + 1 \in 1..(n + 1)
    BY <1>1
  <2>3. q[t] = p[IF t < u THEN t ELSE t + 1]
    BY <1>2, <2>1
  <2>. QED  BY <1>0, <1>1, <2>1, <2>2, <2>3
<1>5. q \in [1..(Len(w) + 1) -> 0..size]
  BY <1>3, <1>4
<1>6. \A t \in 1..n : t <= u => q[t] = p[t]
  BY <1>3
<1>. HIDE DEF q
<1>7. ASSUME NEW t \in 1..Len(w)
      PROVE  Stretch(w[t], q[t], Above(q, h, m, t + 1), size, whole)
  <2>. DEFINE t0 == IF t < u THEN t ELSE t + 1
  <2>1. t0 \in 1..n /\ t \in 1..n /\ t + 1 \in 1..n
    BY <1>1, <1>3
  <2>2. q[t] = p[t0]
    BY <1>4, <2>1
  <2>3. Above(q, h, m, t + 1) = Above(p, h, m, t0 + 1)
    <3>1. CASE t < u
      <4>1. t + 1 <= u /\ t0 = t
        BY <3>1
      <4>. QED  BY <1>6, <2>1, <4>1 DEF Above
    <3>2. CASE ~(t < u)
      <4>1. t0 = t + 1 /\ t + 1 # h /\ t0 + 1 # h /\ ~(t + 1 < u)
        BY <3>2
      <4>2. q[t + 1] = p[t + 2] /\ t0 + 1 = t + 2
        BY <1>4, <2>1, <4>1
      <4>. QED  BY <4>1, <4>2 DEF Above
    <3>. QED  BY <3>1, <3>2
  <2>4. Stretch(v[t0], p[t0], Above(p, h, m, t0 + 1), size, whole)
    BY <2>1 DEF Cuts
  <2>5. p[t0] \in Nat /\ Above(p, h, m, t0 + 1) \in Int /\ v[t0] \in Sight /\ w[t] \in Sight
    <3>1. t0 \in 1..(n + 1) /\ t0 + 1 \in 1..(n + 1)
      BY <1>1, <2>1
    <3>2. p[t0] \in Nat /\ p[t0 + 1] \in Nat
      BY <1>0, <3>1
    <3>3. v[t0] \in Sight /\ w[t] \in Sight
      BY <1>1, <2>1
    <3>. QED  BY <3>2, <3>3 DEF Above
  <2>6. Like(w[t], v[t0])
    BY DEF Away
  <2>. HIDE DEF t0
  <2>. QED  BY <1>1, <2>2, <2>3, <2>4, <2>5, <2>6, StretchLike
<1>8. q[Len(w) + 1] = b
  <2>1. n \in 1..n /\ ~(n < u)
    BY <1>1
  <2>2. q[n] = p[n + 1]
    BY <1>4, <2>1
  <2>. QED  BY <1>3, <2>2 DEF Cuts
<1>9. whole => Above(q, h, m, 1) = a
  <2>1. q[1] = p[1]
    BY <1>1, <1>6
  <2>. QED  BY <2>1 DEF Cuts, Above
<1>10. Stream(w, q, size) /\ Cuts(w, q, a, b, h, m, size, whole)
  BY <1>1, <1>5, <1>7, <1>8, <1>9 DEF Cuts, Stream
<1>11. q[u] = p[u]
  BY <1>1, <1>6
<1>. QED  BY <1>10, <1>11

\* A quiet filter comes into the chain and becomes the u-th.
Inserts(v, w, u) ==
  /\ u \in 1..(Len(v) + 1) /\ Len(w) = Len(v) + 1 /\ Quiet(w[u]) /\ ~w[u].parsing
  /\ \A t \in 1..Len(w) : t # u => Like(w[t], v[IF t < u THEN t ELSE t - 1])
LEMMA CutsInsert ==
  ASSUME NEW v, NEW w \in Seq(Sight), NEW p, NEW a, NEW b,
         NEW size, NEW whole \in BOOLEAN, Stream(v, p, size), Cuts(v, p, a, b, 0, 0, size, whole),
         NEW u, Inserts(v, w, u)
  PROVE  \E q : Stream(w, q, size) /\ Cuts(w, q, a, b, 0, 0, size, whole)
<1>00. /\ u \in 1..(Len(v) + 1) /\ Len(w) = Len(v) + 1 /\ Quiet(w[u]) /\ ~w[u].parsing
       /\ \A t \in 1..Len(w) : t # u => Like(w[t], v[IF t < u THEN t ELSE t - 1])
  BY DEF Inserts
<1>. USE <1>00
<1>. DEFINE q == [t \in 1..(Len(w) + 1) |-> IF t <= u THEN p[t] ELSE p[t - 1]]
            n == Len(v)
<1>1. v \in Seq(Sight) /\ n \in Nat /\ size \in Nat /\ p \in [1..(n + 1) -> 0..size]
  BY DEF Stream
<1>0. \A t \in 1..(n + 1) : p[t] \in Nat /\ p[t] <= size
  BY <1>1
<1>2. ASSUME NEW t \in 1..(n + 2)
      PROVE  q[t] = (IF t <= u THEN p[t] ELSE p[t - 1]) /\ q[t] \in 0..size
  <2>1. q[t] = IF t <= u THEN p[t] ELSE p[t - 1]
    BY <1>1
  <2>2. IF t <= u THEN t \in 1..(n + 1) ELSE t - 1 \in 1..(n + 1)
    BY <1>1
  <2>. QED  BY <1>0, <1>1, <2>1, <2>2
<1>3. q \in [1..(Len(w) + 1) -> 0..size]
  BY <1>1, <1>2
<1>. HIDE DEF q
<1>4. \A t \in 1..(n + 2), r1 \in 1..(n + 1) : Above(q, 0, 0, t) = q[t] /\ Above(p, 0, 0, r1) = p[r1]
  BY <1>1 DEF Above
<1>5. ASSUME NEW t \in 1..Len(w)
      PROVE  Stretch(w[t], q[t], q[t + 1], size, whole)
  <2>0. t \in 1..(n + 2) /\ t + 1 \in 1..(n + 2) /\ w[t] \in Sight
    BY <1>1
  <2>1. CASE t = u
    <3>1. q[t] = p[t] /\ q[t + 1] = p[t] /\ p[t] \in Nat
      BY <1>1, <1>2, <2>0, <2>1
    <3>. QED  BY <1>1, <2>0, <2>1, <3>1, StretchQuiet
  <2>2. CASE t # u
    <3>. DEFINE t0 == IF t < u THEN t ELSE t - 1
    <3>1. t0 \in 1..n /\ t0 + 1 \in 1..(n + 1)
      BY <1>1, <2>2
    <3>2. q[t] = p[t0] /\ q[t + 1] = p[t0 + 1]
      BY <1>1, <1>2, <2>0, <2>2
    <3>3. Stretch(v[t0], p[t0], p[t0 + 1], size, whole)
      BY <1>4, <3>1 DEF Cuts
    <3>4. p[t0] \in Nat /\ p[t0 + 1] \in Int /\ v[t0] \in Sight
      BY <1>1, <3>1
    <3>5. Like(w[t], v[t0])
      BY <2>2
    <3>. HIDE DEF t0
    <3>. QED  BY <1>1, <2>0, <3>2, <3>3, <3>4, <3>5, StretchLike
  <2>. QED  BY <2>1, <2>2
<1>6. q[Len(w) + 1] = b /\ (whole => q[1] = a)
  <2>0. n + 2 \in 1..(n + 2) /\ 1 \in 1..(n + 2) /\ ~(n + 2 <= u) /\ n + 2 - 1 = n + 1 /\ 1 <= u
    BY <1>1
  <2>1. q[n + 2] = p[n + 1] /\ q[1] = p[1]
    BY <1>2, <2>0
  <2>. QED  BY <1>1, <1>4, <2>1 DEF Cuts
<1>7. Stream(w, q, size) /\ Cuts(w, q, a, b, 0, 0, size, whole)
  <2>1. \A t \in 1..Len(w) : Stretch(w[t], q[t], Above(q, 0, 0, t + 1), size, whole)
    BY <1>1, <1>4, <1>5
  <2>2. whole => Above(q, 0, 0, 1) = a
    BY <1>1, <1>4, <1>6
  <2>. QED  BY <1>1, <1>3, <1>6, <2>1, <2>2 DEF Cuts, Stream
<1>. QED  BY <1>7

\* The first d filters go, all of them without blocks.
Sheds(v, w, d) ==
  /\ d \in 0..Len(v) /\ Len(w) = Len(v) - d
  /\ \A t \in 1..d : v[t].data = <<>>
  /\ \A t \in 1..Len(w) : w[t] = v[t + d]
LEMMA CutsSuffix ==
  ASSUME NEW v, NEW w \in Seq(Sight), NEW p, NEW a, NEW b,
         NEW size, NEW whole \in BOOLEAN, Stream(v, p, size), Cuts(v, p, a, b, 0, 0, size, whole),
         NEW d, Sheds(v, w, d)
  PROVE  \E q : Stream(w, q, size) /\ Cuts(w, q, a, b, 0, 0, size, whole)
<1>. USE DEF Sheds
<1>. DEFINE q == [t \in 1..(Len(w) + 1) |-> p[t + d]]
            n == Len(v)
<1>1. v \in Seq(Sight) /\ n \in Nat /\ size \in Nat /\ p \in [1..(n + 1) -> 0..size]
  BY DEF Stream
<1>2. \A t \in 1..(n + 1) : p[t] \in Nat /\ p[t] <= size
  BY <1>1
<1>3. ASSUME NEW t \in 1..(Len(w) + 1)
      PROVE  q[t] = p[t + d] /\ q[t] \in 0..size
  <2>1. t + d \in 1..(n + 1)
    BY <1>1
  <2>. QED  BY <1>1, <1>2, <2>1
<1>4. q \in [1..(Len(w) + 1) -> 0..size]
  BY <1>3
<1>. HIDE DEF q
<1>5. \A t \in 1..(n + 1) : Above(p, 0, 0, t) = p[t] /\ Above(q, 0, 0, t) = q[t]
  BY <1>1 DEF Above
<1>6. ASSUME NEW t \in 1..n PROVE Stretch(v[t], p[t], p[t + 1], size, whole)
  <2>1. t + 1 \in 1..(n + 1)
    BY <1>1
  <2>. QED  BY <1>5, <2>1 DEF Cuts
<1>7. ASSUME whole PROVE p[d + 1] = p[1]
  <2>. DEFINE f == [t \in 0..d |-> p[t + 1]]
  <2>1. ASSUME NEW t \in 1..d PROVE f[t] = f[t - 1]
    <3>1. t \in 1..n /\ t \in 0..d /\ t - 1 \in 0..d /\ t - 1 + 1 = t /\ t + 1 \in 1..(n + 1)
          /\ t \in 1..(n + 1)
      BY <1>1
    <3>2. p[t] + Len(v[t].data) = p[t + 1] /\ v[t].data = <<>>
      BY <1>6, <1>7, <3>1 DEF Stretch
    <3>3. p[t] = p[t + 1]
      BY <1>2, <3>1, <3>2
    <3>. QED  BY <3>1, <3>3
  <2>2. f[0] = p[1] /\ f[d] = p[d + 1] /\ d \in Nat
    OBVIOUS
  <2>. HIDE DEF f
  <2>3. f[d] = f[0]
    BY <2>1, <2>2, Constant
  <2>. QED  BY <2>2, <2>3
<1>8. ASSUME NEW t \in 1..Len(w) PROVE Stretch(w[t], q[t], Above(q, 0, 0, t + 1), size, whole)
  <2>1. t + d \in 1..n /\ t \in 1..(Len(w) + 1) /\ t + 1 \in 1..(Len(w) + 1) /\ t + 1 \in 1..(n + 1)
        /\ (t + 1) + d = (t + d) + 1
    BY <1>1
  <2>2. q[t] = p[t + d] /\ q[t + 1] = p[(t + 1) + d]
    BY <1>3, <2>1
  <2>3. q[t + 1] = p[(t + d) + 1]
    BY <2>1, <2>2
  <2>. QED  BY <1>5, <1>6, <2>1, <2>2, <2>3
<1>9. q[Len(w) + 1] = b /\ (whole => Above(q, 0, 0, 1) = a)
  <2>1. Len(w) + 1 \in 1..(Len(w) + 1) /\ 1 \in 1..(Len(w) + 1) /\ Len(w) + 1 + d = n + 1 /\ 1 + d = d + 1
        /\ 1 \in 1..(n + 1)
    BY <1>1
  <2>2. q[Len(w) + 1] = p[n + 1] /\ q[1] = p[d + 1]
    BY <1>3, <2>1
  <2>3. whole => p[1] = a
    BY <1>5, <2>1 DEF Cuts
  <2>. QED  BY <1>5, <1>7, <2>1, <2>2, <2>3 DEF Cuts
<1>. QED  BY <1>1, <1>4, <1>8, <1>9 DEF Stream, Cuts

\* Nothing is on its way.
LEMMA CutsHole ==
  ASSUME NEW v, NEW p, NEW a, NEW b, NEW h \in Nat, NEW k \in Nat, NEW size, NEW whole \in BOOLEAN,
         Stream(v, p, size), Cuts(v, p, a, b, h, 0, size, whole)
  PROVE  Cuts(v, p, a, b, k, 0, size, whole)
<1>1. \A t \in 1..(Len(v) + 1) : p[t] - 0 = p[t] /\ t + 0 = t
  BY DEF Stream
<1>2. \A t \in 1..(Len(v) + 1) : Above(p, h, 0, t) = Above(p, k, 0, t)
  BY <1>1 DEF Above
<1>3. Len(v) \in Nat /\ 1 \in 1..(Len(v) + 1) /\ \A t \in 1..Len(v) : t + 1 \in 1..(Len(v) + 1)
  BY DEF Stream
<1>. QED  BY <1>2, <1>3 DEF Cuts

\* m blocks come from the connection.
Flowing(v, p, a, b, h, m, size, whole) == Stream(v, p, size) /\ Cuts(v, p, a, b, h, m, size, whole)
Reaches(v, b, m, e, h, size) == e = b + m /\ e <= size /\ h = Len(v) + 1
LEMMA CutsNet ==
  ASSUME NEW v, NEW p, NEW a, NEW b \in Nat, NEW m \in Nat, NEW size \in Nat,
         NEW whole \in BOOLEAN, Flowing(v, p, a, b, 0, 0, size, whole),
         NEW e \in Nat, NEW h \in Nat, Reaches(v, b, m, e, h, size)
  PROVE  \E q : Flowing(v, q, a, e, h, m, size, whole) /\ q[h] = e
<1>00. /\ Stream(v, p, size) /\ Cuts(v, p, a, b, 0, 0, size, whole) /\ e = b + m /\ e <= size
       /\ h = Len(v) + 1
  BY DEF Flowing, Reaches
<1>. USE <1>00
<1>. DEFINE k == Len(v) + 1
            q == [p EXCEPT ![k] = b + m]
<1>1. v \in Seq(Sight) /\ Len(v) \in Nat /\ size \in Nat /\ p \in [1..k -> 0..size] /\ k \in 1..k
  BY DEF Stream
<1>2. q \in [1..k -> 0..size] /\ q[k] = b + m /\ \A t \in 1..k : t # k => q[t] = p[t]
  <2>1. b + m \in 0..size
    BY <1>1
  <2>. HIDE DEF k
  <2>. QED  BY <1>1, <2>1
<1>3. p[k] = b
  BY DEF Cuts
<1>. HIDE DEF q
<1>4. \A t \in 1..k : Above(q, k, m, t) = Above(p, 0, 0, t)
  <2>1. b + m - m = b
    OBVIOUS
  <2>2. \A t \in 1..k : t # 0
    BY <1>1
  <2>. HIDE DEF k
  <2>. QED  BY <1>1, <1>2, <1>3, <2>1, <2>2 DEF Above
<1>5. \A t \in 1..Len(v) : t \in 1..k /\ t + 1 \in 1..k /\ t # k
  BY <1>1
<1>6. 1 \in 1..k
  BY <1>1
<1>7. Stream(v, q, size)
  BY <1>1, <1>2 DEF Stream
<1>8. Cuts(v, q, a, b + m, k, m, size, whole)
  BY <1>2, <1>4, <1>5, <1>6 DEF Cuts
<1>. QED  BY <1>2, <1>7, <1>8 DEF Flowing

\* Only the k-th sight differs.
Alters(v, w, k) ==
  k \in 1..Len(v) /\ Len(w) = Len(v) /\ \A t \in 1..Len(v) : t # k => w[t] = v[t]

\* m blocks are taken from the front of the k-th spool.
Shrinks(v, w, k, m) ==
  /\ m <= Len(v[k].data) /\ w[k].data = SubSeq(v[k].data, m + 1, Len(v[k].data))
  /\ w[k].eos => v[k].eos
  /\ w[k].err = v[k].err /\ w[k].parsing = v[k].parsing /\ w[k].shown = v[k].shown
Taken(v, k, m, p, q, size) ==
  /\ p[k] \in Nat /\ q[k] = p[k] + m /\ SubSeq(v[k].data, 1, m) = Positions(p[k], m)
  /\ v[k].eos /\ m = Len(v[k].data) => q[k] = size
LEMMA CutsTake ==
  ASSUME NEW v, NEW w \in Seq(Sight), NEW p, NEW a, NEW b, NEW m \in Nat, NEW size,
         NEW whole \in BOOLEAN, Flowing(v, p, a, b, 0, 0, size, whole),
         NEW k, Alters(v, w, k), Shrinks(v, w, k, m)
  PROVE  \E q : Flowing(w, q, a, b, k, m, size, whole) /\ Taken(v, k, m, p, q, size)
<1>000. /\ Stream(v, p, size) /\ Cuts(v, p, a, b, 0, 0, size, whole) /\ m <= Len(v[k].data)
        /\ w[k].data = SubSeq(v[k].data, m + 1, Len(v[k].data)) /\ (w[k].eos => v[k].eos)
        /\ w[k].err = v[k].err /\ w[k].parsing = v[k].parsing /\ w[k].shown = v[k].shown
  BY DEF Flowing, Shrinks
<1>00. k \in 1..Len(v) /\ Len(w) = Len(v) /\ \A t \in 1..Len(v) : t # k => w[t] = v[t]
  BY DEF Alters
<1>. USE <1>000
<1>. DEFINE q == [p EXCEPT ![k] = p[k] + m]
            n == Len(v)
            l == Len(v[k].data)
<1>1. v \in Seq(Sight) /\ n \in Nat /\ size \in Nat /\ p \in [1..(n + 1) -> 0..size]
  BY DEF Stream
<1>2. \A t \in 1..(n + 1) : p[t] \in Nat /\ p[t] <= size
  BY <1>1
<1>. USE <1>00
<1>3. \A t \in 1..n : t \in 1..(n + 1) /\ t + 1 \in 1..(n + 1) /\ t # 0 /\ t + 1 # 0
  BY <1>1
<1>4. v[k] \in Sight /\ w[k] \in Sight /\ v[k].data \in Seq(Nat) /\ l \in Nat
  <2>1. v[k] \in Sight /\ w[k] \in Sight
    BY <1>1
  <2>. QED  BY <2>1 DEF Sight
<1>5. \A t \in 1..(n + 1) : Above(p, 0, 0, t) = p[t]
  BY <1>1 DEF Above
<1>6. ASSUME NEW t \in 1..n PROVE Stretch(v[t], p[t], p[t + 1], size, whole)
  BY <1>3, <1>5 DEF Cuts
<1>7. /\ v[k].data = Positions(p[k], l) /\ p[k] + l <= p[k + 1] /\ p[k] \in Nat /\ p[k + 1] \in Nat
      /\ p[k + 1] <= size /\ (v[k].eos => p[k] + l = size)
      /\ (whole \/ ~v[k].err => p[k] + l = p[k + 1])
      /\ (v[k].parsing /\ v[k].shown # <<>> => Last(v[k].shown) = p[k + 1])
  BY <1>2, <1>3, <1>6 DEF Stretch
<1>8. /\ SubSeq(v[k].data, 1, m) = Positions(p[k], m)
      /\ w[k].data = Positions(p[k] + m, l - m)
  <2>1. m \in 0..l
    BY <1>4
  <2>. HIDE DEF l
  <2>2. PICK c \in Nat : c = p[k]
    BY <1>7
  <2>3. /\ SubSeq(Positions(c, l), 1, m) = Positions(c, m)
        /\ SubSeq(Positions(c, l), m + 1, l) = Positions(c + m, l - m)
    BY <1>4, <2>1, PositionsSplit
  <2>. QED  BY <1>7, <2>2, <2>3 DEF l
<1>9. Len(w[k].data) = l - m
  <2>1. l - m \in Nat /\ p[k] + m \in Nat
    BY <1>4, <1>7
  <2>2. \A c, i \in Nat : Len(Positions(c, i)) = i
    BY PositionsType
  <2>. HIDE DEF l
  <2>3. Len(Positions(p[k] + m, l - m)) = l - m
    BY <2>1, <2>2
  <2>. QED  BY <1>8, <2>3
<1>10. q \in [1..(n + 1) -> 0..size] /\ q[k] = p[k] + m /\ \A t \in 1..(n + 1) : t # k => q[t] = p[t]
  <2>1. p[k] + m \in 0..size /\ k \in 1..(n + 1)
    BY <1>1, <1>3, <1>4, <1>7
  <2>. HIDE DEF n
  <2>. QED  BY <1>1, <2>1
<1>. HIDE DEF q
<1>11. \A t \in 1..(n + 1) : Above(q, k, m, t) = p[t]
  <2>1. p[k] + m - m = p[k]
    BY <1>7
  <2>2. Above(q, k, m, k) = p[k]
    BY <1>7, <1>10, <2>1 DEF Above
  <2>. HIDE DEF n
  <2>3. \A t \in 1..(n + 1) : t # k => Above(q, k, m, t) = p[t]
    BY <1>10 DEF Above
  <2>. QED  BY <2>2, <2>3
<1>12. ASSUME NEW t \in 1..n PROVE Stretch(w[t], q[t], p[t + 1], size, whole)
  <2>1. CASE t # k
    BY <1>3, <1>6, <1>10, <2>1
  <2>2. CASE t = k
    <3>1. p[k] + m + (l - m) = p[k] + l
      BY <1>4, <1>7
    <3>2. Stretch(w[k], p[k] + m, p[k + 1], size, whole)
      <4>1. p[k] + m + Len(w[k].data) = p[k] + l
        <5>. HIDE DEF l
        <5>. QED  BY <1>9, <3>1
      <4>2. w[k].data = Positions(p[k] + m, Len(w[k].data))
        <5>. HIDE DEF l
        <5>. QED  BY <1>8, <1>9
      <4>. HIDE DEF l
      <4>3. Stretch(w[k], p[k] + m, p[k + 1], size, whole) <=>
              /\ p[k] + l <= p[k + 1]
              /\ whole \/ ~w[k].err => p[k] + l = p[k + 1]
              /\ w[k].eos => p[k] + l = size
              /\ w[k].parsing /\ w[k].shown # <<>> => Last(w[k].shown) = p[k + 1]
        BY <4>1, <4>2 DEF Stretch
      <4>. QED  BY <1>7, <4>3
    <3>. QED  BY <1>10, <2>2, <3>2
  <2>. QED  BY <2>1, <2>2
<1>13. Stream(w, q, size) /\ Cuts(w, q, a, b, k, m, size, whole)
  <2>1. q[n + 1] = b
    <3>1. n + 1 \in 1..(n + 1) /\ n + 1 # k
      BY <1>1
    <3>. QED  BY <1>10, <3>1 DEF Cuts
  <2>2. whole => p[1] = a
    <3>1. 1 \in 1..(n + 1)
      BY <1>1
    <3>. QED  BY <1>5, <3>1 DEF Cuts
  <2>3. whole => Above(q, k, m, 1) = a
    <3>1. 1 \in 1..(n + 1)
      BY <1>1
    <3>. QED  BY <1>11, <2>2, <3>1
  <2>4. \A t \in 1..n : Stretch(w[t], q[t], Above(q, k, m, t + 1), size, whole)
    BY <1>3, <1>11, <1>12
  <2>. QED  BY <1>1, <1>10, <2>1, <2>3, <2>4 DEF Stream, Cuts
<1>14. v[k].eos /\ m = Len(v[k].data) => q[k] = size
  BY <1>4, <1>7, <1>10
<1>15. Taken(v, k, m, p, q, size)
  BY <1>7, <1>8, <1>10, <1>14 DEF Taken
<1>. QED  BY <1>13, <1>15 DEF Flowing

\* The blocks on their way pass the j-th filter.
Ends(q, j, e) == q[j] = e
Passes(v, w, j, m, p, i, e) ==
  /\ i = j + 1 /\ e = p[i] /\ m <= e /\ Quiet(v[j]) /\ Quiet(w[j])
  /\ w[j].parsing => w[j].shown = <<>> \/ Last(w[j].shown) = e
LEMMA CutsPass ==
  ASSUME NEW v, NEW w \in Seq(Sight), NEW p, NEW a, NEW b, NEW m \in Nat, NEW size,
         NEW whole \in BOOLEAN, NEW j, Alters(v, w, j), NEW i, NEW e,
         Flowing(v, p, a, b, i, m, size, whole), Passes(v, w, j, m, p, i, e)
  PROVE  \E q : Flowing(w, q, a, b, j, m, size, whole) /\ Ends(q, j, e)
<1>000. /\ Stream(v, p, size) /\ Cuts(v, p, a, b, j + 1, m, size, whole) /\ m <= p[j + 1]
        /\ Quiet(v[j]) /\ Quiet(w[j])
        /\ (w[j].parsing => w[j].shown = <<>> \/ Last(w[j].shown) = p[j + 1])
        /\ e = p[j + 1]
  BY DEF Flowing, Passes
<1>. USE <1>000
<1>00. j \in 1..Len(v) /\ Len(w) = Len(v) /\ \A t \in 1..Len(v) : t # j => w[t] = v[t]
  BY DEF Alters
<1>. USE <1>00
<1>. DEFINE q == [p EXCEPT ![j] = p[j + 1]]
            n == Len(v)
<1>1. v \in Seq(Sight) /\ n \in Nat /\ size \in Nat /\ p \in [1..(n + 1) -> 0..size]
  BY DEF Stream
<1>2. \A t \in 1..(n + 1) : p[t] \in Nat /\ p[t] <= size
  BY <1>1
<1>3. \A t \in 1..n : t \in 1..(n + 1) /\ t + 1 \in 1..(n + 1) /\ t # 0 /\ t + 1 # 0
  BY <1>1
<1>4. v[j] \in Sight /\ w[j] \in Sight
  BY <1>1
<1>5. q \in [1..(n + 1) -> 0..size] /\ q[j] = p[j + 1] /\ \A t \in 1..(n + 1) : t # j => q[t] = p[t]
  <2>1. p[j + 1] \in 0..size /\ j \in 1..(n + 1)
    BY <1>1, <1>2, <1>3
  <2>. HIDE DEF n
  <2>. QED  BY <1>1, <2>1
<1>. HIDE DEF q
<1>6. \A t \in 1..n : Stretch(v[t], p[t], Above(p, j + 1, m, t + 1), size, whole)
  BY DEF Cuts
<1>7. p[j] = p[j + 1] - m
  <2>1. Above(p, j + 1, m, j + 1) = p[j + 1] - m
    BY DEF Above
  <2>2. p[j] \in Nat /\ p[j + 1] \in Nat
    BY <1>2, <1>3
  <2>3. Stretch(v[j], p[j], p[j + 1] - m, size, whole) /\ p[j + 1] - m \in Int
    BY <1>6, <2>1, <2>2
  <2>. QED  BY <1>1, <1>4, <2>2, <2>3, StretchQuiet
<1>8. \A t \in 1..(n + 1) : t # j + 1 => Above(q, j, m, t) = Above(p, j + 1, m, t)
  BY <1>5, <1>7 DEF Above
<1>9. Above(q, j, m, j + 1) = p[j + 1]
  <2>1. j + 1 # j
    OBVIOUS
  <2>. QED  BY <1>3, <1>5, <2>1 DEF Above
<1>10. ASSUME NEW t \in 1..n PROVE Stretch(w[t], q[t], Above(q, j, m, t + 1), size, whole)
  <2>1. CASE t # j
    <3>1. t + 1 # j + 1 /\ t \in 1..(n + 1) /\ t + 1 \in 1..(n + 1)
      BY <1>3, <2>1
    <3>2. w[t] = v[t] /\ q[t] = p[t] /\ Above(q, j, m, t + 1) = Above(p, j + 1, m, t + 1)
      BY <1>5, <1>8, <2>1, <3>1
    <3>. QED  BY <1>6, <3>2
  <2>2. CASE t = j
    <3>1. p[j + 1] \in Nat /\ p[j + 1] \in Int
      BY <1>2, <1>3
    <3>2. Stretch(w[j], p[j + 1], p[j + 1], size, whole)
      BY <1>1, <1>4, <3>1, StretchQuiet
    <3>. QED  BY <1>5, <1>9, <2>2, <3>2
  <2>. QED  BY <2>1, <2>2
<1>11. q[n + 1] = b
  <2>1. n + 1 \in 1..(n + 1) /\ n + 1 # j
    BY <1>1
  <2>. QED  BY <1>5, <2>1 DEF Cuts
<1>12. whole => Above(q, j, m, 1) = a
  <2>1. 1 \in 1..(n + 1) /\ 1 # j + 1
    BY <1>1
  <2>. QED  BY <1>8, <2>1 DEF Cuts
<1>13. Stream(w, q, size) /\ Cuts(w, q, a, b, j, m, size, whole)
  BY <1>1, <1>5, <1>10, <1>11, <1>12 DEF Stream, Cuts
<1>. QED  BY <1>5, <1>13 DEF Flowing, Ends

\* The blocks on their way reach the spool of the u-th filter.
Spools(v, w, u, m, p, i, e, size) ==
  /\ i = u + 1 /\ e = p[i] /\ m <= e /\ ~v[u].err /\ w[u].data = v[u].data \o Positions(e - m, m)
  /\ w[u].eos => v[u].eos \/ e = size
  /\ w[u].parsing => w[u].shown = <<>> \/ Last(w[u].shown) = e
LEMMA CutsSpool ==
  ASSUME NEW v, NEW w \in Seq(Sight), NEW p, NEW a, NEW b, NEW m \in Nat, NEW size,
         NEW whole \in BOOLEAN, NEW u, Alters(v, w, u), NEW i, NEW e,
         Flowing(v, p, a, b, i, m, size, whole), Spools(v, w, u, m, p, i, e, size)
  PROVE  Flowing(w, p, a, b, 0, 0, size, whole)
<1>000. /\ Stream(v, p, size) /\ Cuts(v, p, a, b, u + 1, m, size, whole) /\ m <= p[u + 1]
        /\ ~v[u].err /\ w[u].data = v[u].data \o Positions(p[u + 1] - m, m)
        /\ w[u].eos => v[u].eos \/ p[u + 1] = size
        /\ w[u].parsing => w[u].shown = <<>> \/ Last(w[u].shown) = p[u + 1]
  BY DEF Flowing, Spools
<1>. USE <1>000
<1>00. u \in 1..Len(v) /\ Len(w) = Len(v) /\ \A t \in 1..Len(v) : t # u => w[t] = v[t]
  BY DEF Alters
<1>. USE <1>00
<1>. DEFINE n == Len(v)
            l == Len(v[u].data)
<1>1. v \in Seq(Sight) /\ n \in Nat /\ size \in Nat /\ p \in [1..(n + 1) -> 0..size]
  BY DEF Stream
<1>2. \A t \in 1..(n + 1) : p[t] \in Nat /\ p[t] <= size
  BY <1>1
<1>3. \A t \in 1..n : t \in 1..(n + 1) /\ t + 1 \in 1..(n + 1) /\ t # 0 /\ t + 1 # 0
  BY <1>1
<1>4. l \in Nat
  <2>1. v[u] \in Sight
    BY <1>1
  <2>. QED  BY <2>1 DEF Sight
<1>5. Stretch(v[u], p[u], p[u + 1] - m, size, whole)
  BY DEF Cuts, Above
<1>6. p[u] \in Nat /\ p[u + 1] \in Nat /\ p[u + 1] - m \in Nat /\ p[u + 1] <= size
  BY <1>2, <1>3
<1>7. /\ v[u].data = Positions(p[u], l) /\ p[u] + l = p[u + 1] - m
      /\ (v[u].eos => p[u] + l = size)
  BY <1>5 DEF Stretch
<1>8. w[u].data = Positions(p[u], l + m) /\ Len(w[u].data) = l + m
  <2>1. \A c, j, k \in Nat : Positions(c, j) \o Positions(c + j, k) = Positions(c, j + k)
    BY PositionsJoin
  <2>2. \A c, j \in Nat : Len(Positions(c, j)) = j
    BY PositionsType
  <2>. HIDE <1>00, <1>000 DEF l
  <2>3. w[u].data = Positions(p[u], l) \o Positions(p[u] + l, m)
    BY <1>000, <1>7
  <2>4. w[u].data = Positions(p[u], l + m)
    BY <1>4, <1>6, <2>1, <2>3
  <2>5. l + m \in Nat
    BY <1>4
  <2>. QED  BY <1>6, <2>2, <2>4, <2>5
<1>9. Stretch(w[u], p[u], p[u + 1], size, whole)
  <2>1. p[u] + Len(w[u].data) = p[u + 1]
    <3>. HIDE <1>00, <1>000 DEF l
    <3>1. PICK c \in Nat, d \in Nat : c = p[u] /\ d = p[u + 1] /\ c + l = d - m
      BY <1>6, <1>7
    <3>2. \A j \in Nat : c + j = d - m => c + (j + m) = d
      OBVIOUS
    <3>3. c + (l + m) = d
      BY <1>4, <3>1, <3>2
    <3>. QED  BY <1>8, <3>1, <3>3
  <2>2. w[u].data = Positions(p[u], Len(w[u].data))
    BY <1>8
  <2>3. w[u].eos => p[u + 1] = size
    <3>1. v[u].eos => p[u + 1] = size
      <4>. HIDE DEF l
      <4>. QED  BY <1>1, <1>4, <1>6, <1>7
    <3>. QED  BY <3>1
  <2>4. w[u].parsing /\ w[u].shown # <<>> => Last(w[u].shown) = p[u + 1]
    OBVIOUS
  <2>5. p[u + 1] <= p[u + 1]
    BY <1>6
  <2>. QED  BY <2>1, <2>2, <2>3, <2>4, <2>5 DEF Stretch
<1>10. ASSUME NEW t \in 1..n PROVE Stretch(w[t], p[t], Above(p, 0, 0, t + 1), size, whole)
  <2>0. Above(p, 0, 0, t + 1) = p[t + 1]
    BY <1>3 DEF Above
  <2>1. CASE t # u
    <3>1. t + 1 # u + 1
      BY <2>1
    <3>2. Above(p, u + 1, m, t + 1) = p[t + 1]
      BY <3>1 DEF Above
    <3>. QED  BY <2>0, <2>1, <3>2 DEF Cuts
  <2>. QED  BY <1>9, <2>0, <2>1
<1>11. whole => Above(p, 0, 0, 1) = a
  <2>1. 1 # u + 1
    BY <1>1
  <2>. QED  BY <2>1 DEF Cuts, Above
<1>. QED  BY <1>1, <1>10, <1>11 DEF Stream, Cuts, Flowing

\* The u-th filter reports an error; the blocks on their way to it, if there are any,
\* are lost.
Loses(v, w, u, m, p, i, e) ==
  i = u + 1 /\ e = p[i] /\ m <= e /\ w[u].data = v[u].data /\ w[u].eos = v[u].eos /\ w[u].err /\ ~w[u].parsing
LEMMA CutsLose ==
  ASSUME NEW v, NEW w \in Seq(Sight), NEW p, NEW a, NEW b, NEW m \in Nat, NEW size,
         NEW whole \in BOOLEAN, NEW left \in BOOLEAN, left => whole /\ m = 0,
         NEW u, Alters(v, w, u), NEW i, NEW e,
         Flowing(v, p, a, b, i, m, size, whole), Loses(v, w, u, m, p, i, e)
  PROVE  Flowing(w, p, a, b, 0, 0, size, left)
<1>000. /\ Stream(v, p, size) /\ Cuts(v, p, a, b, u + 1, m, size, whole) /\ m <= p[u + 1]
        /\ w[u].data = v[u].data /\ w[u].eos = v[u].eos /\ w[u].err /\ ~w[u].parsing
  BY DEF Flowing, Loses
<1>. USE <1>000
<1>00. u \in 1..Len(v) /\ Len(w) = Len(v) /\ \A t \in 1..Len(v) : t # u => w[t] = v[t]
  BY DEF Alters
<1>. USE <1>00
<1>. DEFINE n == Len(v)
            l == Len(v[u].data)
<1>1. v \in Seq(Sight) /\ n \in Nat /\ size \in Nat /\ p \in [1..(n + 1) -> 0..size]
  BY DEF Stream
<1>2. \A t \in 1..(n + 1) : p[t] \in Nat /\ p[t] <= size
  BY <1>1
<1>3. \A t \in 1..n : t \in 1..(n + 1) /\ t + 1 \in 1..(n + 1) /\ t # 0 /\ t + 1 # 0
  BY <1>1
<1>4. l \in Nat
  <2>1. v[u] \in Sight
    BY <1>1
  <2>. QED  BY <2>1 DEF Sight
<1>5. Stretch(v[u], p[u], p[u + 1] - m, size, whole)
  BY DEF Cuts, Above
<1>6. p[u] \in Nat /\ p[u + 1] \in Nat /\ p[u + 1] <= size
  BY <1>2, <1>3
<1>7. /\ v[u].data = Positions(p[u], l) /\ p[u] + l <= p[u + 1]
      /\ (left => p[u] + l = p[u + 1])
      /\ (v[u].eos => p[u] + l = size)
  <2>. HIDE DEF l
  <2>1. /\ v[u].data = Positions(p[u], l) /\ p[u] + l <= p[u + 1] - m
        /\ (whole => p[u] + l = p[u + 1] - m)
        /\ (v[u].eos => p[u] + l = size)
    BY <1>5 DEF Stretch, l
  <2>. QED  BY <1>4, <1>6, <2>1
<1>8. Stretch(w[u], p[u], p[u + 1], size, left)
  BY <1>7 DEF Stretch
<1>9. ASSUME NEW t \in 1..n PROVE Stretch(w[t], p[t], Above(p, 0, 0, t + 1), size, left)
  <2>0. Above(p, 0, 0, t + 1) = p[t + 1]
    BY <1>3 DEF Above
  <2>1. CASE t # u
    <3>1. t + 1 # u + 1
      BY <2>1
    <3>2. Above(p, u + 1, m, t + 1) = p[t + 1]
      BY <3>1 DEF Above
    <3>3. Stretch(v[t], p[t], p[t + 1], size, whole)
      BY <3>2 DEF Cuts
    <3>4. Stretch(v[t], p[t], p[t + 1], size, left)
      BY <3>3 DEF Stretch
    <3>. QED  BY <2>0, <2>1, <3>4
  <2>. QED  BY <1>8, <2>0, <2>1
<1>10. left => Above(p, 0, 0, 1) = a
  <2>1. 1 # u + 1
    BY <1>1
  <2>. QED  BY <2>1 DEF Cuts, Above
<1>. QED  BY <1>1, <1>9, <1>10 DEF Stream, Cuts, Flowing

\* The blocks on their way reach the reader on top of the chain.
LEMMA CutsDeliver ==
  ASSUME NEW v, NEW p, NEW a \in Nat, NEW b, NEW m \in Nat, NEW size, NEW whole \in BOOLEAN,
         Stream(v, p, size), Cuts(v, p, a, b, 1, m, size, whole)
  PROVE  Cuts(v, p, a + m, b, 0, 0, size, whole) /\ (whole => p[1] - m = a)
<1>1. Len(v) \in Nat /\ 1 \in 1..(Len(v) + 1) /\ p[1] \in Nat
  BY DEF Stream
<1>2. \A t \in 1..Len(v) : Above(p, 0, 0, t + 1) = Above(p, 1, m, t + 1)
  BY <1>1 DEF Above
<1>3. Above(p, 0, 0, 1) = p[1] /\ Above(p, 1, m, 1) = p[1] - m
  BY DEF Above
<1>4. whole => p[1] - m = a
  BY <1>3 DEF Cuts
<1>5. whole => Above(p, 0, 0, 1) = a + m
  BY <1>1, <1>3, <1>4
<1>. QED  BY <1>2, <1>4, <1>5 DEF Cuts

\* When nothing was lost, the spools make one stretch.
Datas(v, s) == Len(s) = Len(v) /\ \A t \in 1..Len(v) : s[t] = v[t].data
LEMMA CutsWhole ==
  ASSUME NEW v, NEW p, NEW a \in Nat, NEW b \in Nat, NEW size,
         Stream(v, p, size), Cuts(v, p, a, b, 0, 0, size, TRUE),
         NEW s \in Seq(Seq(Nat)), Datas(v, s)
  PROVE  a <= b /\ FlattenSeq(s) = Positions(a, b - a)
<1>. DEFINE n == Len(v)
<1>0. Len(s) = n /\ \A t \in 1..n : s[t] = v[t].data
  BY DEF Datas
<1>1. v \in Seq(Sight) /\ n \in Nat /\ size \in Nat /\ p \in [1..(n + 1) -> 0..size]
  BY DEF Stream
<1>2. \A t \in 1..(n + 1) : p[t] \in Nat
  BY <1>1
<1>3. p[1] = a /\ p[n + 1] = b
  BY DEF Cuts, Above
<1>4. ASSUME NEW t \in 1..n
      PROVE  s[t] = Positions(p[t], p[t + 1] - p[t]) /\ p[t] <= p[t + 1]
  <2>1. t \in 1..(n + 1) /\ t + 1 \in 1..(n + 1) /\ t + 1 # 0
    BY <1>1
  <2>2. Stretch(v[t], p[t], p[t + 1], size, TRUE)
    BY <2>1 DEF Cuts, Above
  <2>3. Len(v[t].data) \in Nat /\ p[t] \in Nat /\ p[t + 1] \in Nat
    <3>1. v[t] \in Sight
      BY <1>1
    <3>. QED  BY <1>2, <2>1, <3>1 DEF Sight
  <2>4. v[t].data = Positions(p[t], Len(v[t].data)) /\ p[t] + Len(v[t].data) = p[t + 1]
    BY <2>2 DEF Stretch
  <2>5. Len(v[t].data) = p[t + 1] - p[t] /\ p[t] <= p[t + 1]
    BY <2>3, <2>4
  <2>. QED  BY <1>0, <2>4, <2>5
<1>5. \A t \in 0..n : p[t + 1] \in Nat /\ a <= p[t + 1]
  <2>. DEFINE f == [t \in 0..n |-> p[t + 1]]
              G == [t \in 0..n |-> {i \in Nat : a <= i}]
  <2>1. f[0] \in G[0]
    BY <1>1, <1>3
  <2>2. ASSUME NEW t \in 1..n, f[t - 1] \in G[t - 1] PROVE f[t] \in G[t]
    <3>1. t - 1 \in 0..n /\ t \in 0..n /\ t - 1 + 1 = t /\ t + 1 \in 1..(n + 1)
      BY <1>1
    <3>2. p[t] \in Nat /\ a <= p[t] /\ p[t] <= p[t + 1] /\ p[t + 1] \in Nat
      BY <1>2, <1>4, <2>2, <3>1
    <3>3. a <= p[t + 1]
      BY <3>2
    <3>. QED  BY <3>1, <3>2, <3>3
  <2>3. \A t \in 0..n : f[t] = p[t + 1] /\ G[t] = {i \in Nat : a <= i}
    OBVIOUS
  <2>. HIDE DEF f, G, n
  <2>4. \A t \in 0..n : f[t] \in G[t]
    BY <1>1, <2>1, <2>2, Follows
  <2>. QED  BY <2>3, <2>4
<1>6. a <= b
  <2>1. n \in 0..n
    BY <1>1
  <2>. HIDE DEF n
  <2>. QED  BY <1>3, <1>5, <2>1
<1>7. CASE n = 0
  <2>1. FlattenSeq(s) = <<>> /\ b - a = 0
    <3>1. s = <<>> /\ Len(s) = 0
      BY <1>0, <1>7
    <3>2. FlattenSeq(s) = <<>>
      BY <3>1 DEF FlattenSeq
    <3>. QED  BY <1>3, <1>7, <3>2
  <2>. QED  BY <1>6, <2>1, NoPositions
<1>8. CASE n # 0
  <2>. DEFINE g == [t \in 1..n |-> Positions(a, p[t + 1] - a)]
  <2>1. ASSUME NEW t \in 1..n PROVE g[t] = IF t = 1 THEN s[t] ELSE g[t - 1] \o s[t]
    <3>1. t \in 0..n /\ t - 1 \in 0..n /\ t - 1 + 1 = t /\ t + 1 \in 1..(n + 1) /\ t \in 1..(n + 1)
      BY <1>1
    <3>2. p[t] \in Nat /\ p[t + 1] \in Nat /\ a <= p[t] /\ p[t] <= p[t + 1]
      BY <1>2, <1>4, <1>5, <3>1
    <3>3. g[t] = Positions(a, p[t + 1] - a)
      OBVIOUS
    <3>4. CASE t = 1
      BY <1>3, <1>4, <3>3, <3>4
    <3>5. CASE t # 1
      <4>1. t - 1 \in 1..n
        BY <1>1, <3>5
      <4>2. g[t - 1] = Positions(a, p[t] - a)
        BY <3>1, <4>1
      <4>3. p[t] - a \in Nat /\ p[t + 1] - p[t] \in Nat /\ a + (p[t] - a) = p[t]
            /\ (p[t] - a) + (p[t + 1] - p[t]) = p[t + 1] - a
        BY <3>2
      <4>4. PICK i \in Nat, k \in Nat : i = p[t] - a /\ k = p[t + 1] - p[t]
        BY <4>3
      <4>5. Positions(a, i) \o Positions(a + i, k) = Positions(a, i + k)
        BY PositionsJoin
      <4>6. Positions(a, p[t] - a) \o Positions(p[t], p[t + 1] - p[t]) = Positions(a, p[t + 1] - a)
        BY <4>3, <4>4, <4>5
      <4>. QED  BY <1>4, <3>3, <3>5, <4>2, <4>6
    <3>. QED  BY <3>4, <3>5
  <2>2. g[n] = Positions(a, b - a)
    BY <1>1, <1>3, <1>8
  <2>3. Flattens(g, s, n)
    BY <2>1 DEF Flattens
  <2>. HIDE DEF g
  <2>4. FlattenSeq(s) = g[n]
    BY <1>0, <1>1, <1>8, <2>3, FlattenValue
  <2>. QED  BY <1>6, <2>2, <2>4
<1>. QED  BY <1>7, <1>8

-----------------------------------------------------------------------------
(* The chain of filters.                                                   *)

\* RemoveAt closes the gap.
LEMMA RemoveValue ==
  ASSUME NEW T, NEW s \in Seq(T), NEW u \in 1..Len(s)
  PROVE  /\ RemoveAt(s, u) \in Seq(T) /\ Len(RemoveAt(s, u)) = Len(s) - 1
         /\ \A t \in 1..(Len(s) - 1) : RemoveAt(s, u)[t] = s[IF t < u THEN t ELSE t + 1]
<1>1. PICK n \in Nat : n = Len(s) /\ u \in 1..n
  OBVIOUS
<1>2. /\ SubSeq(s, 1, u - 1) \in Seq(T) /\ Len(SubSeq(s, 1, u - 1)) = u - 1
      /\ \A t \in 1..(u - 1) : SubSeq(s, 1, u - 1)[t] = s[t]
  BY <1>1
<1>3. /\ SubSeq(s, u + 1, n) \in Seq(T) /\ Len(SubSeq(s, u + 1, n)) = n - u
      /\ \A t \in 1..(n - u) : SubSeq(s, u + 1, n)[t] = s[u + t]
  BY <1>1
<1>4. PICK a \in Seq(T), b \in Seq(T) :
        /\ RemoveAt(s, u) = a \o b /\ Len(a) = u - 1 /\ Len(b) = n - u
        /\ \A t \in 1..(u - 1) : a[t] = s[t]
        /\ \A t \in 1..(n - u) : b[t] = s[u + t]
  <2>1. RemoveAt(s, u) = SubSeq(s, 1, u - 1) \o SubSeq(s, u + 1, n)
    BY <1>1 DEF RemoveAt
  <2>. QED  BY <1>2, <1>3, <2>1, Zenon
<1>5. /\ a \o b \in Seq(T) /\ Len(a \o b) = (u - 1) + (n - u)
      /\ \A t \in 1..((u - 1) + (n - u)) : (a \o b)[t] = IF t <= u - 1 THEN a[t] ELSE b[t - (u - 1)]
  <2>1. /\ a \o b \in Seq(T) /\ Len(a \o b) = Len(a) + Len(b)
        /\ \A t \in 1..(Len(a) + Len(b)) : (a \o b)[t] = IF t <= Len(a) THEN a[t] ELSE b[t - Len(a)]
    BY ConcatProperties
  <2>. QED  BY <1>4, <2>1, Zenon
<1>6. (u - 1) + (n - u) = n - 1
  BY <1>1
<1>7. ASSUME NEW t \in 1..(n - 1) PROVE (a \o b)[t] = s[IF t < u THEN t ELSE t + 1]
  <2>1. CASE t < u
    <3>1. t <= u - 1 /\ t \in 1..(u - 1)
      BY <1>1, <2>1
    <3>. QED  BY <1>4, <1>5, <1>6, <2>1, <3>1
  <2>2. CASE ~(t < u)
    <3>1. ~(t <= u - 1) /\ t - (u - 1) \in 1..(n - u) /\ u + (t - (u - 1)) = t + 1
      BY <1>1, <2>2
    <3>2. (a \o b)[t] = b[t - (u - 1)]
      BY <1>5, <1>6, <3>1
    <3>3. b[t - (u - 1)] = s[t + 1]
      BY <1>4, <3>1
    <3>. QED  BY <2>2, <3>2, <3>3
  <2>. QED  BY <2>1, <2>2
<1>. QED  BY <1>1, <1>4, <1>5, <1>6, <1>7

Links == Nat \cup {Other}
\* What is in the chain of a request.
LEMMA ChainType ==
  ASSUME NEW q \in Chain
  PROVE  /\ q.chain \in Seq(Links) /\ Len(q.chain) \in Nat /\ DOMAIN q.chain = 1..Len(q.chain)
         /\ q.proto \in Nat /\ q.f \in Nat \cup {None} /\ q.used \in Nat
         /\ \A t \in 1..Len(q.chain) : q.chain[t] \in Links
<1>1. q.chain \in Seq(Links) /\ q.proto \in Nat /\ q.f \in Nat \cup {None} /\ q.used \in Nat
  BY DEF Chain, Links
<1>. QED  BY <1>1

\* Each filter is found where it is, since it is there once.
LEMMA PlaceIs ==
  ASSUME NEW q \in Chain, Chained(q), NEW u \in 1..Len(q.chain)
  PROVE  PlaceOf(q, q.chain[u]) = u /\ q.chain[u] \in Range(q.chain)
<1>. DEFINE I == {i \in 1..Len(q.chain) : q.chain[i] = q.chain[u]}
<1>1. I = {u}
  BY ChainType DEF Chained
<1>2. Min({u}) = u
  BY LeastIndex
<1>3. PlaceOf(q, q.chain[u]) = u
  BY <1>1, <1>2 DEF PlaceOf, SelectInSeq
<1>. QED  BY <1>3, ChainType DEF Range

\* ap_remove_input_filter takes one filter out and keeps the border of the protocol filters.
LEMMA Removed ==
  ASSUME NEW q \in Chain, Chained(q), NEW u \in 1..Len(q.chain)
  PROVE  LET s == ap_remove_input_filter(q, q.chain[u])
         IN /\ s \in Chain /\ Chained(s) /\ s.f = q.f /\ s.used = q.used
            /\ Len(s.chain) = Len(q.chain) - 1
            /\ \A t \in 1..Len(s.chain) : s.chain[t] = q.chain[IF t < u THEN t ELSE t + 1]
            /\ s.proto = IF Len(q.chain) - u < q.proto THEN q.proto - 1 ELSE q.proto
<1>. DEFINE n == Len(q.chain)
            proto == IF n - u < q.proto THEN q.proto - 1 ELSE q.proto
            s == [q EXCEPT !.chain = RemoveAt(@, u), !.proto = proto]
<1>1. /\ q.chain \in Seq(Links) /\ n \in Nat /\ q.proto \in Nat /\ q.f \in Nat \cup {None}
      /\ q.used \in Nat /\ DOMAIN q.chain = 1..n
  BY ChainType
<1>2. ap_remove_input_filter(q, q.chain[u]) = s
  BY PlaceIs DEF ap_remove_input_filter
<1>3. /\ RemoveAt(q.chain, u) \in Seq(Links) /\ Len(RemoveAt(q.chain, u)) = n - 1
      /\ \A t \in 1..(n - 1) : RemoveAt(q.chain, u)[t] = q.chain[IF t < u THEN t ELSE t + 1]
  BY <1>1, RemoveValue
<1>4. proto \in Nat
  BY <1>1
<1>5. q.proto <= n
  BY DEF Chained
<1>6. proto <= n - 1
  BY <1>1, <1>5
<1>. HIDE DEF proto
<1>7. s.chain = RemoveAt(q.chain, u) /\ s.proto = proto /\ s.f = q.f /\ s.used = q.used
  BY DEF Chain
<1>8. s \in Chain
  BY <1>1, <1>3, <1>4 DEF Chain, Links
<1>. HIDE DEF s
<1>9. \A t \in 1..(n - 1) : (IF t < u THEN t ELSE t + 1) \in 1..n
  BY <1>1
<1>10. \A t, t2 \in 1..(n - 1) : (IF t < u THEN t ELSE t + 1) = (IF t2 < u THEN t2 ELSE t2 + 1) => t = t2
  BY <1>1
<1>11. DOMAIN s.chain = 1..(n - 1)
  BY <1>3, <1>7
<1>12. Chained(s)
  <2>1. ASSUME NEW t \in DOMAIN s.chain PROVE s.chain[t] = Other \/ s.chain[t] \in 1..s.used
    <3>1. s.chain[t] = q.chain[IF t < u THEN t ELSE t + 1]
      BY <1>3, <1>7, <1>11
    <3>. QED  BY <1>1, <1>7, <1>9, <1>11, <3>1 DEF Chained
  <2>2. ASSUME NEW t \in DOMAIN s.chain, NEW t2 \in DOMAIN s.chain, s.chain[t] = s.chain[t2] PROVE t = t2
    <3>1. /\ s.chain[t] = q.chain[IF t < u THEN t ELSE t + 1]
          /\ s.chain[t2] = q.chain[IF t2 < u THEN t2 ELSE t2 + 1]
      BY <1>3, <1>7, <1>11
    <3>2. (IF t < u THEN t ELSE t + 1) = (IF t2 < u THEN t2 ELSE t2 + 1)
      BY <1>1, <1>9, <1>11, <2>2, <3>1 DEF Chained
    <3>. QED  BY <1>10, <1>11, <3>2
  <2>3. s.proto <= Len(s.chain)
    BY <1>3, <1>6, <1>7
  <2>. QED  BY <2>1, <2>2, <2>3 DEF Chained
<1>. QED  BY <1>2, <1>3, <1>7, <1>8, <1>12 DEF proto

\* ap_add_input_filter moves the others one place down.
LEMMA Pushed ==
  ASSUME NEW q \in Chain, NEW f \in Links
  PROVE  LET s == OnTop(q, f)
         IN /\ s \in Chain /\ s.f = q.f /\ s.used = q.used /\ s.proto = q.proto
            /\ Len(s.chain) = Len(q.chain) + 1 /\ s.chain[1] = f
            /\ \A t \in 1..Len(s.chain) : t # 1 => s.chain[t] = q.chain[t - 1]
<1>1. PICK c \in Seq(Links) : c = q.chain
  BY ChainType
<1>2. /\ <<f>> \o c \in Seq(Links) /\ Len(<<f>> \o c) = Len(c) + 1 /\ (<<f>> \o c)[1] = f
      /\ \A t \in 1..(Len(c) + 1) : t # 1 => (<<f>> \o c)[t] = c[t - 1]
  OBVIOUS
<1>3. /\ OnTop(q, f).chain = <<f>> \o c /\ OnTop(q, f).f = q.f /\ OnTop(q, f).used = q.used
      /\ OnTop(q, f).proto = q.proto
  BY <1>1 DEF OnTop, Chain
<1>4. OnTop(q, f) \in Chain
  BY <1>1, <1>2 DEF OnTop, Chain, Links
<1>. QED  BY <1>1, <1>2, <1>3, <1>4

-----------------------------------------------------------------------------
(* What a call changes.                                                    *)
Given == content \in Seq(Block) /\ request \in Request /\ broken \in BOOLEAN
Good(x) ==
  /\ x \in World /\ Chained(x.r) /\ Owned(x) /\ Handled(x) /\ Kept(x)
  /\ \A f \in Filters : Sound(x.ctx[f])

\* What is in a state, and in the context of a filter that has one.
LEMMA WorldType ==
  ASSUME NEW x \in World
  PROVE  /\ x.r \in Chain /\ x.of \in [Filters -> {0} \cup Filters] /\ x.ctx \in [Filters -> Context]
         /\ \A f \in Filters : x.ctx[f] \in Context
         /\ \A f : HasContext(x, f) =>
              /\ f \in Filters /\ f \in Nat \ {0} /\ x.of[f] \in Filters
              /\ CtxOf(x, f) = x.ctx[x.of[f]] /\ CtxOf(x, f) \in Context
<1>1. x.r \in Chain /\ x.of \in [Filters -> {0} \cup Filters] /\ x.ctx \in [Filters -> Context]
  BY DEF World
<1>2. \A f \in Filters : x.ctx[f] \in Context /\ f \in Nat \ {0}
  BY <1>1, Sizes DEF Filters
<1>3. ASSUME NEW f, HasContext(x, f)
      PROVE  f \in Filters /\ f \in Nat \ {0} /\ x.of[f] \in Filters /\ x.ctx[x.of[f]] \in Context
  BY <1>1, <1>2, <1>3 DEF HasContext
<1>. QED  BY <1>1, <1>2, <1>3 DEF CtxOf

\* What is in a filter context.
LEMMA ContextType ==
  ASSUME Given, NEW c \in Context
  PROVE  /\ c.status \in Statuses /\ c.spool \in Brigades /\ c.parser \in Parser \cup {None}
         /\ c.hook_queue \in Seq(AnyHook) /\ c.body \in Seq(Param) /\ c.filter_error \in BOOLEAN
         /\ c.bytes_read \in Nat /\ c.read_limit \in Nat /\ c.shown \in Seq(Places)
         /\ c.shown \in Seq(Nat) /\ c.spool.data \in Seq(Nat) /\ c.spool.eos \in BOOLEAN
         /\ c.spool.data \in Seq(Places)
<1>1. /\ c.status \in Statuses /\ c.spool \in Brigades /\ c.parser \in Parser \cup {None}
      /\ c.hook_queue \in Seq(AnyHook) /\ c.body \in Seq(Param) /\ c.filter_error \in BOOLEAN
      /\ c.bytes_read \in Nat /\ c.read_limit \in Nat /\ c.shown \in Seq(Places)
  BY DEF Context
<1>2. c.spool.data \in Seq(Places) /\ c.spool.eos \in BOOLEAN
  BY <1>1 DEF Brigades
<1>3. Places \subseteq Nat
  BY DEF Given, Places
<1>. QED  BY <1>1, <1>2, <1>3, SeqMonotonic

\* What is seen of a context, and of a filter that has none.
SeenOf(c) == [data |-> c.spool.data, eos |-> c.spool.eos, err |-> c.filter_error,
              parsing |-> c.status \in {APR_INCOMPLETE, INTERRUPT}, shown |-> c.shown]
Nothing == [data |-> <<>>, eos |-> FALSE, err |-> FALSE, parsing |-> FALSE, shown |-> <<>>]

\* The others see of a filter what its context holds, or nothing.
LEMMA SeenIs ==
  ASSUME NEW x, NEW f
  PROVE  /\ HasContext(x, f) => Seen(x, f) = SeenOf(CtxOf(x, f))
         /\ ~HasContext(x, f) => Seen(x, f) = Nothing
BY DEF Seen, SeenOf, Nothing

\* What is seen of a filter is well formed.
LEMMA SeenType ==
  ASSUME Given, NEW x \in World, NEW f
  PROVE  Seen(x, f) \in Sight
<1>1. CASE HasContext(x, f)
  <2>1. PICK c \in Context : c = CtxOf(x, f)
    BY <1>1, WorldType
  <2>2. SeenOf(c) \in Sight
    BY ContextType DEF SeenOf, Sight
  <2>. QED  BY <1>1, <2>1, <2>2, SeenIs
<1>2. CASE ~HasContext(x, f)
  <2>1. Nothing \in Sight
    BY DEF Nothing, Sight
  <2>. QED  BY <1>2, <2>1, SeenIs
<1>. QED  BY <1>1, <1>2

\* The sights of a chain have one entry per filter.
LEMMA SightsType ==
  ASSUME Given, NEW x \in World
  PROVE  /\ Sights(x) \in Seq(Sight) /\ Len(Sights(x)) = Len(x.r.chain) /\ Len(x.r.chain) \in Nat
         /\ \A t \in 1..Len(x.r.chain) : Sights(x)[t] = Seen(x, x.r.chain[t])
<1>1. Len(x.r.chain) \in Nat
  BY WorldType, ChainType
<1>2. PICK n \in Nat : n = Len(x.r.chain)
  BY <1>1
<1>3. Sights(x) = [t \in 1..n |-> Seen(x, x.r.chain[t])]
  BY <1>2 DEF Sights
<1>4. \A t \in 1..n : Seen(x, x.r.chain[t]) \in Sight
  BY SeenType
<1>. QED  BY <1>2, <1>3, <1>4

\* The stream with nothing on its way, and with what got brings up to the h-th filter.
Flow(x, a, b) ==
  \E p : /\ Stream(Sights(x), p, Len(content))
         /\ Cuts(Sights(x), p, a, b, 0, 0, Len(content), ~broken)
Rides(p, h, got) ==
  /\ Len(got.data) <= p[h] /\ got.data = Positions(p[h] - Len(got.data), Len(got.data))
  /\ got.eos => p[h] = Len(content)
Riding(x, a, b, h, got) ==
  \E p : /\ Stream(Sights(x), p, Len(content))
         /\ Cuts(Sights(x), p, a, b, h, Len(got.data), Len(content), ~broken)
         /\ Rides(p, h, got)

\* The form of the stream the proofs use is the one the invariant states.
LEMMA FlowIs ==
  ASSUME Given, NEW x \in World, NEW a, NEW b
  PROVE  Flows(x, a, b, 0, 0) <=> Flow(x, a, b)
<1>1. Sights(x) \in Seq(Sight) /\ Len(Sights(x)) = Len(x.r.chain) /\ Len(content) \in Nat
  BY SightsType DEF Given
<1>. QED  BY <1>1 DEF Flows, Flow, Stream, Cuts

\* The stream is the same when the filters look alike.
LEMMA FlowLike ==
  ASSUME Given, NEW x \in World, NEW y \in World, y.r.chain = x.r.chain, NEW a, NEW b, Flow(x, a, b),
         \A t \in 1..Len(x.r.chain) : Like(Seen(y, x.r.chain[t]), Seen(x, x.r.chain[t]))
  PROVE  Flow(y, a, b)
<1>. DEFINE v == Sights(x)
            w == Sights(y)
            n == Len(x.r.chain)
            size == Len(content)
<1>1. /\ v \in Seq(Sight) /\ w \in Seq(Sight) /\ Len(v) = n /\ Len(w) = n /\ n \in Nat /\ size \in Nat
      /\ \A t \in 1..n : v[t] = Seen(x, x.r.chain[t]) /\ w[t] = Seen(y, x.r.chain[t])
  BY SightsType DEF Given
<1>2. PICK p : Stream(v, p, size) /\ Cuts(v, p, a, b, 0, 0, size, ~broken)
  BY DEF Flow
<1>3. p \in [1..(n + 1) -> 0..size]
  BY <1>1, <1>2 DEF Stream
<1>4. ASSUME NEW t \in 1..n PROVE Stretch(w[t], p[t], Above(p, 0, 0, t + 1), size, ~broken)
  <2>1. t \in 1..(n + 1) /\ t + 1 \in 1..(n + 1) /\ t + 1 # 0
    BY <1>1
  <2>2. p[t] \in Nat /\ p[t + 1] \in Int /\ Above(p, 0, 0, t + 1) = p[t + 1]
    <3>1. p[t] \in 0..size /\ p[t + 1] \in 0..size
      BY <1>3, <2>1, Zenon
    <3>2. Above(p, 0, 0, t + 1) = p[t + 1]
      BY <2>1, Zenon DEF Above
    <3>. QED  BY <3>1, <3>2
  <2>3. Stretch(v[t], p[t], p[t + 1], size, ~broken)
    BY <1>1, <1>2, <2>2 DEF Cuts
  <2>4. Like(w[t], v[t]) /\ w[t] \in Sight /\ v[t] \in Sight
    BY <1>1
  <2>5. PICK whole \in BOOLEAN : whole = ~broken
    BY DEF Given
  <2>. HIDE DEF v, w, n, size
  <2>6. Stretch(w[t], p[t], p[t + 1], size, whole)
    BY <1>1, <2>2, <2>3, <2>4, <2>5, StretchLike
  <2>. QED  BY <2>2, <2>5, <2>6
<1>5. Stream(w, p, size)
  BY <1>1, <1>2 DEF Stream
<1>6. Cuts(w, p, a, b, 0, 0, size, ~broken)
  BY <1>1, <1>2, <1>4 DEF Cuts
<1>. QED  BY <1>5, <1>6 DEF Flow

\* A context changes and stays at work or finished, as it was.
Settled(c, d) ==
  /\ d.status = APR_EINIT => c.status = APR_EINIT
  /\ c.status \in Finished => d.status \in Finished

\* A context d in place of o holds blocks only if o may.
Holds(x, o, d) ==
  \/ d.spool.data = <<>> \/ x.ctx[o].spool.data # <<>>
  \/ \E u \in DOMAIN x.r.chain :
       u > Len(x.r.chain) - x.r.proto /\ HasContext(x, x.r.chain[u]) /\ x.of[x.r.chain[u]] = o

\* Giving one context a new value leaves the chain and the other contexts alone.
LEMMA UpdateValue ==
  ASSUME NEW x \in World, NEW o \in Filters, NEW d \in Context
  PROVE  LET y == [x EXCEPT !.ctx[o] = d]
         IN /\ y \in World /\ y.r = x.r /\ y.of = x.of /\ y.ctx[o] = d
            /\ \A g \in Filters : g # o => y.ctx[g] = x.ctx[g]
            /\ \A f : HasContext(y, f) <=> HasContext(x, f)
            /\ \A f : HasContext(x, f) =>
                        CtxOf(y, f) = IF x.of[f] = o THEN d ELSE CtxOf(x, f)
<1>. DEFINE y == [x EXCEPT !.ctx[o] = d]
<1>1. x.r \in Chain /\ x.of \in [Filters -> {0} \cup Filters] /\ x.ctx \in [Filters -> Context]
  BY WorldType
<1>2. y.r = x.r /\ y.of = x.of /\ y.ctx = [x.ctx EXCEPT ![o] = d]
  BY DEF World
<1>3. y.ctx \in [Filters -> Context] /\ y.ctx[o] = d /\ \A g \in Filters : g # o => y.ctx[g] = x.ctx[g]
  BY <1>1, <1>2
<1>4. y \in World
  BY <1>1, <1>2, <1>3 DEF World
<1>. HIDE DEF y
<1>5. \A f : HasContext(y, f) <=> HasContext(x, f)
  BY <1>2 DEF HasContext
<1>6. ASSUME NEW f, HasContext(x, f) PROVE CtxOf(y, f) = IF x.of[f] = o THEN d ELSE CtxOf(x, f)
  <2>1. x.of[f] \in Filters
    BY <1>6, WorldType
  <2>. QED  BY <1>2, <1>3, <2>1 DEF CtxOf
<1>. QED  BY <1>2, <1>3, <1>4, <1>5, <1>6 DEF y

\* A context may change as long as it stays sound and does not forget that it is done.
LEMMA UpdateGood ==
  ASSUME NEW x, Good(x), NEW o \in Filters, x.of[o] = o, NEW d \in Context, Sound(d),
         Settled(x.ctx[o], d), Holds(x, o, d),
         d.status = INTERRUPT => x.ctx[o].status = INTERRUPT \/ x.r.f = None
  PROVE  Good([x EXCEPT !.ctx[o] = d])
<1>. DEFINE y == [x EXCEPT !.ctx[o] = d]
<1>1. x \in World /\ Chained(x.r) /\ Owned(x) /\ Handled(x) /\ Kept(x) /\ \A f \in Filters : Sound(x.ctx[f])
  BY DEF Good
<1>2. /\ y \in World /\ y.r = x.r /\ y.of = x.of /\ y.ctx[o] = d
      /\ \A g \in Filters : g # o => y.ctx[g] = x.ctx[g]
      /\ \A f : HasContext(y, f) <=> HasContext(x, f)
      /\ \A f : HasContext(x, f) => CtxOf(y, f) = IF x.of[f] = o THEN d ELSE CtxOf(x, f)
  BY <1>1, UpdateValue
<1>. HIDE DEF y
<1>3. \A f : HasContext(x, f) /\ x.of[f] = o => CtxOf(x, f) = x.ctx[o]
  BY DEF CtxOf
<1>4. Owned(y)
  <2>1. \A f \in Filters : y.of[f] = 0 => f # o
    BY <1>2, Sizes DEF Filters
  <2>. QED  BY <1>1, <1>2, <2>1 DEF Owned
<1>5. Handled(y)
  <2>1. ASSUME y.r.f # None
        PROVE  /\ y.r.f \in 1 .. y.r.used
               /\ y.r.f \in Range(y.r.chain) \/ (HasContext(y, y.r.f) /\ CtxOf(y, y.r.f).status \in Finished)
               /\ HasContext(y, y.r.f) => CtxOf(y, y.r.f).status # INTERRUPT
               /\ \A t, u \in DOMAIN y.r.chain : y.r.chain[u] = y.r.f /\ t < u => y.r.chain[t] = Other
    <3>1. /\ x.r.f \in 1 .. x.r.used
          /\ x.r.f \in Range(x.r.chain) \/ (HasContext(x, x.r.f) /\ CtxOf(x, x.r.f).status \in Finished)
          /\ HasContext(x, x.r.f) => CtxOf(x, x.r.f).status # INTERRUPT
          /\ \A t, u \in DOMAIN x.r.chain : x.r.chain[u] = x.r.f /\ t < u => x.r.chain[t] = Other
      BY <1>1, <1>2, <2>1 DEF Handled
    <3>2. HasContext(x, x.r.f) /\ CtxOf(x, x.r.f).status \in Finished => CtxOf(y, x.r.f).status \in Finished
      BY <1>2, <1>3 DEF Settled
    <3>3. HasContext(x, x.r.f) => CtxOf(y, x.r.f).status # INTERRUPT
      BY <1>2, <1>3, <2>1, <3>1
    <3>. QED  BY <1>2, <3>1, <3>2, <3>3
  <2>. QED  BY <2>1 DEF Handled
<1>6. Kept(y)
  <2>1. ASSUME NEW t \in DOMAIN y.r.chain,
               t <= Len(y.r.chain) - y.r.proto, HasContext(y, y.r.chain[t])
        PROVE  CtxOf(y, y.r.chain[t]).spool.data = <<>>
    <3>1. HasContext(x, x.r.chain[t]) /\ CtxOf(x, x.r.chain[t]).spool.data = <<>>
      BY <1>1, <1>2, <2>1 DEF Kept
    <3>2. CASE x.of[x.r.chain[t]] # o
      BY <1>2, <3>1, <3>2
    <3>3. CASE x.of[x.r.chain[t]] = o
      <4>1. CtxOf(x, x.r.chain[t]) = x.ctx[o] /\ CtxOf(y, x.r.chain[t]) = d
        BY <1>2, <1>3, <3>1, <3>3
      <4>2. SUFFICES ASSUME NEW u \in DOMAIN x.r.chain, u > Len(x.r.chain) - x.r.proto,
                            HasContext(x, x.r.chain[u]), x.of[x.r.chain[u]] = o
                     PROVE  FALSE
        BY <1>2, <3>1, <4>1 DEF Holds
      <4>3. t = u
        BY <1>1, <1>2, <2>1, <3>1, <3>3, <4>2 DEF Owned
      <4>4. u \in Int /\ Len(x.r.chain) - x.r.proto \in Int
        BY <1>1, WorldType, ChainType
      <4>. QED  BY <1>2, <2>1, <4>2, <4>3, <4>4
    <3>. QED  BY <3>2, <3>3
  <2>2. ASSUME y.r.proto > 0, FirstProto(y.r) # Other
        PROVE  HasContext(y, FirstProto(y.r)) /\ CtxOf(y, FirstProto(y.r)).status # APR_EINIT
    <3>1. HasContext(x, FirstProto(x.r)) /\ CtxOf(x, FirstProto(x.r)).status # APR_EINIT
      BY <1>1, <1>2, <2>2 DEF Kept
    <3>. QED  BY <1>2, <1>3, <3>1 DEF Settled
  <2>. QED  BY <2>1, <2>2 DEF Kept
<1>7. \A f \in Filters : Sound(y.ctx[f])
  BY <1>1, <1>2
<1>8. Good(y)
  BY <1>1, <1>2, <1>4, <1>5, <1>6, <1>7 DEF Good
<1>. QED  BY <1>8 DEF y

\* The chain changes, the contexts do not.
LEMMA RewireValue ==
  ASSUME NEW x \in World, NEW s \in Chain
  PROVE  LET y == [x EXCEPT !.r = s]
         IN /\ y \in World /\ y.r = s /\ y.of = x.of /\ y.ctx = x.ctx
            /\ \A f : HasContext(y, f) <=> HasContext(x, f)
            /\ \A f : CtxOf(y, f) = CtxOf(x, f) /\ Seen(y, f) = Seen(x, f)
<1>. DEFINE y == [x EXCEPT !.r = s]
<1>1. y \in World /\ y.r = s /\ y.of = x.of /\ y.ctx = x.ctx
  BY DEF World
<1>. HIDE DEF y
<1>2. \A f : HasContext(y, f) <=> HasContext(x, f)
  BY <1>1 DEF HasContext
<1>3. \A f : CtxOf(y, f) = CtxOf(x, f)
  BY <1>1 DEF CtxOf
<1>4. \A f : Seen(y, f) = Seen(x, f)
  BY <1>2, <1>3, SeenIs
<1>. QED  BY <1>1, <1>2, <1>3, <1>4 DEF y

\* f goes on top of the chain of x, which becomes s.
Puts(x, f, s) ==
  /\ s \in Chain /\ f \in Links /\ Len(s.chain) = Len(x.r.chain) + 1 /\ s.chain[1] = f
  /\ \A t \in 1..Len(s.chain) : t # 1 => s.chain[t] = x.r.chain[t - 1]
  /\ s.proto = x.r.proto /\ s.used >= x.r.used
  /\ f = Other \/ f \in 1..s.used
  /\ \A t \in 1..Len(x.r.chain) : x.r.chain[t] # f

\* Where the first protocol filter is.
LEMMA ProtoPlace ==
  ASSUME NEW n \in Nat, NEW k \in Nat, k <= n, k > 0
  PROVE  /\ n - k + 1 \in 1..n
         /\ (n + 1) - k + 1 \in 1..(n + 1) /\ (n + 1) - k + 1 # 1 /\ ((n + 1) - k + 1) - 1 = n - k + 1
OBVIOUS

\* A filter that is not in the chain, with an empty spool, may be put on top.
LEMMA PushGood ==
  ASSUME NEW x, Good(x), NEW f, NEW s, Puts(x, f, s),
         \/ s.f = x.r.f /\ (x.r.f = None \/ f = Other)
         \/ s.f = f /\ f # Other /\ (HasContext(x, f) => CtxOf(x, f).status # INTERRUPT),
         HasContext(x, f) => CtxOf(x, f).spool.data = <<>>,
         HasContext(x, f) => \A t \in 1..Len(x.r.chain) :
           HasContext(x, x.r.chain[t]) => x.of[x.r.chain[t]] # x.of[f]
  PROVE  Good([x EXCEPT !.r = s])
<1>. DEFINE y == [x EXCEPT !.r = s]
            n == Len(x.r.chain)
<1>1. x \in World /\ Chained(x.r) /\ Owned(x) /\ Handled(x) /\ Kept(x) /\ \A g \in Filters : Sound(x.ctx[g])
  BY DEF Good
<1>2. /\ s \in Chain /\ f \in Links /\ Len(s.chain) = n + 1 /\ s.chain[1] = f
      /\ \A t \in 1..(n + 1) : t # 1 => s.chain[t] = x.r.chain[t - 1]
      /\ s.proto = x.r.proto /\ s.used >= x.r.used /\ (f = Other \/ f \in 1..s.used)
      /\ \A t \in 1..n : x.r.chain[t] # f
  BY DEF Puts
<1>3. /\ n \in Nat /\ DOMAIN x.r.chain = 1..n /\ DOMAIN s.chain = 1..(n + 1)
      /\ x.r.proto \in Nat /\ x.r.used \in Nat /\ s.used \in Nat
  BY <1>1, <1>2, WorldType, ChainType
<1>4. /\ y \in World /\ y.r = s /\ y.of = x.of /\ y.ctx = x.ctx
      /\ \A g : HasContext(y, g) <=> HasContext(x, g)
      /\ \A g : CtxOf(y, g) = CtxOf(x, g)
  BY <1>1, <1>2, RewireValue
<1>. HIDE DEF y
<1>5. \A t \in 1..(n + 1) : t # 1 => t - 1 \in 1..n
  BY <1>3
<1>6. Chained(s)
  <2>1. ASSUME NEW t \in 1..(n + 1) PROVE s.chain[t] = Other \/ s.chain[t] \in 1..s.used
    <3>1. CASE t = 1
      BY <1>2, <3>1
    <3>2. CASE t # 1
      <4>1. x.r.chain[t - 1] = Other \/ x.r.chain[t - 1] \in 1..x.r.used
        BY <1>1, <1>3, <1>5, <3>2 DEF Chained
      <4>2. \A g \in 1..x.r.used : g \in 1..s.used
        BY <1>2, <1>3
      <4>. QED  BY <1>2, <3>2, <4>1, <4>2
    <3>. QED  BY <3>1, <3>2
  <2>2. ASSUME NEW t \in 1..(n + 1), NEW u \in 1..(n + 1), s.chain[t] = s.chain[u] PROVE t = u
    <3>1. CASE t # 1 /\ u # 1
      <4>1. t - 1 \in 1..n /\ u - 1 \in 1..n
        BY <1>5, <3>1
      <4>2. x.r.chain[t - 1] = x.r.chain[u - 1]
        BY <1>2, <2>2, <3>1
      <4>3. \A j, k \in 1..n : x.r.chain[j] = x.r.chain[k] => j = k
        BY <1>1, <1>3, Zenon DEF Chained
      <4>4. t - 1 = u - 1
        BY <4>1, <4>2, <4>3, Zenon
      <4>. QED  BY <4>4
    <3>2. CASE t = 1 /\ u # 1
      BY <1>2, <1>5, <2>2, <3>2
    <3>3. CASE u = 1 /\ t # 1
      BY <1>2, <1>5, <2>2, <3>3
    <3>. QED  BY <3>1, <3>2, <3>3
  <2>3. s.proto <= n + 1
    BY <1>1, <1>2, <1>3 DEF Chained
  <2>. QED  BY <1>2, <1>3, <2>1, <2>2, <2>3 DEF Chained
<1>7. Owned(y)
  <2>1. ASSUME NEW g \in Filters, y.of[g] # 0 PROVE g <= y.r.used /\ y.of[y.of[g]] = y.of[g]
    <3>1. g <= x.r.used /\ x.of[x.of[g]] = x.of[g]
      BY <1>1, <1>4, <2>1 DEF Owned
    <3>2. g \in Nat
      BY Sizes DEF Filters
    <3>. QED  BY <1>2, <1>3, <1>4, <3>1, <3>2
  <2>2. \A g \in Filters : y.of[g] = 0 => y.ctx[g].status = APR_EINIT
    BY <1>1, <1>4 DEF Owned
  <2>3. ASSUME NEW t \in 1..(n + 1), NEW u \in 1..(n + 1), HasContext(x, s.chain[t]), HasContext(x, s.chain[u]),
               x.of[s.chain[t]] = x.of[s.chain[u]]
        PROVE  t = u
    <3>1. CASE t # 1 /\ u # 1
      <4>1. /\ t - 1 \in 1..n /\ u - 1 \in 1..n
            /\ s.chain[t] = x.r.chain[t - 1] /\ s.chain[u] = x.r.chain[u - 1]
        BY <1>2, <1>5, <3>1
      <4>2. \A i, j \in 1..n :
              /\ HasContext(x, x.r.chain[i]) /\ HasContext(x, x.r.chain[j])
              /\ x.of[x.r.chain[i]] = x.of[x.r.chain[j]]
              => i = j
        BY <1>1, <1>3 DEF Owned
      <4>3. t - 1 = u - 1
        BY <2>3, <4>1, <4>2
      <4>. QED  BY <4>3
    <3>2. CASE t = 1 /\ u # 1
      BY <1>2, <1>5, <2>3, <3>2
    <3>3. CASE u = 1 /\ t # 1
      BY <1>2, <1>5, <2>3, <3>3
    <3>. QED  BY <3>1, <3>2, <3>3
  <2>. QED  BY <1>3, <1>4, <2>1, <2>2, <2>3 DEF Owned
<1>8. Handled(y)
  <2>1. CASE s.f = None
    BY <1>4, <2>1 DEF Handled
  <2>2. CASE s.f # None /\ s.f = x.r.f /\ f = Other
    <3>1. /\ x.r.f \in 1 .. x.r.used
          /\ x.r.f \in Range(x.r.chain) \/ (HasContext(x, x.r.f) /\ CtxOf(x, x.r.f).status \in Finished)
          /\ HasContext(x, x.r.f) => CtxOf(x, x.r.f).status # INTERRUPT
          /\ \A t, u \in 1..n : x.r.chain[u] = x.r.f /\ t < u => x.r.chain[t] = Other
      BY <1>1, <1>3, <2>2 DEF Handled
    <3>2. s.f \in 1..s.used
      BY <1>2, <1>3, <2>2, <3>1
    <3>3. x.r.f \in Range(x.r.chain) => s.f \in Range(s.chain)
      <4>1. SUFFICES ASSUME NEW u \in 1..n, x.r.chain[u] = x.r.f PROVE s.f \in Range(s.chain)
        BY <1>3 DEF Range
      <4>2. u + 1 \in 1..(n + 1) /\ u + 1 # 1 /\ (u + 1) - 1 = u
        BY <1>3
      <4>3. s.chain[u + 1] = s.f
        BY <1>2, <2>2, <4>1, <4>2
      <4>. QED  BY <1>3, <4>2, <4>3 DEF Range
    <3>4. ASSUME NEW t \in 1..(n + 1), NEW u \in 1..(n + 1), s.chain[u] = s.f, t < u PROVE s.chain[t] = Other
      <4>1. CASE t = 1
        BY <1>2, <2>2, <4>1
      <4>2. CASE t # 1
        <5>1. u # 1 /\ t - 1 < u - 1 /\ t - 1 \in 1..n /\ u - 1 \in 1..n
          BY <1>3, <3>4, <4>2
        <5>. QED  BY <1>2, <2>2, <3>1, <3>4, <4>2, <5>1
      <4>. QED  BY <4>1, <4>2
    <3>. QED  BY <1>3, <1>4, <2>2, <3>1, <3>2, <3>3, <3>4 DEF Handled
  <2>3. CASE s.f = f /\ f # Other /\ (HasContext(x, f) => CtxOf(x, f).status # INTERRUPT)
    <3>1. f \in 1..s.used /\ 1 \in 1..(n + 1)
      BY <1>2, <1>3, <2>3
    <3>2. f \in Range(s.chain)
      BY <1>2, <1>3, <3>1 DEF Range
    <3>3. ASSUME NEW t \in 1..(n + 1), NEW u \in 1..(n + 1), s.chain[u] = f, t < u PROVE s.chain[t] = Other
      <4>1. u = 1
        BY <1>2, <1>5, <3>3
      <4>. QED  BY <3>3, <4>1
    <3>. QED  BY <1>3, <1>4, <2>3, <3>1, <3>2, <3>3 DEF Handled
  <2>. QED  BY <2>1, <2>2, <2>3
<1>9. Kept(y)
  <2>1. ASSUME NEW t \in 1..(n + 1), t <= (n + 1) - s.proto, HasContext(x, s.chain[t])
        PROVE  CtxOf(x, s.chain[t]).spool.data = <<>>
    <3>1. CASE t = 1
      BY <1>2, <2>1, <3>1
    <3>2. CASE t # 1
      <4>1. t - 1 \in 1..n /\ t - 1 <= n - x.r.proto
        BY <1>2, <1>3, <2>1, <3>2
      <4>. QED  BY <1>1, <1>2, <1>3, <2>1, <3>2, <4>1 DEF Kept
    <3>. QED  BY <3>1, <3>2
  <2>2. s.proto > 0 => FirstProto(s) = FirstProto(x.r)
    <3>1. s.proto > 0 => (n + 1) - s.proto + 1 \in 1..(n + 1) /\ (n + 1) - s.proto + 1 # 1
                         /\ ((n + 1) - s.proto + 1) - 1 = n - x.r.proto + 1
      <4>1. PICK k \in Nat : k = s.proto /\ k = x.r.proto /\ k <= n
        BY <1>1, <1>2, <1>3 DEF Chained
      <4>2. k > 0 => (n + 1) - k + 1 \in 1..(n + 1) /\ (n + 1) - k + 1 # 1
                     /\ ((n + 1) - k + 1) - 1 = n - k + 1
        BY <1>3, <4>1, ProtoPlace
      <4>. QED  BY <4>1, <4>2
    <3>. QED  BY <1>2, <3>1 DEF FirstProto
  <2>3. s.proto > 0 /\ FirstProto(s) # Other =>
          HasContext(x, FirstProto(s)) /\ CtxOf(x, FirstProto(s)).status # APR_EINIT
    BY <1>1, <1>2, <2>2 DEF Kept
  <2>4. ASSUME NEW t \in DOMAIN y.r.chain, t <= Len(y.r.chain) - y.r.proto, HasContext(y, y.r.chain[t])
        PROVE  CtxOf(y, y.r.chain[t]).spool.data = <<>>
    <3>1. t \in 1..(n + 1) /\ t <= (n + 1) - s.proto /\ HasContext(x, s.chain[t])
      BY <1>2, <1>3, <1>4, <2>4, Zenon
    <3>. QED  BY <1>4, <2>1, <3>1, Zenon
  <2>5. y.r.proto > 0 /\ FirstProto(y.r) # Other =>
          HasContext(y, FirstProto(y.r)) /\ CtxOf(y, FirstProto(y.r)).status # APR_EINIT
    BY <1>4, <2>3, Zenon
  <2>. QED  BY <2>4, <2>5, Zenon DEF Kept
<1>10. Good(y)
  BY <1>1, <1>4, <1>6, <1>7, <1>8, <1>9 DEF Good
<1>. QED  BY <1>10 DEF y

\* A filter without a spool on top does not disturb the stream.
LEMMA PushFlow ==
  ASSUME Given, NEW x \in World, NEW f, NEW s, Puts(x, f, s), Quiet(Seen(x, f)), ~Seen(x, f).parsing,
         NEW a, NEW b, Flow(x, a, b)
  PROVE  Flow([x EXCEPT !.r = s], a, b)
<1>. DEFINE y == [x EXCEPT !.r = s]
            n == Len(x.r.chain)
            v == Sights(x)
            w == Sights(y)
            size == Len(content)
<1>1. y \in World /\ y.r = s /\ \A g : Seen(y, g) = Seen(x, g)
  BY RewireValue DEF Puts
<1>2. /\ v \in Seq(Sight) /\ w \in Seq(Sight) /\ Len(v) = n /\ Len(w) = n + 1 /\ n \in Nat
      /\ \A t \in 1..n : v[t] = Seen(x, x.r.chain[t])
      /\ \A t \in 1..(n + 1) : w[t] = Seen(x, s.chain[t])
  <2>1. Len(s.chain) = n + 1
    BY DEF Puts
  <2>2. /\ v \in Seq(Sight) /\ Len(v) = n /\ n \in Nat
        /\ \A t \in 1..n : v[t] = Seen(x, x.r.chain[t])
    BY SightsType
  <2>3. /\ w \in Seq(Sight) /\ Len(w) = Len(y.r.chain)
        /\ \A t \in 1..Len(y.r.chain) : w[t] = Seen(y, y.r.chain[t])
    <3>. HIDE DEF y
    <3>. QED  BY <1>1, SightsType
  <2>. HIDE DEF y, v, w, n
  <2>. QED  BY <1>1, <2>1, <2>2, <2>3
<1>3. /\ s.chain[1] = f
      /\ \A t \in 1..(n + 1) : t # 1 => s.chain[t] = x.r.chain[t - 1]
  BY DEF Puts
<1>. HIDE DEF y
<1>4. PICK p : Stream(v, p, size) /\ Cuts(v, p, a, b, 0, 0, size, ~broken)
  BY DEF Flow
<1>5. 1 \in 1..(Len(v) + 1) /\ Quiet(w[1]) /\ ~w[1].parsing
  BY <1>2, <1>3
<1>6. ASSUME NEW t \in 1..(n + 1), t # 1 PROVE Like(w[t], v[t - 1])
  <2>1. t - 1 \in 1..n
    BY <1>2, <1>6
  <2>2. w[t] = v[t - 1]
    BY <1>2, <1>3, <1>6, <2>1
  <2>. QED  BY <2>2 DEF Like
<1>7. \A t \in 1..Len(w) : t # 1 => Like(w[t], v[IF t < 1 THEN t ELSE t - 1])
  BY <1>2, <1>6
<1>8. PICK whole \in BOOLEAN : whole = ~broken
  BY DEF Given
<1>. HIDE DEF v, w, n, size
<1>9. \E q : Stream(w, q, size) /\ Cuts(w, q, a, b, 0, 0, size, whole)
  <2>1. Inserts(v, w, 1)
    BY <1>2, <1>5, <1>7 DEF Inserts
  <2>. QED  BY <1>2, <1>4, <1>8, <2>1, CutsInsert
<1>. QED  BY <1>8, <1>9 DEF Flow, w, y, size

\* The t-th filter, if there is one, is at work or not an apreq filter.
Ready(x, t) ==
  t \in 1..Len(x.r.chain) =>
    x.r.chain[t] = Other \/ (HasContext(x, x.r.chain[t]) /\ CtxOf(x, x.r.chain[t]).status # APR_EINIT)

\* Places of a chain without its u-th filter and of the whole one, in the same order.
LEMMA AwayIs ==
  ASSUME NEW n \in Nat, NEW u \in 1..n
  PROVE  /\ \A t \in 1..(n - 1) : Away(u, t) \in 1..n /\ Away(u, t) # u
         /\ \A t, t2 \in 1..(n - 1) : Away(u, t) = Away(u, t2) => t = t2
         /\ \A t, t2 \in 1..(n - 1) : t < t2 => Away(u, t) < Away(u, t2)
         /\ \A t \in 1..n : t # u => \E t2 \in 1..(n - 1) : Away(u, t2) = t
<1>1. \A t \in 1..(n - 1) : Away(u, t) \in 1..n /\ Away(u, t) # u
  BY DEF Away
<1>2. \A t, t2 \in 1..(n - 1) : t < t2 => Away(u, t) < Away(u, t2)
  BY DEF Away
<1>3. \A t, t2 \in 1..(n - 1) : Away(u, t) = Away(u, t2) => t = t2
  BY DEF Away
<1>4. ASSUME NEW t \in 1..n, t # u PROVE \E t2 \in 1..(n - 1) : Away(u, t2) = t
  <2>1. CASE t < u
    <3>1. t \in 1..(n - 1) /\ Away(u, t) = t
      BY <2>1 DEF Away
    <3>. QED  BY <3>1
  <2>2. CASE ~(t < u)
    <3>1. t - 1 \in 1..(n - 1) /\ Away(u, t - 1) = t
      BY <1>4, <2>2 DEF Away
    <3>. QED  BY <3>1
  <2>. QED  BY <2>1, <2>2
<1>. QED  BY <1>1, <1>2, <1>3, <1>4

\* The protocol filters, l instead of k, after the u-th of n filters has left.
Fewer(n, u, k, l) == k <= n /\ (n - u < k => l = k - 1) /\ (~(n - u < k) => l = k)
Remain(n, u, k, l) ==
  /\ \A t \in 1..(n - 1) : t <= (n - 1) - l => Away(u, t) <= n - k
  /\ l > 0 => /\ (n - 1) - l + 1 \in 1..(n - 1) /\ k > 0
              /\ Away(u, (n - 1) - l + 1) = n - k + 1 \/
                 (u = n - k + 1 /\ n - u = k - 1 /\ Away(u, (n - 1) - l + 1) = u + 1)
LEMMA AwayProto ==
  ASSUME NEW n \in Nat, NEW u \in 1..n, NEW k \in Nat, NEW l \in Nat, Fewer(n, u, k, l)
  PROVE  Remain(n, u, k, l)
BY DEF Away, Fewer, Remain

\* A filter may be removed if the handle does not need it and the one below it is at work.
LEMMA DropGood ==
  ASSUME NEW x, Good(x), NEW u \in 1..Len(x.r.chain),
         x.r.f = x.r.chain[u] => HasContext(x, x.r.f) /\ CtxOf(x, x.r.f).status \in Finished,
         Len(x.r.chain) - u = x.r.proto - 1 => Ready(x, u + 1)
  PROVE  LET s == ap_remove_input_filter(x.r, x.r.chain[u])
             y == [x EXCEPT !.r = s]
         IN /\ Good(y) /\ y.r = s /\ s \in Chain /\ y.of = x.of /\ y.ctx = x.ctx /\ y.r.f = x.r.f /\ y.r.used = x.r.used
            /\ Len(y.r.chain) = Len(x.r.chain) - 1
            /\ \A t \in 1..Len(y.r.chain) : y.r.chain[t] = x.r.chain[Away(u, t)]
            /\ \A f : Seen(y, f) = Seen(x, f)
<1>. DEFINE s == ap_remove_input_filter(x.r, x.r.chain[u])
            y == [x EXCEPT !.r = s]
<1>1. x \in World /\ Chained(x.r) /\ Owned(x) /\ Handled(x) /\ Kept(x) /\ \A g \in Filters : Sound(x.ctx[g])
  BY DEF Good
<1>2. PICK n \in Nat, k \in Nat :
        /\ n = Len(x.r.chain) /\ k = x.r.proto /\ x.r \in Chain /\ DOMAIN x.r.chain = 1..n
        /\ k <= n /\ u \in 1..n
  <2>1. x.r \in Chain
    BY <1>1, WorldType
  <2>. QED  BY <1>1, <2>1, ChainType DEF Chained
<1>3. /\ s \in Chain /\ Chained(s) /\ s.f = x.r.f /\ s.used = x.r.used /\ Len(s.chain) = n - 1
      /\ \A t \in 1..(n - 1) : s.chain[t] = x.r.chain[Away(u, t)]
      /\ s.proto = IF n - u < k THEN k - 1 ELSE k
  <2>1. LET s1 == ap_remove_input_filter(x.r, x.r.chain[u])
        IN /\ s1 \in Chain /\ Chained(s1) /\ s1.f = x.r.f /\ s1.used = x.r.used
           /\ Len(s1.chain) = Len(x.r.chain) - 1
           /\ \A t \in 1..Len(s1.chain) : s1.chain[t] = x.r.chain[IF t < u THEN t ELSE t + 1]
           /\ s1.proto = IF Len(x.r.chain) - u < x.r.proto THEN x.r.proto - 1 ELSE x.r.proto
    BY <1>1, <1>2, Removed
  <2>. QED  BY <1>2, <2>1 DEF Away
<1>. HIDE DEF s
<1>4. /\ y \in World /\ y.r = s /\ y.of = x.of /\ y.ctx = x.ctx
      /\ \A g : HasContext(y, g) <=> HasContext(x, g)
      /\ \A g : CtxOf(y, g) = CtxOf(x, g) /\ Seen(y, g) = Seen(x, g)
  BY <1>1, <1>3, RewireValue
<1>5. DOMAIN s.chain = 1..(n - 1) /\ s.proto \in Nat
  BY <1>3, ChainType
<1>. HIDE DEF y
<1>6. /\ \A t \in 1..(n - 1) : Away(u, t) \in 1..n /\ Away(u, t) # u
      /\ \A t, t2 \in 1..(n - 1) : Away(u, t) = Away(u, t2) => t = t2
      /\ \A t, t2 \in 1..(n - 1) : t < t2 => Away(u, t) < Away(u, t2)
      /\ \A t \in 1..n : t # u => \E t2 \in 1..(n - 1) : Away(u, t2) = t
  BY <1>2, AwayIs, ZenonT(30)
<1>7. Owned(y)
  <2>1. ASSUME NEW t \in 1..(n - 1), NEW t2 \in 1..(n - 1), HasContext(x, s.chain[t]), HasContext(x, s.chain[t2]),
               x.of[s.chain[t]] = x.of[s.chain[t2]]
        PROVE  t = t2
    <3>1. /\ Away(u, t) \in 1..n /\ Away(u, t2) \in 1..n
          /\ s.chain[t] = x.r.chain[Away(u, t)] /\ s.chain[t2] = x.r.chain[Away(u, t2)]
      BY <1>3, <1>6, Zenon
    <3>2. \A t3, t4 \in 1..n : HasContext(x, x.r.chain[t3]) /\ HasContext(x, x.r.chain[t4])
                             /\ x.of[x.r.chain[t3]] = x.of[x.r.chain[t4]] => t3 = t4
      BY <1>1, <1>2, Zenon DEF Owned
    <3>3. Away(u, t) = Away(u, t2)
      BY <2>1, <3>1, <3>2, Zenon
    <3>. QED  BY <1>6, <3>3
  <2>2. /\ \A f \in Filters : y.of[f] # 0 => f <= y.r.used /\ y.of[y.of[f]] = y.of[f]
        /\ \A f \in Filters : y.of[f] = 0 => y.ctx[f].status = APR_EINIT
    BY <1>1, <1>3, <1>4 DEF Owned
  <2>. QED  BY <1>4, <1>5, <2>1, <2>2 DEF Owned
<1>8. Handled(y)
  <2>1. SUFFICES ASSUME x.r.f # None PROVE Handled(y)
    BY <1>3, <1>4 DEF Handled
  <2>2. /\ x.r.f \in 1 .. x.r.used
        /\ x.r.f \in Range(x.r.chain) \/ (HasContext(x, x.r.f) /\ CtxOf(x, x.r.f).status \in Finished)
        /\ HasContext(x, x.r.f) => CtxOf(x, x.r.f).status # INTERRUPT
        /\ \A t, t2 \in 1..n : x.r.chain[t2] = x.r.f /\ t < t2 => x.r.chain[t] = Other
    BY <1>1, <1>2, <2>1 DEF Handled
  <2>3. x.r.f \in Range(s.chain) \/ (HasContext(x, x.r.f) /\ CtxOf(x, x.r.f).status \in Finished)
    <3>1. SUFFICES ASSUME NEW t \in 1..n, x.r.chain[t] = x.r.f, t # u PROVE x.r.f \in Range(s.chain)
      BY <1>2, <2>2 DEF Range
    <3>2. PICK t2 \in 1..(n - 1) : Away(u, t2) = t
      BY <1>6, <3>1
    <3>3. s.chain[t2] = x.r.f
      BY <1>3, <3>1, <3>2
    <3>. QED  BY <1>5, <3>3 DEF Range
  <2>4. ASSUME NEW t \in 1..(n - 1), NEW t2 \in 1..(n - 1), s.chain[t2] = x.r.f, t < t2 PROVE s.chain[t] = Other
    <3>1. /\ Away(u, t) \in 1..n /\ Away(u, t2) \in 1..n /\ Away(u, t) < Away(u, t2)
          /\ s.chain[t] = x.r.chain[Away(u, t)] /\ s.chain[t2] = x.r.chain[Away(u, t2)]
      BY <1>3, <1>6, <2>4
    <3>. QED  BY <2>2, <2>4, <3>1
  <2>. QED  BY <1>3, <1>4, <1>5, <2>2, <2>3, <2>4 DEF Handled
<1>9. Kept(y)
  <2>0. /\ \A t \in 1..(n - 1) : t <= (n - 1) - s.proto => Away(u, t) <= n - k
        /\ s.proto > 0 => /\ (n - 1) - s.proto + 1 \in 1..(n - 1) /\ k > 0
                          /\ Away(u, (n - 1) - s.proto + 1) = n - k + 1 \/
                               (u = n - k + 1 /\ n - u = k - 1 /\ Away(u, (n - 1) - s.proto + 1) = u + 1)
    <3>1. PICK l \in Nat, w \in 1..n : l = s.proto /\ w = u /\ Fewer(n, w, k, l)
      BY <1>2, <1>3, <1>5 DEF Fewer
    <3>2. Remain(n, w, k, l)
      BY <3>1, AwayProto
    <3>. QED  BY <3>1, <3>2 DEF Remain
  <2>1. ASSUME NEW t \in 1..(n - 1), t <= (n - 1) - s.proto, HasContext(x, s.chain[t])
        PROVE  CtxOf(x, s.chain[t]).spool.data = <<>>
    <3>1. Away(u, t) \in 1..n /\ Away(u, t) <= n - k /\ s.chain[t] = x.r.chain[Away(u, t)]
      BY <1>3, <1>6, <2>0, <2>1
    <3>. QED  BY <1>1, <1>2, <2>1, <3>1 DEF Kept
  <2>2. ASSUME s.proto > 0, FirstProto(s) # Other
        PROVE  HasContext(x, FirstProto(s)) /\ CtxOf(x, FirstProto(s)).status # APR_EINIT
    <3>. DEFINE i == (n - 1) - s.proto + 1
    <3>1. /\ i \in 1..(n - 1) /\ k > 0 /\ FirstProto(s) = x.r.chain[Away(u, i)] /\ Away(u, i) \in 1..n
          /\ Away(u, i) = n - k + 1 \/ (n - u = k - 1 /\ Away(u, i) = u + 1)
      <4>1. /\ i \in 1..(n - 1) /\ k > 0
            /\ Away(u, i) = n - k + 1 \/ (n - u = k - 1 /\ Away(u, i) = u + 1)
        BY <2>0, <2>2
      <4>2. FirstProto(s) = s.chain[i]
        BY <1>3 DEF FirstProto
      <4>. HIDE DEF i
      <4>. QED  BY <1>3, <1>6, <4>1, <4>2
    <3>2. CASE Away(u, i) = n - k + 1
      <4>1. FirstProto(s) = FirstProto(x.r)
        BY <1>2, <3>1, <3>2 DEF FirstProto
      <4>. QED  BY <1>1, <1>2, <2>2, <3>1, <4>1 DEF Kept
    <3>3. CASE n - u = k - 1 /\ Away(u, i) = u + 1
      <4>1. Ready(x, u + 1)
        BY <1>2, <3>3
      <4>. QED  BY <1>2, <2>2, <3>1, <3>3, <4>1 DEF Ready
    <3>. QED  BY <3>1, <3>2, <3>3
  <2>. QED  BY <1>3, <1>4, <1>5, <2>1, <2>2 DEF Kept
<1>10. Good(y)
  BY <1>1, <1>3, <1>4, <1>7, <1>8, <1>9 DEF Good
<1>. QED  BY <1>2, <1>3, <1>4, <1>10 DEF y, s

\* The stream when the u-th filter leaves.
LEMMA FlowDrop ==
  ASSUME Given, NEW x \in World, NEW y \in World, NEW u \in 1..Len(x.r.chain),
         Len(y.r.chain) = Len(x.r.chain) - 1, Quiet(Seen(x, x.r.chain[u])), NEW a, NEW b,
         \A t \in 1..Len(y.r.chain) : Like(Seen(y, y.r.chain[t]), Seen(x, x.r.chain[Away(u, t)]))
  PROVE  /\ Flow(x, a, b) => Flow(y, a, b)
         /\ \A got : Len(got.data) \in Nat /\ Riding(x, a, b, u, got) => Riding(y, a, b, u, got)
<1>0. /\ Sights(x) \in Seq(Sight) /\ Sights(y) \in Seq(Sight) /\ Len(Sights(x)) = Len(x.r.chain)
      /\ Len(Sights(y)) = Len(x.r.chain) - 1 /\ Len(x.r.chain) \in Nat
      /\ \A t \in 1..Len(x.r.chain) : Sights(x)[t] = Seen(x, x.r.chain[t])
      /\ \A t \in 1..(Len(x.r.chain) - 1) : Sights(y)[t] = Seen(y, y.r.chain[t])
  BY SightsType
<1>00. Len(content) \in Nat /\ (~broken) \in BOOLEAN
  BY DEF Given
<1>1. PICK v \in Seq(Sight), w \in Seq(Sight), size \in Nat, whole \in BOOLEAN :
        /\ v = Sights(x) /\ w = Sights(y) /\ size = Len(content) /\ whole = ~broken
  BY <1>0, <1>00
<1>2. \A t \in 1..(Len(x.r.chain) - 1) : Away(u, t) \in 1..Len(x.r.chain)
  BY <1>0, AwayIs
<1>3. PICK k \in 1..Len(v) : k = u
  BY <1>0, <1>1
<1>4. Drops(v, w, k)
  BY <1>0, <1>1, <1>2, <1>3 DEF Drops
<1>6. ASSUME NEW h \in Nat, NEW m \in Nat, h <= u, NEW p, Stream(v, p, size), Cuts(v, p, a, b, h, m, size, whole)
      PROVE  \E q : Stream(w, q, size) /\ Cuts(w, q, a, b, h, m, size, whole) /\ q[u] = p[u]
  <2>1. h <= k
    BY <1>3, <1>6
  <2>2. \E q : Stream(w, q, size) /\ Cuts(w, q, a, b, h, m, size, whole) /\ q[k] = p[k]
    BY <1>4, <1>6, <2>1, CutsDrop
  <2>. QED  BY <1>3, <2>2
<1>5. u \in Nat /\ 0 <= u
  BY <1>0
<1>7. ASSUME Flow(x, a, b) PROVE Flow(y, a, b)
  <2>1. PICK p : Stream(v, p, size) /\ Cuts(v, p, a, b, 0, 0, size, whole)
    BY <1>1, <1>7 DEF Flow
  <2>2. \E q : Stream(w, q, size) /\ Cuts(w, q, a, b, 0, 0, size, whole)
    BY <1>5, <1>6, <2>1
  <2>. QED  BY <1>1, <2>2 DEF Flow
<1>8. ASSUME NEW got, Len(got.data) \in Nat, Riding(x, a, b, u, got) PROVE Riding(y, a, b, u, got)
  <2>1. PICK p : Stream(v, p, size) /\ Cuts(v, p, a, b, u, Len(got.data), size, whole) /\ Rides(p, u, got)
    BY <1>1, <1>8 DEF Riding
  <2>2. PICK q : Stream(w, q, size) /\ Cuts(w, q, a, b, u, Len(got.data), size, whole) /\ q[u] = p[u]
    BY <1>5, <1>6, <1>8, <2>1
  <2>3. Rides(q, u, got)
    BY <2>1, <2>2 DEF Rides
  <2>. QED  BY <1>1, <2>2, <2>3 DEF Riding
<1>. QED  BY <1>7, <1>8

-----------------------------------------------------------------------------
(* What a step does to a context: Mild before blocks come, Fed when they   *)
(* come, and the two after each other.                                     *)
Shows(c) == IF c.status = INTERRUPT THEN APR_INCOMPLETE ELSE c.status
Refusals == {NODATA, BADHEADER, OVERLIMIT, NOPARSER, NOHEADER}
Grows(s, t) == Len(s) <= Len(t) /\ s = SubSeq(t, 1, Len(s))
Lazy(c, d) ==
  \/ Shows(d) = Shows(c) /\ d.body = c.body
  \/ Shows(c) = APR_EINIT /\ Shows(d) \in {APR_INCOMPLETE} \cup Refusals /\ d.body = c.body
  \/ /\ Shows(c) \in {APR_EINIT, APR_INCOMPLETE}
     /\ Shows(d) \in {APR_INCOMPLETE, APR_SUCCESS, GENERAL, OVERLIMIT} /\ Grows(c.body, d.body)
Mild(c, d) == Lazy(c, d) /\ d.shown = c.shown
Fed(c, d) ==
  Lazy(c, d) /\ d.read_limit = c.read_limit /\ (d.shown # c.shown => Len(d.shown) <= d.read_limit)
Moved(c, d) == Lazy(c, d) /\ (d.shown # c.shown => Len(d.shown) <= d.read_limit)

\* A table that grows twice has grown.
LEMMA GrowsTrans ==
  ASSUME NEW s \in Seq(Param), NEW t \in Seq(Param), NEW u \in Seq(Param), Grows(s, t), Grows(t, u)
  PROVE  Grows(s, u)
<1>1. /\ Len(s) \in Nat /\ Len(t) \in Nat /\ Len(u) \in Nat /\ Len(s) <= Len(t) /\ Len(t) <= Len(u)
      /\ s = SubSeq(t, 1, Len(s)) /\ t = SubSeq(u, 1, Len(t))
  BY DEF Grows
<1>2. /\ SubSeq(u, 1, Len(s)) \in Seq(Param) /\ Len(SubSeq(u, 1, Len(s))) = Len(s)
      /\ \A i \in 1..Len(s) : SubSeq(u, 1, Len(s))[i] = u[i]
  BY <1>1
<1>3. \A i \in 1..Len(s) : s[i] = t[i]
  BY <1>1
<1>4. \A i \in 1..Len(t) : t[i] = u[i]
  BY <1>1
<1>5. \A i \in 1..Len(s) : i \in 1..Len(t)
  BY <1>1
<1>6. s = SubSeq(u, 1, Len(s))
  BY <1>1, <1>2, <1>3, <1>4, <1>5, SeqEqual
<1>. QED  BY <1>1, <1>6 DEF Grows

\* Adding parameters, or none, makes a table grow.
LEMMA GrowsSame ==
  ASSUME NEW s \in Seq(Param), NEW t \in Seq(Param)
  PROVE  Grows(s, s) /\ Grows(s, s \o t)
<1>1. /\ s \o t \in Seq(Param) /\ Len(s \o t) = Len(s) + Len(t) /\ Len(s) \in Nat /\ Len(t) \in Nat
      /\ \A i \in 1..Len(s) : (s \o t)[i] = s[i]
  OBVIOUS
<1>2. PICK u \in Seq(Param) : u = s \o t
  BY <1>1
<1>3. /\ SubSeq(u, 1, Len(s)) \in Seq(Param) /\ Len(SubSeq(u, 1, Len(s))) = Len(s)
      /\ \A i \in 1..Len(s) : SubSeq(u, 1, Len(s))[i] = u[i]
  BY <1>1, <1>2
<1>4. s = SubSeq(u, 1, Len(s))
  BY <1>1, <1>2, <1>3, SeqEqual
<1>5. s = SubSeq(s, 1, Len(s))
  OBVIOUS
<1>. QED  BY <1>1, <1>2, <1>4, <1>5 DEF Grows

\* Two steps that LazyBody allows are one that it allows.
LEMMA LazyTrans ==
  ASSUME NEW c, NEW d, NEW e, c.body \in Seq(Param), d.body \in Seq(Param), e.body \in Seq(Param),
         Lazy(c, d), Lazy(d, e)
  PROVE  Lazy(c, e)
<1>1. /\ Grows(c.body, c.body) /\ Grows(d.body, d.body)
      /\ Grows(c.body, d.body) /\ Grows(d.body, e.body) => Grows(c.body, e.body)
  BY GrowsTrans, GrowsSame
<1>2. PICK u, v, w : u = Shows(c) /\ v = Shows(d) /\ w = Shows(e)
  OBVIOUS
<1>. QED  BY <1>1, <1>2 DEF Lazy, Refusals, APR_EINIT, APR_INCOMPLETE, APR_SUCCESS, GENERAL, OVERLIMIT,
           NODATA, BADHEADER, NOPARSER, NOHEADER

\* Starting and then feeding a context, however often, moves it as a step may.
LEMMA MovesTrans ==
  ASSUME Given, NEW c \in Context, NEW d \in Context, NEW e \in Context
  PROVE  /\ Mild(c, c) /\ Fed(c, c)
         /\ Mild(c, d) /\ Mild(d, e) => Mild(c, e)
         /\ Fed(c, d) /\ Fed(d, e) => Fed(c, e)
         /\ Mild(c, d) /\ Fed(d, e) => Moved(c, e)
         /\ Mild(c, d) => Moved(c, d)
<1>1. c.body \in Seq(Param) /\ d.body \in Seq(Param) /\ e.body \in Seq(Param)
  BY ContextType
<1>2. Lazy(c, d) /\ Lazy(d, e) => Lazy(c, e)
  BY <1>1, LazyTrans
<1>3. Lazy(c, c)
  BY DEF Lazy
<1>. QED  BY <1>2, <1>3 DEF Mild, Fed, Moved

-----------------------------------------------------------------------------
(* Contexts are made and started.                                          *)

\* y has what x has, and contexts that were made or started since.
Extends(x, y) ==
  /\ y.r = x.r
  /\ \A g \in Filters : x.of[g] # 0 => y.of[g] = x.of[g]
  /\ \A g \in Filters : Mild(x.ctx[g], y.ctx[g]) /\ (x.ctx[g].status # APR_EINIT => y.ctx[g] = x.ctx[g])
  /\ \A g : Like(Seen(y, g), Seen(x, g))

\* Preparing filters one after the other keeps what was prepared, and the stream.
LEMMA ExtendsTrans ==
  ASSUME Given, NEW x \in World, NEW y \in World, NEW z \in World
  PROVE  /\ Extends(x, x)
         /\ Extends(x, y) /\ Extends(y, z) => Extends(x, z)
         /\ \A a, b : Extends(x, y) /\ Flow(x, a, b) => Flow(y, a, b)
<1>1. \A g \in Filters : x.ctx[g] \in Context /\ y.ctx[g] \in Context /\ z.ctx[g] \in Context
  BY WorldType
<1>2. \A g \in Filters : /\ Mild(x.ctx[g], x.ctx[g])
                         /\ Mild(x.ctx[g], y.ctx[g]) /\ Mild(y.ctx[g], z.ctx[g]) => Mild(x.ctx[g], z.ctx[g])
  BY <1>1, MovesTrans
<1>3. Extends(x, x)
  BY <1>2 DEF Extends, Like
<1>4. ASSUME Extends(x, y), Extends(y, z) PROVE Extends(x, z)
  <2>1. \A g \in Filters : x.of[g] # 0 => z.of[g] = x.of[g]
    BY <1>4 DEF Extends
  <2>2. \A g \in Filters : Mild(x.ctx[g], z.ctx[g]) /\ (x.ctx[g].status # APR_EINIT => z.ctx[g] = x.ctx[g])
    BY <1>2, <1>4 DEF Extends
  <2>3. ASSUME NEW g PROVE Like(Seen(z, g), Seen(x, g))
    <3>1. Like(Seen(y, g), Seen(x, g)) /\ Like(Seen(z, g), Seen(y, g))
      BY <1>4 DEF Extends
    <3>. QED  BY <3>1 DEF Like
  <2>. QED  BY <1>4, <2>1, <2>2, <2>3 DEF Extends
<1>5. ASSUME NEW a, NEW b, Extends(x, y), Flow(x, a, b) PROVE Flow(y, a, b)
  <2>1. y.r.chain = x.r.chain /\ \A t \in 1..Len(x.r.chain) : Like(Seen(y, x.r.chain[t]), Seen(x, x.r.chain[t]))
    BY <1>5 DEF Extends
  <2>. QED  BY <1>5, <2>1, FlowLike
<1>. QED  BY <1>3, <1>4, <1>5

\* A new context is sound and empty.
LEMMA NewType ==
  ASSUME Given
  PROVE  LET d == NewContext(request.limit)
         IN /\ d \in Context /\ Sound(d) /\ d.status = APR_EINIT /\ d.spool.data = <<>> /\ ~d.spool.eos
            /\ ~d.filter_error /\ d.shown = <<>> /\ d.body = <<>>
<1>. DEFINE d == NewContext(request.limit)
<1>1. request.limit \in Nat
  BY DEF Given, Request
<1>2. /\ d.status = APR_EINIT /\ d.spool = NoBrigade /\ d.parser = None /\ d.hook_queue = <<>> /\ d.body = <<>>
      /\ d.filter_error = FALSE /\ d.bytes_read = 0 /\ d.read_limit = request.limit /\ d.shown = <<>>
  BY DEF NewContext
<1>3. NoBrigade \in Brigades /\ NoBrigade.data = <<>> /\ NoBrigade.eos = FALSE
  BY DEF NoBrigade, Brigades
<1>4. d \in Context
  BY <1>1, <1>3 DEF Context, NewContext, Statuses
<1>5. Sound(d)
  BY <1>2 DEF Sound, Consecutive, APR_EINIT, APR_INCOMPLETE, INTERRUPT, APR_SUCCESS
<1>. QED  BY <1>2, <1>3, <1>4, <1>5

\* Nobody has the context of a filter that has none.
LEMMA Unowned ==
  ASSUME NEW x, Good(x), NEW f \in Filters, x.of[f] = 0
  PROVE  /\ \A g : HasContext(x, g) => g # f /\ x.of[g] # f
         /\ x.ctx[f].status = APR_EINIT /\ x.ctx[f].body = <<>> /\ x.ctx[f].shown = <<>>
<1>1. x \in World /\ Owned(x) /\ Sound(x.ctx[f])
  BY DEF Good
<1>2. ASSUME NEW g, HasContext(x, g) PROVE g # f /\ x.of[g] # f
  <2>1. g \in Filters /\ x.of[g] # 0
    BY <1>2 DEF HasContext
  <2>2. x.of[x.of[g]] = x.of[g]
    BY <1>1, <2>1 DEF Owned
  <2>. QED  BY <2>1, <2>2
<1>3. x.ctx[f].status = APR_EINIT
  BY <1>1 DEF Owned
<1>. QED  BY <1>1, <1>2, <1>3 DEF Sound

\* A filter of the chain may get a new context.
LEMMA NewGood ==
  ASSUME Given, NEW x, Good(x), NEW f \in Filters, x.of[f] = 0, f <= x.r.used, f \in Range(x.r.chain)
  PROVE  LET y == [x EXCEPT !.of[f] = f, !.ctx[f] = NewContext(request.limit)]
         IN /\ Good(y) /\ Extends(x, y) /\ HasContext(y, f) /\ y.of[f] = f
            /\ \A g \in Filters : g # f => y.of[g] = x.of[g]
<1>. DEFINE d == NewContext(request.limit)
            y == [x EXCEPT !.of[f] = f, !.ctx[f] = d]
<1>1. x \in World /\ Chained(x.r) /\ Owned(x) /\ Handled(x) /\ Kept(x) /\ \A g \in Filters : Sound(x.ctx[g])
  BY DEF Good
<1>2. x.r \in Chain /\ x.of \in [Filters -> {0} \cup Filters] /\ x.ctx \in [Filters -> Context]
  BY <1>1, WorldType
<1>3. /\ d \in Context /\ Sound(d) /\ d.status = APR_EINIT /\ d.spool.data = <<>> /\ ~d.spool.eos
      /\ ~d.filter_error /\ d.shown = <<>> /\ d.body = <<>>
  BY NewType
<1>. HIDE DEF d
<1>4. y.r = x.r /\ y.of = [x.of EXCEPT ![f] = f] /\ y.ctx = [x.ctx EXCEPT ![f] = d]
  BY <1>1 DEF World
<1>5. /\ y.of \in [Filters -> {0} \cup Filters] /\ y.ctx \in [Filters -> Context] /\ y.of[f] = f /\ y.ctx[f] = d
      /\ \A g \in Filters : g # f => y.of[g] = x.of[g] /\ y.ctx[g] = x.ctx[g]
  BY <1>2, <1>3, <1>4
<1>6. y \in World
  BY <1>1, <1>2, <1>4, <1>5 DEF World
<1>. HIDE DEF y
<1>7. f # 0 /\ f \in Nat
  BY Sizes DEF Filters
<1>8. /\ \A g : HasContext(x, g) => g # f /\ x.of[g] # f
      /\ x.ctx[f].status = APR_EINIT /\ x.ctx[f].body = <<>> /\ x.ctx[f].shown = <<>>
  BY Unowned
<1>9. HasContext(y, f) /\ CtxOf(y, f) = d /\ ~HasContext(x, f)
  BY <1>5, <1>7 DEF HasContext, CtxOf
<1>10. \A g : g # f => (HasContext(y, g) <=> HasContext(x, g))
  BY <1>5 DEF HasContext
<1>11. ASSUME NEW g, HasContext(x, g) PROVE g # f /\ HasContext(y, g) /\ y.of[g] = x.of[g] /\ CtxOf(y, g) = CtxOf(x, g)
  <2>1. g \in Filters /\ x.of[g] \in Filters /\ x.of[g] # f /\ g # f
    BY <1>1, <1>8, <1>11, WorldType
  <2>. QED  BY <1>5, <1>10, <1>11, <2>1 DEF CtxOf
<1>12. \A g : Seen(y, g) = IF g = f THEN SeenOf(d) ELSE Seen(x, g)
  BY <1>9, <1>10, <1>11, SeenIs
<1>13. Owned(y)
  <2>1. ASSUME NEW g \in Filters, y.of[g] # 0 PROVE g <= y.r.used /\ y.of[y.of[g]] = y.of[g]
    <3>1. CASE g = f
      BY <1>4, <1>5, <3>1
    <3>2. CASE g # f
      <4>1. x.of[g] # 0 /\ HasContext(x, g)
        BY <1>5, <2>1, <3>2 DEF HasContext
      <4>2. x.of[g] \in Filters /\ x.of[g] # f
        BY <1>1, <1>8, <4>1, WorldType
      <4>. QED  BY <1>1, <1>4, <1>5, <3>2, <4>1, <4>2 DEF Owned
    <3>. QED  BY <3>1, <3>2
  <2>2. \A g \in Filters : y.of[g] = 0 => y.ctx[g].status = APR_EINIT
    BY <1>1, <1>3, <1>5 DEF Owned
  <2>3. ASSUME NEW t \in DOMAIN y.r.chain, NEW u \in DOMAIN y.r.chain,
               HasContext(y, y.r.chain[t]), HasContext(y, y.r.chain[u]),
               y.of[y.r.chain[t]] = y.of[y.r.chain[u]]
        PROVE  t = u
    <3>1. CASE y.r.chain[t] = f \/ y.r.chain[u] = f
      <4>1. y.r.chain[t] = y.r.chain[u]
        BY <1>5, <1>8, <1>10, <1>11, <2>3, <3>1
      <4>. QED  BY <1>1, <1>4, <4>1 DEF Chained
    <3>2. CASE y.r.chain[t] # f /\ y.r.chain[u] # f
      <4>1. HasContext(x, y.r.chain[t]) /\ HasContext(x, y.r.chain[u])
        BY <1>10, <2>3, <3>2
      <4>2. x.of[y.r.chain[t]] = x.of[y.r.chain[u]]
        BY <1>11, <2>3, <4>1
      <4>. QED  BY <1>1, <1>4, <4>1, <4>2 DEF Owned
    <3>. QED  BY <3>1, <3>2
  <2>. QED  BY <2>1, <2>2, <2>3 DEF Owned
<1>14. Handled(y)
  BY <1>1, <1>3, <1>4, <1>9, <1>10, <1>11 DEF Handled, APR_EINIT, INTERRUPT
<1>15. Kept(y)
  <2>1. ASSUME NEW t \in DOMAIN y.r.chain, t <= Len(y.r.chain) - y.r.proto, HasContext(y, y.r.chain[t])
        PROVE  CtxOf(y, y.r.chain[t]).spool.data = <<>>
    <3>1. CASE y.r.chain[t] = f
      BY <1>3, <1>9, <3>1
    <3>2. CASE y.r.chain[t] # f
      BY <1>1, <1>4, <1>10, <1>11, <2>1, <3>2 DEF Kept
    <3>. QED  BY <3>1, <3>2
  <2>2. y.r.proto > 0 /\ FirstProto(y.r) # Other =>
          HasContext(y, FirstProto(y.r)) /\ CtxOf(y, FirstProto(y.r)).status # APR_EINIT
    BY <1>1, <1>4, <1>11 DEF Kept
  <2>. QED  BY <2>1, <2>2 DEF Kept
<1>16. Good(y)
  BY <1>1, <1>3, <1>4, <1>5, <1>6, <1>13, <1>14, <1>15 DEF Good
<1>17. Extends(x, y)
  <2>1. ASSUME NEW g \in Filters
        PROVE  Mild(x.ctx[g], y.ctx[g]) /\ (x.ctx[g].status # APR_EINIT => y.ctx[g] = x.ctx[g])
    <3>1. CASE g = f
      BY <1>3, <1>5, <1>8, <3>1 DEF Mild, Lazy, Shows
    <3>2. CASE g # f
      BY <1>5, <3>2 DEF Mild, Lazy
    <3>. QED  BY <3>1, <3>2
  <2>2. ASSUME NEW g PROVE Like(Seen(y, g), Seen(x, g))
    <3>1. CASE g = f
      <4>1. Seen(y, f) = SeenOf(d) /\ Seen(x, f) = Nothing
        BY <1>9, <1>12, SeenIs
      <4>2. /\ SeenOf(d).data = <<>> /\ SeenOf(d).eos = FALSE /\ SeenOf(d).err = FALSE
            /\ ~SeenOf(d).parsing
        BY <1>3, NewType DEF SeenOf, APR_EINIT, APR_INCOMPLETE, INTERRUPT, d, NewContext, NoBrigade
      <4>3. Nothing.data = <<>> /\ Nothing.eos = FALSE /\ Nothing.err = FALSE
        BY DEF Nothing
      <4>4. Like(SeenOf(d), Nothing)
        BY <4>2, <4>3 DEF Like
      <4>. QED  BY <3>1, <4>1, <4>4
    <3>2. CASE g # f
      BY <1>12, <3>2 DEF Like
    <3>. QED  BY <3>1, <3>2
  <2>. QED  BY <1>4, <1>5, <2>1, <2>2 DEF Extends
<1>. QED  BY <1>5, <1>9, <1>16, <1>17 DEF y, d

\* A context changes hands and is at work again or stays complete.
LEMMA StolenIs ==
  ASSUME Given, NEW c \in Context, Sound(c), c.status \in Stealable
  PROVE  LET d == Stolen(c)
         IN /\ d \in Context /\ Sound(d) /\ Settled(c, d) /\ Mild(c, d)
            /\ d.status \in {APR_INCOMPLETE, APR_SUCCESS} /\ Like(SeenOf(d), SeenOf(c))
            /\ d.spool = c.spool
<1>. DEFINE st == IF c.status = INTERRUPT THEN APR_INCOMPLETE ELSE c.status
            d == [c EXCEPT !.status = st, !.read_limit = request.limit]
<1>1. request.limit \in Nat
  BY DEF Given, Request
<1>2. Stolen(c) = d
  BY DEF Stolen
<1>3. st \in {APR_INCOMPLETE, APR_SUCCESS} /\ st \in Statuses
  BY DEF Stealable, Statuses
<1>4. c.status = INTERRUPT => st = APR_INCOMPLETE
  OBVIOUS
<1>5. c.status = APR_SUCCESS => st = APR_SUCCESS
  BY DEF INTERRUPT, APR_SUCCESS
<1>. HIDE DEF st
<1>6. d \in Context
  BY <1>1, <1>3 DEF Context
<1>7. /\ d.status = st /\ d.spool = c.spool /\ d.parser = c.parser /\ d.body = c.body /\ d.shown = c.shown
      /\ d.filter_error = c.filter_error /\ d.bytes_read = c.bytes_read
  BY DEF Context
<1>. HIDE DEF d
<1>8. c.status = INTERRUPT \/ c.status = APR_SUCCESS
  BY DEF Stealable
<1>9. Sound(d)
  BY <1>3, <1>4, <1>5, <1>7, <1>8 DEF Sound, APR_EINIT, APR_INCOMPLETE, APR_SUCCESS, INTERRUPT, GENERAL
<1>10. Settled(c, d)
  BY <1>3, <1>4, <1>5, <1>7, <1>8 DEF Settled, Finished, APR_EINIT, APR_INCOMPLETE, APR_SUCCESS, INTERRUPT,
     GENERAL, OVERLIMIT, NODATA, NOPARSER, NOHEADER, BADHEADER
<1>11. Mild(c, d)
  BY <1>3, <1>4, <1>5, <1>7, <1>8 DEF Mild, Lazy, Shows, APR_INCOMPLETE, APR_SUCCESS, INTERRUPT
<1>12. SeenOf(d) = SeenOf(c)
  <2>1. d.status \in {APR_INCOMPLETE, INTERRUPT} <=> c.status \in {APR_INCOMPLETE, INTERRUPT}
    BY <1>3, <1>4, <1>5, <1>7, <1>8 DEF APR_INCOMPLETE, APR_SUCCESS, INTERRUPT
  <2>. QED  BY <1>7, <2>1 DEF SeenOf
<1>. QED  BY <1>2, <1>3, <1>6, <1>7, <1>9, <1>10, <1>11, <1>12 DEF Like

\* AwayIs for the second filter, the one whose context is taken over.
LEMMA AwayTwo ==
  ASSUME NEW n \in Nat, n >= 2
  PROVE  /\ \A t \in 1..(n - 1) : Away(2, t) \in 1..n /\ Away(2, t) # 2
         /\ \A t, u \in 1..(n - 1) : Away(2, t) = Away(2, u) => t = u
         /\ \A t, u \in 1..(n - 1) : t < u => Away(2, t) < Away(2, u)
         /\ \A t \in 1..n : t # 2 => \E u \in 1..(n - 1) : Away(2, u) = t
<1>1. 2 \in 1..n
  OBVIOUS
<1>. QED  BY <1>1, AwayIs

\* A filter on top may take over the context of the one below it (filter.c:485-505).
LEMMA StealGood ==
  ASSUME Given, NEW x, Good(x), NEW f \in Filters, x.of[f] = 0, f <= x.r.used, CanSteal(x, f)
  PROVE  LET y == apreq_filter_make_context(x, f)
         IN /\ Good(y) /\ HasContext(y, f) /\ y.r.f = x.r.f /\ y.r.used = x.r.used
            /\ Len(y.r.chain) \in Nat \ {0} /\ y.r.chain[1] = f
            /\ CtxOf(y, f).status # APR_EINIT /\ \A g \in Filters : Mild(x.ctx[g], y.ctx[g])
            /\ \A a, b : Flow(x, a, b) => Flow(y, a, b)
<1>. DEFINE below == x.r.chain[2]
            o == x.of[below]
            q == ap_remove_input_filter(x.r, below)
            s == [q EXCEPT !.proto = Len(q.chain)]
            d == Stolen(x.ctx[o])
            y == [r |-> s, of |-> [x.of EXCEPT ![f] = o], ctx |-> [x.ctx EXCEPT ![o] = d]]
<1>1. apreq_filter_make_context(x, f) = y
  BY DEF apreq_filter_make_context
<1>2. x \in World /\ Chained(x.r) /\ Owned(x) /\ Handled(x) /\ Kept(x) /\ \A g \in Filters : Sound(x.ctx[g])
  BY DEF Good
<1>3. x.r \in Chain /\ x.of \in [Filters -> {0} \cup Filters] /\ x.ctx \in [Filters -> Context]
  BY <1>2, WorldType
<1>4. PICK n \in Nat : /\ n = Len(x.r.chain) /\ n >= 2 /\ x.r.proto = n - 1 /\ DOMAIN x.r.chain = 1..n
                       /\ 1 \in 1..n /\ 2 \in 1..n /\ x.r.chain[1] = f /\ below # Other
                       /\ CtxOf(x, below).status \in Stealable
  BY <1>3, ChainType DEF CanSteal
<1>5. HasContext(x, below) /\ o \in Filters /\ o # 0 /\ o # f /\ x.of[o] = o /\ CtxOf(x, below) = x.ctx[o]
  <2>1. x.r.proto > 0 /\ Len(x.r.chain) - x.r.proto + 1 = 2
    BY <1>4
  <2>2. FirstProto(x.r) = below
    BY <2>1 DEF FirstProto
  <2>3. HasContext(x, below)
    BY <1>2, <1>4, <2>1, <2>2 DEF Kept
  <2>4. o \in Filters /\ o # f
    BY <1>2, <2>3, WorldType, Unowned
  <2>5. below \in Filters /\ o # 0
    BY <2>3, Zenon DEF HasContext
  <2>. QED  BY <1>2, <2>3, <2>4, <2>5 DEF Owned, CtxOf
<1>6. /\ d \in Context /\ Sound(d) /\ Settled(x.ctx[o], d) /\ Mild(x.ctx[o], d)
      /\ d.status \in {APR_INCOMPLETE, APR_SUCCESS} /\ Like(SeenOf(d), SeenOf(x.ctx[o]))
  BY <1>2, <1>3, <1>4, <1>5, StolenIs
<1>7. /\ q \in Chain /\ Chained(q) /\ q.f = x.r.f /\ q.used = x.r.used /\ Len(q.chain) = n - 1
      /\ \A t \in 1..(n - 1) : q.chain[t] = x.r.chain[Away(2, t)]
  <2>1. LET s1 == ap_remove_input_filter(x.r, x.r.chain[2])
        IN /\ s1 \in Chain /\ Chained(s1) /\ s1.f = x.r.f /\ s1.used = x.r.used
           /\ Len(s1.chain) = Len(x.r.chain) - 1
           /\ \A t \in 1..Len(s1.chain) : s1.chain[t] = x.r.chain[IF t < 2 THEN t ELSE t + 1]
    BY <1>2, <1>3, <1>4, Removed
  <2>. QED  BY <1>4, <2>1 DEF Away
<1>. HIDE DEF q, d
<1>8. s \in Chain /\ s.chain = q.chain /\ s.f = x.r.f /\ s.used = x.r.used /\ s.proto = n - 1 /\ Len(s.chain) = n - 1
  <2>1. n - 1 \in Nat
    BY <1>4
  <2>. QED  BY <1>7, <2>1 DEF Chain
<1>9. Chained(s)
  <2>1. n - 1 \in Int
    OBVIOUS
  <2>. QED  BY <1>7, <1>8, <2>1 DEF Chained
<1>. HIDE DEF s
<1>10. y.r = s /\ y.of = [x.of EXCEPT ![f] = o] /\ y.ctx = [x.ctx EXCEPT ![o] = d]
  OBVIOUS
<1>11. /\ y.of \in [Filters -> {0} \cup Filters] /\ y.of[f] = o /\ y.ctx \in [Filters -> Context] /\ y.ctx[o] = d
       /\ \A g \in Filters : g # f => y.of[g] = x.of[g]
       /\ \A g \in Filters : g # o => y.ctx[g] = x.ctx[g]
  BY <1>3, <1>5, <1>6, <1>10, Zenon
<1>12. y \in World
  BY <1>3, <1>8, <1>10, <1>11 DEF World
<1>. HIDE DEF y
<1>13. \A g : HasContext(x, g) => g # f /\ x.of[g] # f
  BY Unowned
<1>14. HasContext(y, f) /\ CtxOf(y, f) = d /\ ~HasContext(x, f)
  BY <1>5, <1>11 DEF HasContext, CtxOf
<1>15. \A g : g # f => (HasContext(y, g) <=> HasContext(x, g))
  BY <1>11 DEF HasContext
<1>16. ASSUME NEW g, HasContext(x, g)
       PROVE  g # f /\ HasContext(y, g) /\ y.of[g] = x.of[g] /\ CtxOf(y, g) = IF x.of[g] = o THEN d ELSE CtxOf(x, g)
  <2>1. g \in Filters /\ x.of[g] \in Filters /\ x.of[g] # f /\ g # f
    BY <1>2, <1>13, <1>16, WorldType
  <2>. QED  BY <1>11, <1>15, <1>16, <2>1 DEF CtxOf
<1>17. /\ \A t \in 1..(n - 1) : Away(2, t) \in 1..n /\ Away(2, t) # 2
       /\ \A t, u \in 1..(n - 1) : Away(2, t) = Away(2, u) => t = u
       /\ \A t, u \in 1..(n - 1) : t < u => Away(2, t) < Away(2, u)
       /\ \A t \in 1..n : t # 2 => \E u \in 1..(n - 1) : Away(2, u) = t
  BY <1>4, AwayTwo
<1>18. /\ DOMAIN s.chain = 1..(n - 1) /\ 1 \in 1..(n - 1) /\ s.chain[1] = f
       /\ \A t \in 1..(n - 1) : s.chain[t] = x.r.chain[Away(2, t)] /\ (s.chain[t] = f => t = 1)
  <2>1. DOMAIN s.chain = 1..(n - 1) /\ 1 \in 1..(n - 1) /\ Away(2, 1) = 1
    BY <1>4, <1>8, ChainType DEF Away
  <2>2. s.chain[1] = f
    BY <1>4, <1>7, <1>8, <2>1
  <2>3. \A t \in 1..(n - 1) : s.chain[t] = f => t = 1
    BY <1>9, <2>1, <2>2 DEF Chained
  <2>. QED  BY <1>7, <1>8, <2>1, <2>2, <2>3
<1>27. \A t, u \in 1..n : HasContext(x, x.r.chain[t]) /\ HasContext(x, x.r.chain[u])
                          /\ x.of[x.r.chain[t]] = x.of[x.r.chain[u]] => t = u
  BY <1>2, <1>4, Zenon DEF Owned
\* Only the filter that is gone had the context.
<1>19. ASSUME NEW t \in 1..(n - 1), HasContext(x, s.chain[t]) PROVE x.of[s.chain[t]] # o
  <2>1. Away(2, t) \in 1..n /\ Away(2, t) # 2 /\ s.chain[t] = x.r.chain[Away(2, t)]
    BY <1>17, <1>18
  <2>. QED  BY <1>4, <1>5, <1>19, <1>27, <2>1
<1>20. Owned(y)
  <2>1. ASSUME NEW g \in Filters, y.of[g] # 0 PROVE g <= y.r.used /\ y.of[y.of[g]] = y.of[g]
    <3>1. CASE g = f
      BY <1>5, <1>8, <1>10, <1>11, <3>1
    <3>2. CASE g # f
      <4>1. x.of[g] # 0 /\ HasContext(x, g)
        BY <1>11, <2>1, <3>2 DEF HasContext
      <4>2. x.of[g] \in Filters /\ x.of[g] # f
        BY <1>2, <1>13, <4>1, WorldType
      <4>. QED  BY <1>2, <1>8, <1>10, <1>11, <3>2, <4>1, <4>2 DEF Owned
    <3>. QED  BY <3>1, <3>2
  <2>2. ASSUME NEW g \in Filters, y.of[g] = 0 PROVE y.ctx[g].status = APR_EINIT
    <3>1. g # f /\ x.of[g] = 0 /\ g # o
      BY <1>5, <1>11, <2>2
    <3>. QED  BY <1>2, <1>11, <3>1, Zenon DEF Owned
  <2>3. ASSUME NEW t \in 1..(n - 1), NEW u \in 1..(n - 1), HasContext(y, s.chain[t]), HasContext(y, s.chain[u]),
               y.of[s.chain[t]] = y.of[s.chain[u]]
        PROVE  t = u
    <3>1. CASE s.chain[t] = f \/ s.chain[u] = f
      <4>1. s.chain[t] = f /\ s.chain[u] = f
        BY <1>11, <1>15, <1>16, <1>19, <2>3, <3>1
      <4>. QED  BY <1>18, <4>1
    <3>2. CASE s.chain[t] # f /\ s.chain[u] # f
      <4>1. HasContext(x, s.chain[t]) /\ HasContext(x, s.chain[u]) /\ x.of[s.chain[t]] = x.of[s.chain[u]]
        BY <1>15, <1>16, <2>3, <3>2
      <4>2. Away(2, t) \in 1..n /\ Away(2, u) \in 1..n
        BY <1>17
      <4>3. Away(2, t) = Away(2, u)
        <5>1. s.chain[t] = x.r.chain[Away(2, t)] /\ s.chain[u] = x.r.chain[Away(2, u)]
          BY <1>18
        <5>. QED  BY <1>27, <4>1, <4>2, <5>1
      <4>. QED  BY <1>17, <4>3
    <3>. QED  BY <3>1, <3>2
  <2>. QED  BY <1>10, <1>18, <2>1, <2>2, <2>3, Zenon DEF Owned
<1>21. Handled(y)
  <2>1. SUFFICES ASSUME x.r.f # None PROVE Handled(y)
    BY <1>8, <1>10 DEF Handled
  <2>2. /\ x.r.f \in 1 .. x.r.used
        /\ x.r.f \in Range(x.r.chain) \/ (HasContext(x, x.r.f) /\ CtxOf(x, x.r.f).status \in Finished)
        /\ HasContext(x, x.r.f) => CtxOf(x, x.r.f).status # INTERRUPT
        /\ \A t, u \in 1..n : x.r.chain[u] = x.r.f /\ t < u => x.r.chain[t] = Other
    BY <1>2, <1>4, <2>1 DEF Handled
  <2>3. x.r.f # below
    <3>1. f # Other
      BY Sizes, Nulls DEF Filters
    <3>2. 1 < 2
      OBVIOUS
    <3>. QED  BY <1>4, <2>2, <3>1, <3>2
  <2>4. x.r.f \in Range(x.r.chain) => x.r.f \in Range(s.chain)
    <3>1. SUFFICES ASSUME NEW t \in 1..n, x.r.chain[t] = x.r.f PROVE x.r.f \in Range(s.chain)
      BY <1>4 DEF Range
    <3>2. t # 2
      BY <2>3, <3>1
    <3>3. PICK u \in 1..(n - 1) : Away(2, u) = t
      BY <1>17, <3>2
    <3>4. s.chain[u] = x.r.f
      BY <1>18, <3>1, <3>3
    <3>. QED  BY <1>18, <3>4 DEF Range
  <2>5. HasContext(x, x.r.f) => HasContext(y, x.r.f) /\ (CtxOf(x, x.r.f).status \in Finished => CtxOf(y, x.r.f).status \in Finished)
    <3>1. HasContext(x, x.r.f) /\ x.of[x.r.f] = o => CtxOf(x, x.r.f) = x.ctx[o]
      BY DEF CtxOf
    <3>. QED  BY <1>6, <1>16, <3>1, Zenon DEF Settled
  <2>6. HasContext(y, x.r.f) => CtxOf(y, x.r.f).status # INTERRUPT
    <3>1. d.status # INTERRUPT
      BY <1>6, Zenon DEF APR_INCOMPLETE, APR_SUCCESS, INTERRUPT
    <3>. QED  BY <1>14, <1>15, <1>16, <2>2, <3>1
  <2>7. ASSUME NEW t \in 1..(n - 1), NEW u \in 1..(n - 1), s.chain[u] = x.r.f, t < u PROVE s.chain[t] = Other
    <3>1. Away(2, t) \in 1..n /\ Away(2, u) \in 1..n /\ Away(2, t) < Away(2, u)
      BY <1>17, <2>7
    <3>. QED  BY <1>18, <2>2, <2>7, <3>1
  <2>. QED  BY <1>8, <1>10, <1>18, <2>2, <2>4, <2>5, <2>6, <2>7 DEF Handled
<1>22. Kept(y)
  <2>1. Len(s.chain) - s.proto = 0 /\ Len(s.chain) - s.proto + 1 = 1
    BY <1>8
  <2>2. FirstProto(s) = f
    BY <1>18, <2>1 DEF FirstProto
  <2>3. d.status # APR_EINIT
    BY <1>6, Zenon DEF APR_INCOMPLETE, APR_SUCCESS, APR_EINIT
  <2>4. \A t \in 1..(n - 1) : ~(t <= 0)
    OBVIOUS
  <2>. QED  BY <1>10, <1>14, <1>18, <2>1, <2>2, <2>3, <2>4 DEF Kept
<1>23. Good(y)
  BY <1>2, <1>6, <1>9, <1>10, <1>11, <1>12, <1>20, <1>21, <1>22, Zenon DEF Good
<1>24. \A g \in Filters : Mild(x.ctx[g], y.ctx[g])
  BY <1>6, <1>11, Zenon DEF Mild, Lazy
<1>25. ASSUME NEW a, NEW b, Flow(x, a, b) PROVE Flow(y, a, b)
  <2>1. Quiet(Seen(x, x.r.chain[1]))
    BY <1>4, <1>14, SeenIs DEF Quiet, Nothing
  <2>2. ASSUME NEW t \in 1..(n - 1) PROVE Like(Seen(y, s.chain[t]), Seen(x, x.r.chain[Away(1, t)]))
    <3>1. CASE t = 1
      <4>1. Away(1, t) = 2
        BY <3>1 DEF Away
      <4>2. Seen(y, f) = SeenOf(d) /\ Seen(x, below) = SeenOf(x.ctx[o])
        BY <1>5, <1>14, SeenIs
      <4>. QED  BY <1>6, <1>18, <3>1, <4>1, <4>2, Zenon
    <3>2. CASE t # 1
      <4>1. Away(1, t) = Away(2, t)
        BY <3>2 DEF Away
      <4>2. s.chain[t] # f /\ s.chain[t] = x.r.chain[Away(2, t)]
        BY <1>18, <3>2
      <4>3. CASE HasContext(x, s.chain[t])
        <5>1. HasContext(y, s.chain[t]) /\ CtxOf(y, s.chain[t]) = CtxOf(x, s.chain[t])
          BY <1>16, <1>19, <4>3
        <5>. QED  BY <4>1, <4>2, <4>3, <5>1, SeenIs DEF Like
      <4>4. CASE ~HasContext(x, s.chain[t])
        <5>1. ~HasContext(y, s.chain[t])
          BY <1>15, <4>2, <4>4
        <5>. QED  BY <4>1, <4>2, <4>4, <5>1, SeenIs DEF Like
      <4>. QED  BY <4>3, <4>4
    <3>. QED  BY <3>1, <3>2
  <2>. QED  BY <1>2, <1>4, <1>8, <1>10, <1>12, <1>25, <2>1, <2>2, FlowDrop
<1>26. /\ y.r.f = x.r.f /\ y.r.used = x.r.used /\ Len(y.r.chain) \in Nat \ {0} /\ y.r.chain[1] = f
       /\ CtxOf(y, f).status # APR_EINIT
  <2>1. n - 1 \in Nat \ {0}
    BY <1>4
  <2>. QED  BY <1>6, <1>8, <1>10, <1>14, <1>18, <2>1, Zenon DEF APR_EINIT, APR_INCOMPLETE, APR_SUCCESS
<1>. QED  BY <1>1, <1>14, <1>23, <1>24, <1>25, <1>26

\* A parser that is made or given hooks is a parser with those hooks.
LEMMA HookedParser ==
  ASSUME NEW p \in Parser, NEW hooks \in Seq(AnyHook)
  PROVE  /\ apreq_parser_make(NoLimit, None, hooks) \in Parser
         /\ apreq_parser_make(NoLimit, None, hooks).st = "reading"
         /\ apreq_parser_add_hook(p, hooks) \in Parser
         /\ apreq_parser_add_hook(p, hooks).st = p.st
         /\ apreq_parser_add_hook(p, hooks).hook = hooks \o p.hook
<1>1. p.hook \in Seq(AnyHook)
  BY DEF Parser, Parsers
<1>2. hooks \o p.hook \in Seq(AnyHook)
  BY <1>1
<1>3. /\ apreq_parser_make(NoLimit, None, hooks) \in Parser
      /\ apreq_parser_make(NoLimit, None, hooks).st = "reading"
  BY DEF Parser, Parsers, apreq_parser_make
<1>4. PICK h \in Seq(AnyHook) : h = hooks \o p.hook
  BY <1>2
<1>5. apreq_parser_add_hook(p, hooks) = [p EXCEPT !.hook = h]
  BY <1>4 DEF apreq_parser_add_hook
<1>6. [p EXCEPT !.hook = h] \in Parser /\ [p EXCEPT !.hook = h].st = p.st /\ [p EXCEPT !.hook = h].hook = h
  BY DEF Parser, Parsers
<1>. QED  BY <1>3, <1>4, <1>5, <1>6

\* apreq_filter_init_context starts a context or refuses it, and looks the same to the others.
LEMMA StartedIs ==
  ASSUME Given, NEW c \in Context, Sound(c), c.status = APR_EINIT
  PROVE  LET d == apreq_filter_init_context(c)
         IN /\ d \in Context /\ Sound(d) /\ Settled(c, d) /\ Mild(c, d)
            /\ d.status \notin {APR_EINIT, INTERRUPT} /\ Like(SeenOf(d), SeenOf(c)) /\ d.spool = c.spool
<1>. DEFINE d == apreq_filter_init_context(c)
            st == Refusal(c)
<1>1. st \in Refusals \cup {APR_INCOMPLETE}
  BY DEF Refusal, Refusals
<1>2. /\ c.parser \in Parser \cup {None} /\ c.hook_queue \in Seq(AnyHook) /\ c.spool = NoBrigade /\ c.body = <<>>
      /\ c.shown = <<>> /\ ~c.filter_error /\ (c.parser # None => c.parser.st # "complete")
      /\ Len(c.shown) <= c.bytes_read
  BY ContextType DEF Sound, APR_EINIT, GENERAL
<1>3. PICK p \in Parser \cup {None}, hq \in Seq(AnyHook) :
        /\ d = [c EXCEPT !.status = st, !.parser = p, !.hook_queue = hq]
        /\ st = APR_INCOMPLETE => p # None
        /\ p # None => p.st # "complete"
  <2>1. CASE st # APR_INCOMPLETE
    <3>1. d = [c EXCEPT !.status = st]
      BY <2>1 DEF apreq_filter_init_context
    <3>2. d = [c EXCEPT !.status = st, !.parser = c.parser, !.hook_queue = c.hook_queue]
      BY <3>1 DEF Context
    <3>. QED  BY <1>2, <2>1, <3>2, Zenon
  <2>2. CASE st = APR_INCOMPLETE
    <3>1. PICK p : p = IF c.parser = None THEN apreq_parser_make(NoLimit, None, c.hook_queue)
                       ELSE apreq_parser_add_hook(c.parser, c.hook_queue)
      OBVIOUS
    <3>2. p \in Parser /\ p.st # "complete"
      <4>1. CASE c.parser = None
        <5>1. p = apreq_parser_make(NoLimit, None, c.hook_queue)
          BY <3>1, <4>1
        <5>. QED  BY <1>2, <5>1 DEF Parser, Parsers, apreq_parser_make
      <4>2. CASE c.parser # None
        BY <1>2, <3>1, <4>2, HookedParser
      <4>. QED  BY <4>1, <4>2
    <3>3. d = [c EXCEPT !.status = st, !.parser = p, !.hook_queue = <<>>]
      BY <2>2, <3>1 DEF apreq_filter_init_context, Context
    <3>4. <<>> \in Seq(AnyHook) /\ p # None
      BY <3>2, Nulls
    <3>. HIDE DEF d, st
    <3>. QED  BY <3>2, <3>3, <3>4, Zenon
  <2>. QED  BY <2>1, <2>2, Zenon
<1>. HIDE DEF d, st
<1>4. st \in Statuses
  BY <1>1 DEF Refusals, Statuses
<1>5. d \in Context
  BY <1>3, <1>4 DEF Context
<1>6. /\ d.status = st /\ d.parser = p /\ d.spool = c.spool /\ d.body = c.body /\ d.shown = c.shown
      /\ d.filter_error = c.filter_error /\ d.bytes_read = c.bytes_read
  BY <1>3 DEF Context
<1>7. st \notin {APR_EINIT, INTERRUPT, APR_SUCCESS}
  BY <1>1 DEF Refusals, APR_EINIT, INTERRUPT, APR_SUCCESS, APR_INCOMPLETE, NODATA, BADHEADER, OVERLIMIT, NOPARSER, NOHEADER
<1>8. Sound(d)
  <2>1. Consecutive(d.shown)
    BY <1>2, <1>6 DEF Consecutive
  <2>. QED  BY <1>2, <1>3, <1>6, <1>7, <2>1 DEF Sound
<1>9. Settled(c, d)
  BY <1>6, <1>7 DEF Settled, Finished, APR_EINIT, APR_SUCCESS, GENERAL, OVERLIMIT, NODATA, NOPARSER, NOHEADER, BADHEADER
<1>10. Mild(c, d)
  BY <1>1, <1>6, <1>7 DEF Mild, Lazy, Shows, APR_EINIT, INTERRUPT
<1>11. Like(SeenOf(d), SeenOf(c))
  <2>1. SeenOf(d).shown = <<>> /\ SeenOf(d).data = SeenOf(c).data
        /\ SeenOf(d).eos = SeenOf(c).eos /\ SeenOf(d).err = SeenOf(c).err
    BY <1>2, <1>6 DEF SeenOf
  <2>. QED  BY <2>1 DEF Like
<1>. QED  BY <1>5, <1>6, <1>7, <1>8, <1>9, <1>10, <1>11 DEF d

\* A context is changed, and looks as before.
LEMMA UpdateExtends ==
  ASSUME Given, NEW x \in World, NEW o \in Filters, NEW d \in Context, Mild(x.ctx[o], d),
         x.ctx[o].status = APR_EINIT \/ d = x.ctx[o], Like(SeenOf(d), SeenOf(x.ctx[o]))
  PROVE  Extends(x, [x EXCEPT !.ctx[o] = d])
<1>. DEFINE y == [x EXCEPT !.ctx[o] = d]
<1>1. /\ y \in World /\ y.r = x.r /\ y.of = x.of /\ y.ctx[o] = d
      /\ \A g \in Filters : g # o => y.ctx[g] = x.ctx[g]
      /\ \A f : HasContext(y, f) <=> HasContext(x, f)
      /\ \A f : HasContext(x, f) => CtxOf(y, f) = IF x.of[f] = o THEN d ELSE CtxOf(x, f)
  BY UpdateValue
<1>. HIDE DEF y
<1>2. \A g \in Filters : Mild(x.ctx[g], y.ctx[g]) /\ (x.ctx[g].status # APR_EINIT => y.ctx[g] = x.ctx[g])
  BY <1>1 DEF Mild, Lazy
<1>3. ASSUME NEW g PROVE Like(Seen(y, g), Seen(x, g))
  <2>1. CASE ~HasContext(x, g)
    BY <1>1, <2>1, SeenIs DEF Like
  <2>2. CASE HasContext(x, g) /\ x.of[g] # o
    BY <1>1, <2>2, SeenIs DEF Like
  <2>3. CASE HasContext(x, g) /\ x.of[g] = o
    <3>1. Seen(y, g) = SeenOf(d) /\ Seen(x, g) = SeenOf(x.ctx[o])
      BY <1>1, <2>3, SeenIs DEF CtxOf
    <3>. QED  BY <3>1
  <2>. QED  BY <2>1, <2>2, <2>3
<1>4. Extends(x, y)
  BY <1>1, <1>2, <1>3 DEF Extends
<1>. QED  BY <1>4 DEF y

\* Starting the context of a filter keeps the state good.
LEMMA StartGood ==
  ASSUME Given, NEW x, Good(x), NEW f, HasContext(x, f)
  PROVE  LET y == Started(x, f)
         IN /\ Good(y) /\ Extends(x, y) /\ HasContext(y, f) /\ CtxOf(y, f).status # APR_EINIT /\ y.of = x.of
            /\ y.of[f] \in Filters
<1>. DEFINE o == x.of[f]
            c == x.ctx[o]
            d == apreq_filter_init_context(c)
            y == [x EXCEPT !.ctx[o] = d]
<1>1. x \in World /\ Owned(x) /\ \A g \in Filters : Sound(x.ctx[g])
  BY DEF Good
<1>2. f \in Filters /\ o \in Filters /\ x.of[o] = o /\ c \in Context /\ CtxOf(x, f) = c /\ Sound(c)
  <2>1. f \in Filters /\ o # 0
    BY DEF HasContext
  <2>. QED  BY <1>1, <2>1, WorldType DEF Owned
<1>3. CASE c.status # APR_EINIT
  <2>1. Started(x, f) = x
    BY <1>2, <1>3 DEF Started
  <2>. QED  BY <1>1, <1>2, <1>3, <2>1, ExtendsTrans
<1>4. CASE c.status = APR_EINIT
  <2>1. Started(x, f) = y
    BY <1>2, <1>4 DEF Started
  <2>2. /\ d \in Context /\ Sound(d) /\ Settled(c, d) /\ Mild(c, d)
        /\ d.status \notin {APR_EINIT, INTERRUPT} /\ Like(SeenOf(d), SeenOf(c)) /\ d.spool = c.spool
    BY <1>2, <1>4, StartedIs
  <2>. HIDE DEF d
  <2>3. Holds(x, o, d)
    BY <2>2 DEF Holds
  <2>4. Good(y)
    BY <1>2, <2>2, <2>3, UpdateGood
  <2>5. Extends(x, y)
    BY <1>1, <1>2, <1>4, <2>2, UpdateExtends
  <2>6. y.of = x.of /\ HasContext(y, f) /\ CtxOf(y, f) = d
    <3>1. /\ y.of = x.of /\ \A g : HasContext(y, g) <=> HasContext(x, g)
          /\ \A g : HasContext(x, g) => CtxOf(y, g) = IF x.of[g] = o THEN d ELSE CtxOf(x, g)
      <4>. HIDE DEF o, c
      <4>. QED  BY <1>1, <1>2, <2>2, UpdateValue
    <3>. HIDE DEF y
    <3>. QED  BY <3>1
  <2>. HIDE DEF y
  <2>. QED  BY <1>2, <2>1, <2>2, <2>4, <2>5, <2>6
<1>. QED  BY <1>3, <1>4

\* y is x after f has made sure of its context.
Serves(x, f, y) ==
  /\ Good(y) /\ HasContext(y, f) /\ y.r.f = x.r.f /\ y.r.used = x.r.used
  /\ \A g \in Filters : Mild(x.ctx[g], y.ctx[g])
  /\ \A a, b : Flow(x, a, b) => Flow(y, a, b)
  /\ x.of[f] # 0 \/ ~CanSteal(x, f) => Extends(x, y) /\ \A g \in Filters : g # f => y.of[g] = x.of[g]
  /\ Len(x.r.chain) # 0 /\ x.r.chain[1] = f => Len(y.r.chain) # 0 /\ y.r.chain[1] = f

\* apreq_filter_make_context serves the filter with a new context or a stolen one.
LEMMA MakeGood ==
  ASSUME Given, NEW x, Good(x), NEW f \in Filters, HasContext(x, f) \/ f \in Range(x.r.chain)
  PROVE  Serves(x, f, apreq_filter_make_context(x, f))
<1>. DEFINE y == apreq_filter_make_context(x, f)
<1>0. SUFFICES Serves(x, f, y)
  OBVIOUS
<1>1. x \in World /\ Chained(x.r) /\ DOMAIN x.r.chain = 1..Len(x.r.chain)
  BY WorldType, ChainType DEF Good
<1>2. CASE x.of[f] # 0
  <2>1. y = x
    BY <1>2 DEF apreq_filter_make_context
  <2>2. HasContext(x, f)
    BY <1>2 DEF HasContext
  <2>3. Extends(x, x)
    BY <1>1, ExtendsTrans
  <2>. HIDE DEF y
  <2>. QED  BY <2>1, <2>2, <2>3 DEF Serves, Extends
<1>3. CASE x.of[f] = 0
  <2>1. f \in Range(x.r.chain)
    BY <1>3 DEF HasContext
  <2>2. f <= x.r.used
    <3>1. PICK t \in DOMAIN x.r.chain : x.r.chain[t] = f
      BY <2>1 DEF Range
    <3>2. f # Other
      BY Sizes, Nulls DEF Filters
    <3>3. f \in 1..x.r.used
      BY <1>1, <3>1, <3>2 DEF Chained
    <3>. QED  BY <3>3
  <2>3. CASE CanSteal(x, f)
    <3>1. /\ Good(y) /\ HasContext(y, f) /\ y.r.f = x.r.f /\ y.r.used = x.r.used
          /\ Len(y.r.chain) \in Nat \ {0} /\ y.r.chain[1] = f
          /\ \A g \in Filters : Mild(x.ctx[g], y.ctx[g])
          /\ \A a, b : Flow(x, a, b) => Flow(y, a, b)
      BY <1>3, <2>2, <2>3, StealGood
    <3>. HIDE DEF y
    <3>. QED  BY <1>3, <2>3, <3>1 DEF Serves
  <2>4. CASE ~CanSteal(x, f)
    <3>. DEFINE z == [x EXCEPT !.of[f] = f, !.ctx[f] = NewContext(request.limit)]
    <3>1. y = z
      BY <1>3, <2>4 DEF apreq_filter_make_context
    <3>2. /\ Good(z) /\ Extends(x, z) /\ HasContext(z, f)
          /\ \A g \in Filters : g # f => z.of[g] = x.of[g]
      BY <1>3, <2>1, <2>2, NewGood, Zenon
    <3>. HIDE DEF z, y
    <3>3. z \in World
      BY <3>2 DEF Good
    <3>4. \A a, b : Flow(x, a, b) => Flow(z, a, b)
      BY <1>1, <3>2, <3>3, ExtendsTrans
    <3>. QED  BY <3>1, <3>2, <3>4 DEF Serves, Extends
  <2>. QED  BY <2>3, <2>4
<1>. QED  BY <1>2, <1>3

\* A filter that is served stays so when its context is started.
LEMMA ServesAgain ==
  ASSUME Given, NEW x, Good(x), NEW f, NEW y, Serves(x, f, y), NEW z, Good(z), Extends(y, z), z.of = y.of
  PROVE  Serves(x, f, z)
<1>1. x \in World /\ y \in World /\ z \in World
  BY DEF Good, Serves
<1>2. \A g \in Filters : x.ctx[g] \in Context /\ y.ctx[g] \in Context /\ z.ctx[g] \in Context
  BY <1>1, WorldType
<1>3. \A g \in Filters : Mild(x.ctx[g], z.ctx[g])
  BY <1>2, MovesTrans DEF Serves, Extends
<1>4. \A a, b : Flow(x, a, b) => Flow(z, a, b)
  BY <1>1, ExtendsTrans DEF Serves
<1>5. HasContext(z, f)
  BY DEF Serves, HasContext
<1>6. Extends(x, y) => Extends(x, z)
  BY <1>1, ExtendsTrans
<1>7. z.r = y.r
  BY DEF Extends
<1>. QED  BY <1>3, <1>4, <1>5, <1>6, <1>7 DEF Serves

\* A filter that is called has a context that was started.
LEMMA PreparedGood ==
  ASSUME Given, NEW x, Good(x), NEW f \in Filters, HasContext(x, f) \/ f \in Range(x.r.chain)
  PROVE  Serves(x, f, Prepared(x, f)) /\ CtxOf(Prepared(x, f), f).status # APR_EINIT
<1>1. PICK y : y = apreq_filter_make_context(x, f)
  OBVIOUS
<1>2. Serves(x, f, y)
  BY <1>1, MakeGood
<1>3. Good(y) /\ HasContext(y, f)
  BY <1>2 DEF Serves
<1>4. PICK z : z = Started(y, f)
  OBVIOUS
<1>5. Good(z) /\ Extends(y, z) /\ CtxOf(z, f).status # APR_EINIT /\ z.of = y.of
  BY <1>3, <1>4, StartGood
<1>6. Serves(x, f, z)
  BY <1>2, <1>5, ServesAgain
<1>. QED  BY <1>1, <1>4, <1>5, <1>6 DEF Prepared

-----------------------------------------------------------------------------
(* ap_get_brigade: down the chain, and back with what there is.            *)

\* Calling the i-th filter leaves it in its place, also when it takes a context over.
LEMMA CalledGood ==
  ASSUME Given, NEW x, Good(x), x.r.used <= MaxFilters, NEW i \in 1..Len(x.r.chain)
  PROVE  LET y == Called(x, x.r.chain[i])
         IN /\ Good(y) /\ y.r.f = x.r.f /\ y.r.used = x.r.used
            /\ \A g \in Filters : Mild(x.ctx[g], y.ctx[g])
            /\ \A a, b : Flow(x, a, b) => Flow(y, a, b)
            /\ i \in 1..Len(y.r.chain) /\ y.r.chain[i] = x.r.chain[i] /\ Ready(y, i)
            /\ i # 1 \/ Ready(x, i) => Extends(x, y)
<1>. DEFINE f == x.r.chain[i]
            y == Called(x, f)
<1>0. SUFFICES /\ Good(y) /\ y.r.f = x.r.f /\ y.r.used = x.r.used
               /\ \A g \in Filters : Mild(x.ctx[g], y.ctx[g])
               /\ \A a, b : Flow(x, a, b) => Flow(y, a, b)
               /\ i \in 1..Len(y.r.chain) /\ y.r.chain[i] = f /\ Ready(y, i)
               /\ i # 1 \/ Ready(x, i) => Extends(x, y)
  OBVIOUS
<1>1. x \in World /\ Chained(x.r)
  BY DEF Good
<1>2. Len(x.r.chain) \in Nat /\ DOMAIN x.r.chain = 1..Len(x.r.chain) /\ x.r.used \in Nat
  BY <1>1, WorldType, ChainType
<1>3. CASE f = Other
  <2>1. y = x
    BY <1>3 DEF Called
  <2>2. Extends(x, x)
    BY <1>1, ExtendsTrans
  <2>3. \A g \in Filters : Mild(x.ctx[g], x.ctx[g])
    BY <2>2 DEF Extends
  <2>4. Ready(x, i)
    BY <1>3 DEF Ready
  <2>. HIDE DEF y
  <2>. QED  BY <2>1, <2>2, <2>3, <2>4
<1>4. CASE f # Other
  <2>1. f \in 1..x.r.used
    BY <1>1, <1>2, <1>4 DEF Chained
  <2>2. f \in Filters /\ f \in Range(x.r.chain)
    BY <1>2, <2>1, Sizes DEF Filters, Range
  <2>3. y = Prepared(x, f)
    BY <1>4 DEF Called
  <2>4. Serves(x, f, y) /\ CtxOf(y, f).status # APR_EINIT
    BY <2>2, <2>3, PreparedGood
  <2>. HIDE DEF y
  <2>5. /\ Good(y) /\ HasContext(y, f) /\ y.r.f = x.r.f /\ y.r.used = x.r.used
        /\ \A g \in Filters : Mild(x.ctx[g], y.ctx[g])
        /\ \A a, b : Flow(x, a, b) => Flow(y, a, b)
    BY <2>4 DEF Serves
  <2>6. i # 1 \/ Ready(x, i) => x.of[f] # 0 \/ ~CanSteal(x, f)
    <3>1. CASE i # 1
      <4>1. 1 \in 1..Len(x.r.chain)
        BY <1>2
      <4>. QED  BY <1>1, <1>2, <3>1, <4>1 DEF Chained, CanSteal
    <3>2. CASE Ready(x, i)
      BY <1>4, <3>2 DEF Ready, HasContext
    <3>. QED  BY <3>1, <3>2
  <2>7. i # 1 \/ Ready(x, i) => Extends(x, y)
    BY <2>4, <2>6 DEF Serves
  <2>8. i \in 1..Len(y.r.chain) /\ y.r.chain[i] = f
    <3>1. CASE i # 1
      BY <2>7, <3>1 DEF Extends
    <3>2. CASE i = 1
      <4>1. Len(x.r.chain) # 0 /\ x.r.chain[1] = f
        BY <1>2, <3>2
      <4>2. Len(y.r.chain) # 0 /\ y.r.chain[1] = f
        BY <2>4, <4>1 DEF Serves
      <4>3. Len(y.r.chain) \in Nat
        BY <2>5, WorldType, ChainType DEF Good
      <4>. QED  BY <3>2, <4>2, <4>3
    <3>. QED  BY <3>1, <3>2
  <2>9. Ready(y, i)
    BY <2>4, <2>5, <2>8 DEF Ready
  <2>. QED  BY <2>5, <2>7, <2>8, <2>9
<1>. QED  BY <1>3, <1>4

\* The filters on the path are called, each once more at most.
LEMMA PathGood ==
  ASSUME Given, NEW x, Good(x), x.r.used <= MaxFilters, NEW i \in Nat \ {0}, Ready(x, i),
         NEW k \in Nat, i <= k, k <= Len(x.r.chain) + 1
  PROVE  LET y == PreparedPath(x, i, k)
         IN Good(y) /\ Extends(x, y) /\ \A t \in i..(k - 1) : Ready(y, t)
<1>. DEFINE N == k - i
            step(h) == [n \in 0..N |-> IF n = 0 THEN x ELSE Called(h[n - 1], x.r.chain[i + n - 1])]
            f == CHOOSE h : h = step(h)
            G == [n \in 0..N |-> {y \in World : Good(y) /\ Extends(x, y) /\ \A t \in i..(i + n - 1) : Ready(y, t)}]
            op == [p \in World \X (1..N) |-> Called(p[1], x.r.chain[i + p[2] - 1])]
<1>1. PreparedPath(x, i, k) = f[N]
  BY DEF PreparedPath
<1>2. N \in Nat /\ x \in World /\ Len(x.r.chain) \in Nat
  BY WorldType, ChainType DEF Good
<1>3. x \in G[0]
  <2>1. 0 \in 0..N /\ \A t \in i..(i + 0 - 1) : FALSE
    BY <1>2
  <2>2. Extends(x, x)
    BY <1>2, ExtendsTrans
  <2>. QED  BY <1>2, <2>1, <2>2
<1>4. ASSUME NEW n \in 1..N, NEW y \in G[n - 1]
      PROVE  Called(y, x.r.chain[i + n - 1]) \in G[n] /\ y \in World
  <2>. DEFINE j == i + n - 1
  <2>1. n - 1 \in 0..N /\ n \in 0..N /\ j \in 1..Len(x.r.chain) /\ j \in Nat
    BY <1>2
  <2>2. y \in World /\ Good(y) /\ Extends(x, y) /\ \A t \in i..(i + (n - 1) - 1) : Ready(y, t)
    BY <2>1
  <2>3. y.r = x.r
    BY <2>2 DEF Extends
  <2>4. j # 1 \/ Ready(y, j)
    <3>1. SUFFICES ASSUME j = 1 PROVE Ready(y, 1)
      OBVIOUS
    <3>2. i = 1
      BY <1>2, <3>1
    <3>3. Ready(x, 1)
      BY <3>2, Zenon
    <3>4. ASSUME HasContext(x, x.r.chain[1]), CtxOf(x, x.r.chain[1]).status # APR_EINIT
          PROVE  HasContext(y, x.r.chain[1]) /\ CtxOf(y, x.r.chain[1]).status # APR_EINIT
      <4>1. x.r.chain[1] \in Filters /\ x.of[x.r.chain[1]] # 0 /\ x.of[x.r.chain[1]] \in Filters
        BY <1>2, <3>4, WorldType DEF HasContext
      <4>2. y.of[x.r.chain[1]] = x.of[x.r.chain[1]]
        BY <2>2, <4>1, Zenon DEF Extends
      <4>3. y.ctx[x.of[x.r.chain[1]]] = x.ctx[x.of[x.r.chain[1]]]
        BY <2>2, <3>4, <4>1 DEF Extends, CtxOf
      <4>. QED  BY <3>4, <4>1, <4>2, <4>3 DEF HasContext, CtxOf
    <3>. QED  BY <2>3, <3>3, <3>4 DEF Ready
  <2>. HIDE DEF N, j
  <2>5. PICK z : z = Called(y, y.r.chain[j])
    OBVIOUS
  <2>6. Good(z) /\ Extends(y, z) /\ Ready(z, j)
    BY <2>1, <2>2, <2>3, <2>4, <2>5, CalledGood
  <2>7. z \in World
    BY <2>6 DEF Good
  <2>8. Extends(x, z)
    BY <1>2, <2>2, <2>6, <2>7, ExtendsTrans
  <2>9. ASSUME NEW t \in i..j PROVE Ready(z, t)
    <3>1. CASE t = j
      BY <2>6, <3>1
    <3>2. CASE t # j
      <4>1. t \in i..(i + (n - 1) - 1)
        BY <3>2 DEF j
      <4>2. Ready(y, t)
        BY <2>2, <4>1
      <4>3. z.r = y.r
        BY <2>6 DEF Extends
      <4>4. ASSUME NEW g, HasContext(y, g), CtxOf(y, g).status # APR_EINIT
            PROVE  HasContext(z, g) /\ CtxOf(z, g).status # APR_EINIT
        <5>1. g \in Filters /\ y.of[g] # 0 /\ y.of[g] \in Filters
          BY <2>2, <4>4, WorldType DEF HasContext
        <5>2. z.of[g] = y.of[g] /\ z.ctx[y.of[g]] = y.ctx[y.of[g]]
          BY <2>6, <4>4, <5>1 DEF Extends, CtxOf
        <5>. QED  BY <4>4, <5>1, <5>2 DEF HasContext, CtxOf
      <4>. QED  BY <4>2, <4>3, <4>4 DEF Ready
    <3>. QED  BY <3>1, <3>2
  <2>10. z \in G[n]
    BY <2>1, <2>6, <2>7, <2>8, <2>9 DEF j
  <2>. QED  BY <2>2, <2>3, <2>5, <2>10 DEF j
<1>5. f = step(f)
  <2>1. \E h : h = step(h)
    <3>1. \A n \in 0..N : G[n] \subseteq World
      OBVIOUS
    <3>2. ASSUME NEW n \in 1..N, NEW y \in G[n - 1] PROVE op[<<y, n>>] \in G[n]
      <4>1. op[<<y, n>>] = Called(y, x.r.chain[i + n - 1])
        BY <1>4
      <4>. QED  BY <1>4, <4>1
    <3>. HIDE DEF G, N, op
    <3>6. Leads(N, World, G, op)
      BY <3>1, <3>2 DEF Leads
    <3>7. PICK g \in [0..N -> World] : Traces(g, N, x, G, op)
      BY <1>2, <1>3, <3>6, Iterates
    <3>3. g[0] = x /\ \A n \in 1..N : g[n - 1] \in G[n - 1] /\ g[n] = op[<<g[n - 1], n>>]
      BY <3>7 DEF Traces
    <3>4. ASSUME NEW n \in 0..N PROVE g[n] = IF n = 0 THEN x ELSE Called(g[n - 1], x.r.chain[i + n - 1])
      <4>1. CASE n = 0
        BY <3>3, <4>1
      <4>2. CASE n # 0
        <5>1. n \in 1..N
          BY <1>2, <4>2
        <5>2. g[n - 1] \in World /\ g[n] = op[<<g[n - 1], n>>]
          BY <1>4, <3>3, <5>1
        <5>. QED  BY <4>2, <5>1, <5>2 DEF op
      <4>. QED  BY <4>1, <4>2
    <3>5. g = step(g)
      <4>1. g = [n \in 0..N |-> g[n]]
        BY Zenon
      <4>2. [n \in 0..N |-> g[n]] = [n \in 0..N |-> IF n = 0 THEN x ELSE Called(g[n - 1], x.r.chain[i + n - 1])]
        BY <3>4, Zenon
      <4>. QED  BY <4>1, <4>2, Zenon
    <3>. QED  BY <3>5
  <2>. HIDE DEF step
  <2>. QED  BY <2>1
<1>6. f[0] = x /\ \A n \in 1..N : f[n] = Called(f[n - 1], x.r.chain[i + n - 1])
  <2>. HIDE DEF f
  <2>1. \A n \in 0..N : f[n] = IF n = 0 THEN x ELSE Called(f[n - 1], x.r.chain[i + n - 1])
    BY <1>5
  <2>2. 0 \in 0..N /\ \A n \in 1..N : n \in 0..N /\ n # 0
    BY <1>2
  <2>. QED  BY <2>1, <2>2
<1>. HIDE DEF f, op, step
<1>7. f[N] \in G[N]
  <2>1. \A n \in 1..N : f[n - 1] \in G[n - 1] => f[n] \in G[n]
    BY <1>4, <1>6
  <2>2. N \in 0..N
    BY <1>2
  <2>. HIDE DEF G, N
  <2>. QED  BY <1>2, <1>3, <1>6, <2>1, <2>2, Follows
<1>8. G[N] = {y \in World : Good(y) /\ Extends(x, y) /\ \A t \in i..(k - 1) : Ready(y, t)}
  <2>1. N \in 0..N /\ i + N - 1 = k - 1
    BY <1>2
  <2>. QED  BY <2>1
<1>. QED  BY <1>1, <1>7, <1>8

\* A read ends at the first filter that answers, or at the connection.
LEMMA SourceIs ==
  ASSUME NEW x \in World, NEW i \in Nat \ {0}, i <= Len(x.r.chain) + 1
  PROVE  LET k == Source(x, i)
         IN /\ k \in i..(Len(x.r.chain) + 1) /\ k \in Nat /\ (k > Len(x.r.chain) \/ Answering(x, k))
            /\ \A j \in i..(k - 1) : ~Answering(x, j)
<1>. DEFINE n == Len(x.r.chain)
            T == {k \in i..(n + 1) : k > n \/ Answering(x, k)}
            P(k) == (k > n \/ Answering(x, k)) /\ \A j \in i..(k - 1) : ~Answering(x, j)
<1>1. n \in Nat
  BY WorldType, ChainType
<1>2. n + 1 \in T /\ T \subseteq Nat
  BY <1>1
<1>3. PICK k \in T : \A m \in T : k <= m
  <2>. HIDE DEF T
  <2>. QED  BY <1>2, LeastNatural
<1>4. ASSUME NEW j \in i..(k - 1) PROVE ~Answering(x, j)
  <2>1. j \in i..(n + 1) /\ ~(k <= j)
    BY <1>1, <1>2, <1>3
  <2>2. j \notin T
    <3>. HIDE DEF T
    <3>. QED  BY <1>3, <2>1
  <2>. QED  BY <2>1, <2>2
<1>5. k \in i..(n + 1) /\ P(k)
  BY <1>3, <1>4
<1>6. Source(x, i) = CHOOSE m \in i..(n + 1) : P(m)
  BY DEF Source
<1>. HIDE DEF P
<1>7. Source(x, i) \in i..(n + 1) /\ P(Source(x, i))
  BY <1>5, <1>6
<1>8. Source(x, i) \in Nat
  BY <1>1, <1>7
<1>. QED  BY <1>7, <1>8 DEF P

\* s is what the connection still has.
Left(s) ==
  s \in Seq(Places) /\ Len(s) <= Len(content) /\ s = Positions(Len(content) - Len(s), Len(s))

\* The connection gives the next blocks of the body.
LEMMA FreshIs ==
  ASSUME Given, Left(net), NEW n \in Nat, NEW fresh \in Fresh(n)
  PROVE  \E m \in Nat, b \in Nat :
           /\ b = Len(content) - Len(net) /\ m <= Len(net) /\ fresh \in Brigades /\ Len(fresh.data) = m
           /\ b + m <= Len(content) /\ fresh.data = Positions(b, m)
           /\ fresh.eos => b + m = Len(content)
           /\ Left(SubSeq(net, m + 1, Len(net)))
           /\ Len(content) - Len(SubSeq(net, m + 1, Len(net))) = b + m
<1>1. PICK size \in Nat, l \in Nat, b \in Nat :
        /\ size = Len(content) /\ l = Len(net) /\ b = size - l /\ l <= size /\ b + l = size
        /\ net \in Seq(Places) /\ net = Positions(b, l)
  BY DEF Given, Left
<1>2. PICK m \in 0..l : fresh = [data |-> SubSeq(net, 1, m), eos |-> FALSE]
                        \/ (m = l /\ fresh = [data |-> net, eos |-> TRUE])
  <2>1. CASE fresh \in {[data |-> SubSeq(net, 1, m), eos |-> e] : m \in 1 .. Least(n, Len(net)), e \in {FALSE}}
    <3>1. PICK m \in 1 .. Least(n, Len(net)) : fresh = [data |-> SubSeq(net, 1, m), eos |-> FALSE]
      BY <2>1
    <3>2. m \in 0..l
      BY <1>1 DEF Least
    <3>. QED  BY <3>1, <3>2
  <2>2. CASE fresh = [data |-> net, eos |-> TRUE]
    <3>1. l \in 0..l
      OBVIOUS
    <3>. QED  BY <2>2, <3>1
  <2>. QED  BY <2>1, <2>2 DEF Fresh
<1>3. SubSeq(net, 1, m) \in Seq(Places) /\ SubSeq(net, m + 1, l) \in Seq(Places) /\ SubSeq(net, 1, l) = net
  BY <1>1
<1>4. fresh \in Brigades /\ fresh.data = SubSeq(net, 1, m) /\ (fresh.eos => m = l)
  <2>1. CASE fresh = [data |-> SubSeq(net, 1, m), eos |-> FALSE]
    BY <1>3, <2>1 DEF Brigades
  <2>2. CASE m = l /\ fresh = [data |-> net, eos |-> TRUE]
    <3>1. net \in Seq(Places)
      BY <1>1
    <3>2. fresh \in Brigades /\ fresh.data = net
      BY <2>2, <3>1 DEF Brigades
    <3>. QED  BY <1>3, <2>2, <3>2
  <2>. QED  BY <1>2, <2>1, <2>2
<1>5. /\ SubSeq(net, 1, m) = Positions(b, m)
      /\ SubSeq(net, m + 1, l) = Positions(b + m, l - m)
  <2>1. /\ SubSeq(Positions(b, l), 1, m) = Positions(b, m)
        /\ SubSeq(Positions(b, l), m + 1, l) = Positions(b + m, l - m)
    BY PositionsSplit
  <2>2. net = Positions(b, l)
    BY <1>1
  <2>. QED  BY <2>1, <2>2
<1>6. Len(Positions(b, m)) = m /\ Len(Positions(b + m, l - m)) = l - m
  <2>1. m \in Nat /\ b + m \in Nat /\ l - m \in Nat
    OBVIOUS
  <2>. QED  BY <2>1, PositionsType
<1>7. /\ m \in Nat /\ m <= l /\ b + m <= size /\ size - (l - m) = b + m /\ l - m <= size
      /\ m = l => b + m = size
  BY <1>1
<1>8. Left(SubSeq(net, m + 1, l))
  BY <1>1, <1>3, <1>5, <1>6, <1>7 DEF Left
<1>9. fresh.data = Positions(b, m) /\ Len(fresh.data) = m
  BY <1>4, <1>5, <1>6
<1>10. size - Len(SubSeq(net, m + 1, l)) = b + m
  BY <1>5, <1>6, <1>7
<1>. QED  BY <1>1, <1>4, <1>7, <1>8, <1>9, <1>10

\* A read from a spool takes its first blocks and leaves the others.
LEMMA SpoolIs ==
  ASSUME Given, NEW sp \in Brigades, NEW n \in Nat
  PROVE  LET m == Least(n, Len(sp.data))
             t == FromSpool(sp, n)
         IN /\ m \in Nat /\ m <= Len(sp.data) /\ t.got \in Brigades /\ t.left \in Brigades
            /\ t.got.data = SubSeq(sp.data, 1, m) /\ Len(t.got.data) = m
            /\ t.got.eos => sp.eos /\ m = Len(sp.data)
            /\ t.left.data = SubSeq(sp.data, m + 1, Len(sp.data)) /\ (t.left.eos => sp.eos)
            /\ sp.data = <<>> => t.left.data = <<>>
<1>1. PICK s \in Seq(Places), e \in BOOLEAN, l \in Nat : s = sp.data /\ e = sp.eos /\ l = Len(s)
  BY DEF Brigades
<1>2. PICK m \in Nat : m = Least(n, Len(sp.data)) /\ m <= l
  BY <1>1 DEF Least
<1>3. /\ SubSeq(s, 1, m) \in Seq(Places) /\ Len(SubSeq(s, 1, m)) = m
      /\ SubSeq(s, m + 1, l) \in Seq(Places) /\ (s = <<>> => SubSeq(s, m + 1, l) = <<>>)
  BY <1>1, <1>2
<1>4. /\ FromSpool(sp, n).got = [data |-> SubSeq(s, 1, m), eos |-> e /\ m = l]
      /\ FromSpool(sp, n).left = [data |-> SubSeq(s, m + 1, l), eos |-> e /\ m < l]
  BY <1>1, <1>2 DEF FromSpool
<1>5. (e /\ m = l) \in BOOLEAN /\ (e /\ m < l) \in BOOLEAN
  OBVIOUS
<1>6. FromSpool(sp, n).got \in Brigades /\ FromSpool(sp, n).left \in Brigades
  <2>1. \A d \in Seq(Places), f \in BOOLEAN : [data |-> d, eos |-> f] \in Brigades
    BY DEF Brigades
  <2>. QED  BY <1>3, <1>4, <1>5, <2>1
<1>7. /\ FromSpool(sp, n).got.data = SubSeq(s, 1, m) /\ (FromSpool(sp, n).got.eos => e /\ m = l)
      /\ FromSpool(sp, n).left.data = SubSeq(s, m + 1, l) /\ (FromSpool(sp, n).left.eos => e)
  <2>1. PICK e1, e2 : e1 = (e /\ m = l) /\ e2 = (e /\ m < l)
    OBVIOUS
  <2>2. /\ FromSpool(sp, n).got = [data |-> SubSeq(s, 1, m), eos |-> e1]
        /\ FromSpool(sp, n).left = [data |-> SubSeq(s, m + 1, l), eos |-> e2]
    BY <1>4, <2>1
  <2>3. /\ FromSpool(sp, n).got.data = SubSeq(s, 1, m) /\ FromSpool(sp, n).got.eos = e1
        /\ FromSpool(sp, n).left.data = SubSeq(s, m + 1, l) /\ FromSpool(sp, n).left.eos = e2
    BY <2>2
  <2>. QED  BY <2>1, <2>3, Zenon
<1>8. PICK t : t = FromSpool(sp, n)
  OBVIOUS
<1>9. /\ m \in Nat /\ m <= l /\ t.got \in Brigades /\ t.left \in Brigades
      /\ t.got.data = SubSeq(s, 1, m) /\ Len(t.got.data) = m
      /\ t.got.eos => e /\ m = l
      /\ t.left.data = SubSeq(s, m + 1, l) /\ (t.left.eos => e)
      /\ s = <<>> => t.left.data = <<>>
  BY <1>2, <1>3, <1>6, <1>7, <1>8
<1>. QED  BY <1>1, <1>2, <1>8, <1>9

\* Nothing is on its way, m blocks come from the connection, or out of a spool.
LEMMA RideNothing ==
  ASSUME Given, NEW x \in World, NEW a, NEW b, Flow(x, a, b), NEW k \in 1..(Len(x.r.chain) + 1)
  PROVE  Riding(x, a, b, k, NoBrigade)
<1>0. Sights(x) \in Seq(Sight) /\ Len(Sights(x)) = Len(x.r.chain) /\ Len(x.r.chain) \in Nat
  BY SightsType
<1>00. Len(content) \in Nat /\ (~broken) \in BOOLEAN
  BY DEF Given
<1>1. PICK v \in Seq(Sight), size \in Nat, whole \in BOOLEAN : v = Sights(x) /\ size = Len(content) /\ whole = ~broken
  BY <1>0, <1>00
<1>2. PICK p : Stream(v, p, size) /\ Cuts(v, p, a, b, 0, 0, size, whole)
  BY <1>1 DEF Flow
<1>3. k \in Nat /\ p[k] \in Nat
  BY <1>0, <1>1, <1>2 DEF Stream
<1>4. Cuts(v, p, a, b, k, 0, size, whole)
  BY <1>2, <1>3, CutsHole
<1>5. NoBrigade.data = <<>> /\ Len(NoBrigade.data) = 0 /\ ~NoBrigade.eos
  BY DEF NoBrigade
<1>6. p[k] - 0 = p[k] /\ 0 <= p[k] /\ Positions(p[k], 0) = <<>>
  BY <1>3, NoPositions
<1>7. Rides(p, k, NoBrigade)
  BY <1>5, <1>6 DEF Rides
<1>. QED  BY <1>1, <1>2, <1>4, <1>5, <1>7 DEF Riding

\* Blocks from the connection are on their way below the last filter.
LEMMA RideNet ==
  ASSUME Given, NEW x \in World, NEW a, NEW b \in Nat, Flow(x, a, b), NEW m \in Nat, b + m <= Len(content),
         NEW got, Len(got.data) = m, got.data = Positions(b, m), got.eos => b + m = Len(content)
  PROVE  Riding(x, a, b + m, Len(x.r.chain) + 1, got)
<1>0. Sights(x) \in Seq(Sight) /\ Len(Sights(x)) = Len(x.r.chain) /\ Len(x.r.chain) \in Nat
  BY SightsType
<1>00. Len(content) \in Nat /\ (~broken) \in BOOLEAN
  BY DEF Given
<1>1. PICK v \in Seq(Sight), size \in Nat, whole \in BOOLEAN : v = Sights(x) /\ size = Len(content) /\ whole = ~broken
  BY <1>0, <1>00
<1>2. PICK p : Stream(v, p, size) /\ Cuts(v, p, a, b, 0, 0, size, whole)
  BY <1>1 DEF Flow
<1>3. PICK k \in Nat, e \in Nat : k = Len(v) + 1 /\ e = b + m /\ e <= size
  BY <1>1
<1>7. Flowing(v, p, a, b, 0, 0, size, whole) /\ Reaches(v, b, m, e, k, size)
  BY <1>2, <1>3 DEF Flowing, Reaches
<1>8. PICK q : Flowing(v, q, a, e, k, m, size, whole) /\ q[k] = e
  BY <1>7, CutsNet
<1>4. Stream(v, q, size) /\ Cuts(v, q, a, e, k, m, size, whole)
  BY <1>8 DEF Flowing
<1>6. m <= e /\ e - m = b
  BY <1>3
<1>5. Rides(q, k, got)
  BY <1>1, <1>3, <1>6, <1>8 DEF Rides
<1>. QED  BY <1>0, <1>1, <1>3, <1>4, <1>5 DEF Riding

\* y is x with d for the context o, and d is c with n blocks taken from its spool.
Updates(x, o, d, y) == y = [x EXCEPT !.ctx[o] = d]
Takes(c, n, d, got) ==
  got = FromSpool(c.spool, n).got /\ d = [c EXCEPT !.spool = FromSpool(c.spool, n).left]
At(x, k, o, c) == HasContext(x, x.r.chain[k]) /\ o = x.of[x.r.chain[k]] /\ c = x.ctx[o]

\* UpdateValue, for a state that is named.
LEMMA UpdateIs ==
  ASSUME NEW x \in World, NEW o \in Filters, NEW d \in Context, NEW y, Updates(x, o, d, y)
  PROVE  /\ y \in World /\ y.r = x.r /\ y.of = x.of /\ y.ctx[o] = d
         /\ \A g \in Filters : g # o => y.ctx[g] = x.ctx[g]
         /\ \A g : HasContext(y, g) <=> HasContext(x, g)
         /\ \A g : HasContext(x, g) => CtxOf(y, g) = IF x.of[g] = o THEN d ELSE CtxOf(x, g)
BY UpdateValue DEF Updates

\* Two filters of the chain have different contexts.
LEMMA Apart ==
  ASSUME NEW x, Good(x), NEW t \in 1..Len(x.r.chain), NEW k \in 1..Len(x.r.chain), t # k,
         HasContext(x, x.r.chain[t]), HasContext(x, x.r.chain[k])
  PROVE  x.of[x.r.chain[t]] # x.of[x.r.chain[k]]
<1>1. Owned(x) /\ DOMAIN x.r.chain = 1..Len(x.r.chain)
  BY WorldType, ChainType DEF Good
<1>. QED  BY <1>1 DEF Owned

\* The k-th filter's context changes, and so does what is seen of that filter alone.
LEMMA UpdateAlters ==
  ASSUME Given, NEW x, Good(x), NEW k \in 1..Len(x.r.chain), NEW o, NEW c, At(x, k, o, c),
         NEW d \in Context, NEW y, Updates(x, o, d, y)
  PROVE  /\ o \in Filters /\ x.of[o] = o /\ c = CtxOf(x, x.r.chain[k]) /\ c \in Context
         /\ c = x.ctx[o]
         /\ y \in World /\ y.r = x.r /\ y.of = x.of /\ CtxOf(y, x.r.chain[k]) = d /\ Sound(c)
         /\ \A g \in Filters : g # o => y.ctx[g] = x.ctx[g]
         /\ y.ctx[o] = d
         /\ Sights(x) \in Seq(Sight) /\ Sights(y) \in Seq(Sight) /\ Alters(Sights(x), Sights(y), k)
         /\ Len(Sights(x)) = Len(x.r.chain)
         /\ Sights(x)[k] = SeenOf(c) /\ Sights(y)[k] = SeenOf(d)
<1>1. /\ x \in World /\ Owned(x) /\ DOMAIN x.r.chain = 1..Len(x.r.chain)
      /\ \A g \in Filters : Sound(x.ctx[g])
  BY WorldType, ChainType DEF Good
<1>2. PICK f : f = x.r.chain[k] /\ HasContext(x, f) /\ o = x.of[f] /\ c = x.ctx[o]
  BY Zenon DEF At
<1>3. f \in Filters /\ o \in Filters /\ CtxOf(x, f) = c /\ c \in Context
  BY <1>1, <1>2, WorldType
<1>4. x.of[o] = o
  <2>1. x.of[f] # 0
    BY <1>2 DEF HasContext
  <2>. QED  BY <1>1, <1>2, <1>3, <2>1, Zenon DEF Owned
<1>5. /\ y \in World /\ y.r = x.r /\ y.of = x.of /\ y.ctx[o] = d
      /\ \A g \in Filters : g # o => y.ctx[g] = x.ctx[g]
      /\ \A g : HasContext(y, g) <=> HasContext(x, g)
      /\ \A g : HasContext(x, g) => CtxOf(y, g) = IF x.of[g] = o THEN d ELSE CtxOf(x, g)
  BY <1>1, <1>3, UpdateValue DEF Updates
<1>6. /\ Sights(x) \in Seq(Sight) /\ Len(Sights(x)) = Len(x.r.chain) /\ Len(x.r.chain) \in Nat
      /\ \A t \in 1..Len(x.r.chain) : Sights(x)[t] = Seen(x, x.r.chain[t])
  BY <1>1, SightsType
<1>7. /\ Sights(y) \in Seq(Sight) /\ Len(Sights(y)) = Len(x.r.chain)
      /\ \A t \in 1..Len(x.r.chain) : Sights(y)[t] = Seen(y, x.r.chain[t])
  BY <1>5, SightsType
<1>8. CtxOf(y, f) = d
  BY <1>2, <1>5
<1>9. Sights(x)[k] = SeenOf(c) /\ Sights(y)[k] = SeenOf(d)
  <2>1. HasContext(y, f) /\ Seen(x, f) = SeenOf(CtxOf(x, f)) /\ Seen(y, f) = SeenOf(CtxOf(y, f))
    BY <1>2, <1>5, SeenIs, Zenon
  <2>2. Sights(x)[k] = Seen(x, f) /\ Sights(y)[k] = Seen(y, f)
    BY <1>2, <1>6, <1>7
  <2>. QED  BY <1>3, <1>8, <2>1, <2>2, Zenon
<1>10. ASSUME NEW t \in 1..Len(x.r.chain), t # k PROVE Sights(y)[t] = Sights(x)[t]
  <2>1. PICK g : g = x.r.chain[t] /\ (HasContext(x, g) => x.of[g] # x.of[f])
    BY <1>1, <1>2, <1>10, SMTT(20) DEF Owned
  <2>2. /\ HasContext(y, g) <=> HasContext(x, g)
        /\ HasContext(x, g) => CtxOf(y, g) = CtxOf(x, g)
    BY <1>2, <1>5, <2>1
  <2>3. Seen(y, g) = Seen(x, g)
    BY <2>2, SeenIs
  <2>. QED  BY <1>6, <1>7, <2>1, <2>3, Zenon
<1>11. Alters(Sights(x), Sights(y), k)
  BY <1>6, <1>7, <1>10 DEF Alters
<1>. QED  BY <1>1, <1>2, <1>3, <1>4, <1>5, <1>6, <1>7, <1>8, <1>9, <1>11, Zenon

\* Blocks taken out of a spool are on their way to the filter above it.
LEMMA RideSpool ==
  ASSUME Given, NEW x, Good(x), NEW a, NEW b, Flow(x, a, b), NEW k \in 1..Len(x.r.chain),
         NEW n \in Nat, NEW o, NEW c, At(x, k, o, c), NEW d \in Context, NEW got, Takes(c, n, d, got),
         NEW y, Updates(x, o, d, y)
  PROVE  Riding(y, a, b, k, got) /\ got \in Brigades
<1>2. /\ c \in Context /\ y \in World /\ Sights(x) \in Seq(Sight) /\ Sights(y) \in Seq(Sight)
      /\ Alters(Sights(x), Sights(y), k) /\ Len(Sights(x)) = Len(x.r.chain)
      /\ Sights(x)[k] = SeenOf(c) /\ Sights(y)[k] = SeenOf(d)
  BY UpdateAlters
<1>3. PICK m \in Nat : /\ m <= Len(c.spool.data) /\ got \in Brigades
                       /\ got.data = SubSeq(c.spool.data, 1, m) /\ Len(got.data) = m
                       /\ got.eos => c.spool.eos /\ m = Len(c.spool.data)
                       /\ d.spool.data = SubSeq(c.spool.data, m + 1, Len(c.spool.data))
                       /\ d.spool.eos => c.spool.eos
  <2>1. c.spool \in Brigades
    BY <1>2, ContextType
  <2>2. d.spool = FromSpool(c.spool, n).left /\ got = FromSpool(c.spool, n).got
    BY <1>2 DEF Context, Takes
  <2>3. LET m == Least(n, Len(c.spool.data))
            t == FromSpool(c.spool, n)
        IN /\ m \in Nat /\ m <= Len(c.spool.data) /\ t.got \in Brigades
           /\ t.got.data = SubSeq(c.spool.data, 1, m) /\ Len(t.got.data) = m
           /\ t.got.eos => c.spool.eos /\ m = Len(c.spool.data)
           /\ t.left.data = SubSeq(c.spool.data, m + 1, Len(c.spool.data)) /\ (t.left.eos => c.spool.eos)
    BY <2>1, SpoolIs
  <2>. QED  BY <2>2, <2>3
<1>4. d.filter_error = c.filter_error /\ d.status = c.status /\ d.shown = c.shown
  BY <1>2 DEF Context, Takes
<1>10. Len(content) \in Nat /\ (~broken) \in BOOLEAN
  BY DEF Given
<1>11. PICK v \in Seq(Sight), w \in Seq(Sight), size \in Nat, whole \in BOOLEAN :
         v = Sights(x) /\ w = Sights(y) /\ size = Len(content) /\ whole = ~broken
  BY <1>2, <1>10
<1>12. PICK p : Flowing(v, p, a, b, 0, 0, size, whole)
  BY <1>11 DEF Flow, Flowing
<1>13. /\ SeenOf(c).data = c.spool.data /\ SeenOf(c).err = c.filter_error /\ SeenOf(c).shown = c.shown
       /\ SeenOf(d).data = d.spool.data /\ SeenOf(d).err = d.filter_error /\ SeenOf(d).shown = d.shown
       /\ SeenOf(c).eos = c.spool.eos /\ SeenOf(d).eos = d.spool.eos /\ SeenOf(d).parsing = SeenOf(c).parsing
  BY <1>4 DEF SeenOf
<1>14. Alters(v, w, k) /\ Shrinks(v, w, k, m) /\ v[k] = SeenOf(c)
  BY <1>2, <1>3, <1>4, <1>11, <1>13 DEF Shrinks
<1>15. PICK q : Flowing(w, q, a, b, k, m, size, whole) /\ Taken(v, k, m, p, q, size)
  BY <1>12, <1>14, CutsTake
<1>16. /\ p[k] \in Nat /\ q[k] = p[k] + m /\ got.data = Positions(p[k], m)
       /\ (got.eos => q[k] = size)
  BY <1>3, <1>13, <1>14, <1>15 DEF Taken
<1>17. q[k] - m = p[k] /\ m <= q[k]
  BY <1>16
<1>18. Rides(q, k, got)
  BY <1>3, <1>11, <1>16, <1>17 DEF Rides
<1>. QED  BY <1>3, <1>11, <1>15, <1>18 DEF Riding, Flowing

\* What got brings ends after e blocks of the body.
Carries(got, e) ==
  /\ Len(got.data) <= e /\ e <= Len(content) /\ got.data = Positions(e - Len(got.data), Len(got.data))
  /\ got.eos => e = Len(content)
Bears(x, p, a, b, h, got, e) ==
  /\ Flowing(Sights(x), p, a, b, h, Len(got.data), Len(content), ~broken)
  /\ p[h] = e /\ Carries(got, e)
Shown(v, e) == v.parsing => v.shown = <<>> \/ Last(v.shown) = e

\* Blocks on their way end where the last parser above them stopped before.
LEMMA RideRead ==
  ASSUME Given, NEW x \in World, NEW i \in 1..(Len(x.r.chain) + 1), NEW got \in Brigades, NEW a, NEW b,
         Riding(x, a, b, i, got)
  PROVE  \E p, e : /\ e \in Nat /\ Bears(x, p, a, b, i, got, e)
                   /\ \A j \in 1..Len(x.r.chain) : i = j + 1 => Shown(Sights(x)[j], e - Len(got.data))
<1>0. Sights(x) \in Seq(Sight) /\ Len(Sights(x)) = Len(x.r.chain) /\ Len(x.r.chain) \in Nat
  BY SightsType
<1>00. Len(content) \in Nat /\ (~broken) \in BOOLEAN
  BY DEF Given
<1>1. PICK v \in Seq(Sight), size \in Nat, whole \in BOOLEAN : v = Sights(x) /\ size = Len(content) /\ whole = ~broken
  BY <1>0, <1>00
<1>2. PICK m \in Nat : m = Len(got.data)
  BY DEF Brigades
<1>3. PICK p : Stream(v, p, size) /\ Cuts(v, p, a, b, i, m, size, whole) /\ Rides(p, i, got)
  BY <1>1, <1>2 DEF Riding
<1>4. PICK e \in Nat : e = p[i] /\ e <= size
  BY <1>0, <1>1, <1>3 DEF Stream
<1>5. Carries(got, e)
  BY <1>1, <1>3, <1>4 DEF Rides, Carries
<1>6. Flowing(v, p, a, b, i, m, size, whole)
  BY <1>3 DEF Flowing
<1>7. Bears(x, p, a, b, i, got, e)
  BY <1>1, <1>2, <1>4, <1>5, <1>6 DEF Bears
<1>8. ASSUME NEW j \in 1..Len(x.r.chain), i = j + 1 PROVE Shown(Sights(x)[j], e - Len(got.data))
  <2>1. j \in 1..Len(v)
    BY <1>0, <1>1
  <2>2. Stretch(v[j], p[j], Above(p, i, m, j + 1), size, whole)
    BY <1>3, <2>1 DEF Cuts
  <2>3. Above(p, i, m, j + 1) = e - m
    BY <1>4, <1>8 DEF Above
  <2>. QED  BY <1>1, <1>2, <2>2, <2>3 DEF Stretch, Shown
<1>. QED  BY <1>7, <1>8

\* A filter without a spool that has been shown the blocks lets them pass.
LEMMA RideNext ==
  ASSUME Given, NEW x \in World, NEW y \in World, NEW j \in 1..Len(x.r.chain), NEW i, i = j + 1,
         NEW got \in Brigades, NEW a, NEW b, NEW p, NEW e \in Nat, Bears(x, p, a, b, i, got, e),
         Alters(Sights(x), Sights(y), j), Quiet(Sights(x)[j]), Quiet(Sights(y)[j]), Shown(Sights(y)[j], e)
  PROVE  Riding(y, a, b, j, got)
<1>0. Sights(x) \in Seq(Sight) /\ Sights(y) \in Seq(Sight)
  BY SightsType
<1>00. Len(content) \in Nat /\ (~broken) \in BOOLEAN
  BY DEF Given
<1>1. PICK v \in Seq(Sight), w \in Seq(Sight), size \in Nat, whole \in BOOLEAN :
        v = Sights(x) /\ w = Sights(y) /\ size = Len(content) /\ whole = ~broken
  BY <1>0, <1>00
<1>2. PICK m \in Nat : m = Len(got.data)
  BY DEF Brigades
<1>3. Flowing(v, p, a, b, i, m, size, whole) /\ e = p[i] /\ Carries(got, e)
  BY <1>1, <1>2 DEF Bears
<1>4. m <= e
  BY <1>2, <1>3 DEF Carries
<1>5. Passes(v, w, j, m, p, i, e) /\ Alters(v, w, j)
  BY <1>1, <1>3, <1>4 DEF Passes, Shown
<1>6. PICK q : Flowing(w, q, a, b, j, m, size, whole) /\ Ends(q, j, e)
  BY <1>3, <1>5, CutsPass
<1>7. Rides(q, j, got)
  BY <1>3, <1>6 DEF Rides, Carries, Ends
<1>. QED  BY <1>1, <1>2, <1>6, <1>7 DEF Riding, Flowing

\* The blocks pass a filter that leaves the chain.
LEMMA RideDrop ==
  ASSUME Given, NEW x \in World, NEW y \in World, NEW u \in 1..Len(x.r.chain), NEW i, i = u + 1,
         NEW got \in Brigades, NEW a, NEW b, NEW p, NEW e \in Nat, Bears(x, p, a, b, i, got, e),
         Len(y.r.chain) = Len(x.r.chain) - 1, Quiet(Seen(x, x.r.chain[u])),
         \A t \in 1..Len(y.r.chain) : Seen(y, y.r.chain[t]) = Seen(x, x.r.chain[Away(u, t)])
  PROVE  Riding(y, a, b, u, got)
<1>0. /\ Sights(x) \in Seq(Sight) /\ Sights(y) \in Seq(Sight) /\ Len(Sights(x)) = Len(x.r.chain)
      /\ Len(Sights(y)) = Len(x.r.chain) - 1 /\ Len(x.r.chain) \in Nat
      /\ \A t \in 1..Len(x.r.chain) : Sights(x)[t] = Seen(x, x.r.chain[t])
      /\ \A t \in 1..(Len(x.r.chain) - 1) : Sights(y)[t] = Seen(y, y.r.chain[t])
  BY SightsType
<1>00. Len(content) \in Nat /\ (~broken) \in BOOLEAN
  BY DEF Given
<1>1. PICK v \in Seq(Sight), w \in Seq(Sight), size \in Nat, whole \in BOOLEAN, n \in Nat :
        v = Sights(x) /\ w = Sights(y) /\ size = Len(content) /\ whole = ~broken /\ n = Len(x.r.chain)
  BY <1>0, <1>00
<1>2. PICK m \in Nat : m = Len(got.data)
  BY DEF Brigades
<1>3. Flowing(v, p, a, b, i, m, size, whole) /\ e = p[i] /\ Carries(got, e)
  BY <1>1, <1>2 DEF Bears
<1>4. m <= e
  BY <1>2, <1>3 DEF Carries
<1>5. Nothing \in Sight /\ Quiet(Nothing) /\ ~Nothing.parsing
  BY DEF Nothing, Sight, Quiet
<1>6. PICK z \in Seq(Sight) : Alters(v, z, u) /\ z[u] = Nothing /\ Len(z) = n /\ u \in 1..n
  <2>. DEFINE z == [v EXCEPT ![u] = Nothing]
  <2>1. u \in 1..Len(v) /\ Len(v) = n
    BY <1>0, <1>1
  <2>2. z \in Seq(Sight) /\ Len(z) = Len(v) /\ z[u] = Nothing /\ \A t \in 1..Len(v) : t # u => z[t] = v[t]
    BY <1>5, <2>1
  <2>. HIDE DEF z
  <2>. QED  BY <2>1, <2>2 DEF Alters
<1>7. Passes(v, z, u, m, p, i, e)
  BY <1>0, <1>3, <1>1, <1>4, <1>5, <1>6 DEF Passes
<1>8. PICK q : Flowing(z, q, a, b, u, m, size, whole) /\ Ends(q, u, e)
  BY <1>3, <1>6, <1>7, CutsPass
<1>9. Drops(z, w, u)
  <2>1. ASSUME NEW t \in 1..(n - 1) PROVE w[t] = z[Away(u, t)] /\ w[t] \in Sight
    <3>1. Away(u, t) \in 1..n /\ Away(u, t) # u
      BY <1>6, AwayIs
    <3>2. z[Away(u, t)] = v[Away(u, t)]
      BY <1>0, <1>1, <1>6, <3>1 DEF Alters
    <3>3. w[t] = Seen(y, y.r.chain[t]) /\ v[Away(u, t)] = Seen(x, x.r.chain[Away(u, t)])
      BY <1>0, <1>1, <3>1
    <3>4. Seen(y, y.r.chain[t]) = Seen(x, x.r.chain[Away(u, t)])
      BY <1>1
    <3>5. w[t] \in Sight
      BY <1>0, <1>1
    <3>. QED  BY <3>2, <3>3, <3>4, <3>5
  <2>2. \A s \in Sight : Like(s, s)
    BY DEF Like
  <2>3. \A t \in 1..Len(w) : Like(w[t], z[Away(u, t)])
    BY <1>0, <1>1, <2>1, <2>2
  <2>. QED  BY <1>0, <1>1, <1>5, <1>6, <2>3 DEF Drops
<1>10. PICK q2 : Stream(w, q2, size) /\ Cuts(w, q2, a, b, u, m, size, whole) /\ q2[u] = q[u]
  <2>1. u \in Nat /\ u <= u
    BY <1>6
  <2>2. Stream(z, q, size) /\ Cuts(z, q, a, b, u, m, size, whole)
    BY <1>8 DEF Flowing
  <2>. QED  BY <1>9, <2>1, <2>2, CutsDrop
<1>11. Rides(q2, u, got)
  BY <1>3, <1>8, <1>10 DEF Rides, Carries, Ends
<1>. QED  BY <1>1, <1>2, <1>10, <1>11 DEF Riding

\* A filter that does not answer says nothing of the stream; one that does has a context
\* that is set up.
LEMMA QuietIs ==
  ASSUME Given, NEW x, Good(x), NEW t \in 1..Len(x.r.chain)
  PROVE  /\ ~Answering(x, t) => Quiet(Seen(x, x.r.chain[t]))
         /\ Answering(x, t) => \E o \in Filters, c \in Context : At(x, t, o, c) /\ c.status # APR_EINIT
<1>1. PICK f : f = x.r.chain[t]
  OBVIOUS
<1>2. x \in World /\ \A g \in Filters : Sound(x.ctx[g])
  BY DEF Good
<1>3. CASE ~HasContext(x, f)
  <2>1. Quiet(Nothing) /\ Seen(x, f) = Nothing
    BY <1>3, SeenIs DEF Quiet, Nothing
  <2>. QED  BY <1>1, <1>3, <2>1 DEF Answering
<1>4. CASE HasContext(x, f)
  <2>1. PICK o \in Filters, c \in Context : o = x.of[f] /\ c = x.ctx[o] /\ c = CtxOf(x, f)
    BY <1>2, <1>4, WorldType
  <2>2. Sound(c) /\ At(x, t, o, c)
    BY <1>1, <1>2, <1>4, <2>1 DEF At
  <2>3. Answering(x, t) <=> (~IsEmpty(c.spool) \/ (c.filter_error /\ c.status # APR_INCOMPLETE))
    BY <1>1, <1>4, <2>1 DEF Answering
  <2>4. Seen(x, f) = SeenOf(c)
    BY <1>4, <2>1, SeenIs
  <2>5. /\ c.filter_error => c.status = GENERAL
        /\ c.status = APR_EINIT => c.spool = NoBrigade
    BY <2>2 DEF Sound
  <2>6. GENERAL # APR_INCOMPLETE /\ GENERAL # APR_EINIT /\ IsEmpty(NoBrigade)
    BY DEF GENERAL, APR_INCOMPLETE, APR_EINIT, IsEmpty, NoBrigade
  <2>7. IsEmpty(c.spool) /\ ~c.filter_error => Quiet(SeenOf(c))
    BY DEF IsEmpty, Quiet, SeenOf
  <2>8. ~Answering(x, t) => IsEmpty(c.spool) /\ ~c.filter_error
    BY <2>3, <2>5, <2>6
  <2>9. Answering(x, t) => c.status # APR_EINIT
    BY <2>3, <2>5, <2>6
  <2>. QED  BY <1>1, <2>2, <2>4, <2>7, <2>8, <2>9
<1>. QED  BY <1>3, <1>4

\* A context that is set up is the same in a y that extends x.
LEMMA ExtendsKeeps ==
  ASSUME NEW x \in World, NEW y, Extends(x, y), NEW g, HasContext(x, g), CtxOf(x, g).status # APR_EINIT
  PROVE  HasContext(y, g) /\ CtxOf(y, g) = CtxOf(x, g) /\ y.of[g] = x.of[g]
<1>1. g \in Filters /\ x.of[g] # 0 /\ x.of[g] \in Filters
  BY WorldType DEF HasContext
<1>2. y.of[g] = x.of[g] /\ y.ctx[x.of[g]] = x.ctx[x.of[g]]
  BY <1>1 DEF Extends, CtxOf
<1>. QED  BY <1>1, <1>2 DEF HasContext, CtxOf

\* What is on its way up after ap_get_brigade has reached its source.
Moving(bb) == IF bb.ok THEN bb.got ELSE NoBrigade
Reached(x, i, y, k) ==
  /\ Good(y) /\ y.r = x.r /\ k \in i..(Len(x.r.chain) + 1)
  /\ \A g \in Filters : x.of[g] # 0 => y.of[g] = x.of[g]
  /\ \A g \in Filters : Mild(x.ctx[g], y.ctx[g])
  /\ Ready(y, k) /\ \A t \in i..(k - 1) : Ready(y, t) /\ Quiet(Seen(y, x.r.chain[t]))
  /\ \A t \in 1..Len(x.r.chain) :
       t < i /\ HasContext(x, x.r.chain[t]) /\ CtxOf(x, x.r.chain[t]).status # APR_EINIT =>
         HasContext(y, x.r.chain[t]) /\ CtxOf(y, x.r.chain[t]) = CtxOf(x, x.r.chain[t])
Asks(x, i, a, bb) ==
  /\ Reached(x, i, bb.x, bb.k) /\ bb.ok \in BOOLEAN /\ bb.got \in Brigades
  /\ Left(LeftOnNet(bb)) /\ Riding(bb.x, a, Len(content) - Len(LeftOnNet(bb)), bb.k, Moving(bb))

\* The filters above the source are prepared, and the source still answers.
LEMMA PathReaches ==
  ASSUME Given, NEW x, Good(x), x.r.used <= MaxFilters, NEW i \in Nat \ {0}, i <= Len(x.r.chain) + 1,
         Ready(x, i), NEW k, k = Source(x, i), NEW y, y = PreparedPath(x, i, k)
  PROVE  /\ Reached(x, i, y, k) /\ Extends(x, y) /\ k \in Nat /\ k >= i
         /\ k \in 1..Len(x.r.chain) =>
              \E o \in Filters, c \in Context : At(y, k, o, c) /\ c.status # APR_EINIT
<1>1. x \in World /\ Len(x.r.chain) \in Nat
  BY WorldType, ChainType DEF Good
<1>2. /\ k \in i..(Len(x.r.chain) + 1) /\ k \in Nat /\ (k > Len(x.r.chain) \/ Answering(x, k))
      /\ \A j \in i..(k - 1) : ~Answering(x, j)
  BY <1>1, SourceIs
<1>3. i <= k /\ k <= Len(x.r.chain) + 1
  BY <1>1, <1>2
<1>4. Good(y) /\ Extends(x, y) /\ \A t \in i..(k - 1) : Ready(y, t)
  BY <1>2, <1>3, PathGood
<1>5. y \in World /\ y.r = x.r
  BY <1>4 DEF Good, Extends
<1>6. k \in 1..Len(x.r.chain) =>
         \E o \in Filters, c \in Context : At(y, k, o, c) /\ c.status # APR_EINIT
  <2>1. SUFFICES ASSUME k \in 1..Len(x.r.chain)
                 PROVE  \E o \in Filters, c \in Context : At(y, k, o, c) /\ c.status # APR_EINIT
    OBVIOUS
  <2>2. PICK o \in Filters, c \in Context : At(x, k, o, c) /\ c.status # APR_EINIT
    <3>1. ~(k > Len(x.r.chain))
      BY <1>1, <2>1
    <3>2. Answering(x, k)
      BY <1>2, <3>1, Zenon
    <3>. QED  BY <2>1, <3>2, QuietIs
  <2>3. PICK f : f = x.r.chain[k] /\ HasContext(x, f) /\ o = x.of[f] /\ c = x.ctx[o] /\ CtxOf(x, f) = c
    BY <2>2, Zenon DEF At, CtxOf
  <2>4. HasContext(y, f) /\ CtxOf(y, f) = c /\ y.of[f] = o
    <3>1. HasContext(x, f) /\ CtxOf(x, f).status # APR_EINIT
      BY <2>2, <2>3, Zenon
    <3>2. HasContext(y, f) /\ CtxOf(y, f) = CtxOf(x, f) /\ y.of[f] = x.of[f]
      BY <1>1, <1>4, <3>1, ExtendsKeeps
    <3>. QED  BY <2>3, <3>2
  <2>5. At(y, k, o, c)
    BY <1>5, <2>3, <2>4, Zenon DEF At, CtxOf
  <2>. QED  BY <2>2, <2>5
<1>7. Ready(y, k)
  <2>1. SUFFICES ASSUME k \in 1..Len(x.r.chain) PROVE Ready(y, k)
    BY <1>5 DEF Ready
  <2>2. PICK o \in Filters, c \in Context : At(y, k, o, c) /\ c.status # APR_EINIT
    BY <1>6, <2>1
  <2>. QED  BY <2>2 DEF At, Ready, CtxOf
<1>8. ASSUME NEW t \in i..(k - 1) PROVE Quiet(Seen(y, x.r.chain[t]))
  <2>1. t \in 1..Len(x.r.chain) /\ ~Answering(x, t)
    BY <1>1, <1>2, <1>3
  <2>2. Quiet(Seen(x, x.r.chain[t]))
    BY <2>1, QuietIs
  <2>3. Like(Seen(y, x.r.chain[t]), Seen(x, x.r.chain[t]))
    BY <1>4 DEF Extends
  <2>. QED  BY <2>2, <2>3 DEF Quiet, Like
<1>9. \A t \in 1..Len(x.r.chain) :
        t < i /\ HasContext(x, x.r.chain[t]) /\ CtxOf(x, x.r.chain[t]).status # APR_EINIT =>
          HasContext(y, x.r.chain[t]) /\ CtxOf(y, x.r.chain[t]) = CtxOf(x, x.r.chain[t])
  BY <1>1, <1>4, ExtendsKeeps
<1>10. /\ \A g \in Filters : x.of[g] # 0 => y.of[g] = x.of[g]
       /\ \A g \in Filters : Mild(x.ctx[g], y.ctx[g])
  BY <1>4 DEF Extends
<1>11. Reached(x, i, y, k)
  BY <1>2, <1>4, <1>5, <1>7, <1>8, <1>9, <1>10 DEF Reached
<1>. QED  BY <1>2, <1>3, <1>4, <1>6, <1>11

\* The source is the connection.
LEMMA AskedNet ==
  ASSUME Given, NEW x, NEW i, NEW y, NEW k, Reached(x, i, y, k), NEW a, NEW b,
         Flow(y, a, b), b = Len(content) - Len(net), Left(net), NEW n \in Nat, NEW fresh \in Fresh(n),
         NEW ok \in BOOLEAN, k = Len(y.r.chain) + 1,
         NEW bb, bb = [x |-> y, k |-> k, got |-> fresh, ok |-> ok, net |-> ok]
  PROVE  Asks(x, i, a, bb)
<1>1. /\ bb.x = y /\ bb.k = k /\ bb.got = fresh /\ bb.ok = ok /\ bb.net = ok
  OBVIOUS
<1>2. PICK m \in Nat, b1 \in Nat :
           /\ b1 = Len(content) - Len(net) /\ m <= Len(net) /\ fresh \in Brigades /\ Len(fresh.data) = m
           /\ b1 + m <= Len(content) /\ fresh.data = Positions(b1, m)
           /\ fresh.eos => b1 + m = Len(content)
           /\ Left(SubSeq(net, m + 1, Len(net)))
           /\ Len(content) - Len(SubSeq(net, m + 1, Len(net))) = b1 + m
  BY FreshIs
<1>3. y \in World /\ Len(y.r.chain) \in Nat /\ Flow(y, a, b1)
  BY <1>2, WorldType, ChainType DEF Reached, Good
<1>4. CASE ok
  <2>1. LeftOnNet(bb) = SubSeq(net, m + 1, Len(net)) /\ Moving(bb) = fresh
    BY <1>1, <1>2, <1>4 DEF LeftOnNet, Moving
  <2>2. Riding(y, a, b1 + m, Len(y.r.chain) + 1, fresh)
    BY <1>2, <1>3, RideNet
  <2>. QED  BY <1>1, <1>2, <2>1, <2>2 DEF Asks
<1>5. CASE ~ok
  <2>1. LeftOnNet(bb) = net /\ Moving(bb) = NoBrigade
    BY <1>1, <1>5 DEF LeftOnNet, Moving
  <2>2. k \in 1..(Len(y.r.chain) + 1)
    BY <1>3
  <2>3. Riding(y, a, b1, k, NoBrigade)
    BY <1>3, <2>2, RideNothing
  <2>. QED  BY <1>1, <1>2, <2>1, <2>3 DEF Asks
<1>. QED  BY <1>4, <1>5

\* The source is a filter that reports an error, or the spool of one.
LEMMA AskedError ==
  ASSUME Given, NEW x, NEW i, NEW y, NEW k, Reached(x, i, y, k), NEW a, NEW b,
         Flow(y, a, b), b = Len(content) - Len(net), Left(net), k \in 1..Len(y.r.chain),
         NEW got \in Brigades, NEW bb, bb = [x |-> y, k |-> k, got |-> got, ok |-> FALSE, net |-> FALSE]
  PROVE  Asks(x, i, a, bb)
<1>1. bb.x = y /\ bb.k = k /\ bb.got = got /\ ~bb.ok /\ ~bb.net /\ bb.ok \in BOOLEAN
  OBVIOUS
<1>2. LeftOnNet(bb) = net /\ Moving(bb) = NoBrigade
  BY <1>1 DEF LeftOnNet, Moving
<1>3. y \in World /\ Len(y.r.chain) \in Nat
  BY WorldType, ChainType DEF Reached, Good
<1>4. k \in 1..(Len(y.r.chain) + 1)
  BY <1>3
<1>5. Riding(y, a, b, k, NoBrigade)
  BY <1>3, <1>4, RideNothing
<1>. QED  BY <1>1, <1>2, <1>5 DEF Asks

\* A spool gives up blocks.
LEMMA TakesGood ==
  ASSUME Given, NEW x, Good(x), NEW k \in 1..Len(x.r.chain), NEW o, NEW c, At(x, k, o, c),
         NEW n \in Nat, NEW d, NEW got, Takes(c, n, d, got), NEW y, Updates(x, o, d, y)
  PROVE  /\ d \in Context /\ Good(y) /\ Mild(c, d) /\ d.status = c.status
<1>1. x \in World /\ Owned(x) /\ \A g \in Filters : Sound(x.ctx[g])
  BY DEF Good
<1>2. o \in Filters /\ x.of[o] = o /\ c \in Context /\ x.ctx[o] = c /\ Sound(c)
  <2>1. PICK f : HasContext(x, f) /\ f \in Filters /\ o = x.of[f] /\ c = x.ctx[o]
    BY DEF At, HasContext
  <2>2. x.of[f] # 0
    BY <2>1 DEF HasContext
  <2>. QED  BY <1>1, <2>1, <2>2, WorldType, Zenon DEF Owned
<1>3. c.spool \in Brigades
  BY <1>2, ContextType
<1>4. PICK s \in Brigades : s = FromSpool(c.spool, n).left /\ (c.spool.data = <<>> => s.data = <<>>)
                            /\ (s.eos => c.spool.eos)
  BY <1>3, SpoolIs
<1>5. /\ d \in Context /\ d.spool = s /\ d.status = c.status /\ d.parser = c.parser /\ d.body = c.body
      /\ d.filter_error = c.filter_error /\ d.bytes_read = c.bytes_read /\ d.read_limit = c.read_limit
      /\ d.shown = c.shown
  BY <1>2, <1>4 DEF Context, Takes
<1>6. c.status = APR_EINIT => s = NoBrigade
  <2>1. SUFFICES ASSUME c.spool = NoBrigade PROVE s = NoBrigade
    BY <1>2 DEF Sound
  <2>2. s.data = <<>> /\ ~s.eos
    BY <1>4, <2>1 DEF NoBrigade
  <2>3. s = [data |-> s.data, eos |-> s.eos] /\ s.eos \in BOOLEAN
    BY DEF Brigades
  <2>. QED  BY <2>2, <2>3 DEF NoBrigade
<1>7. Sound(d)
  BY <1>2, <1>5, <1>6 DEF Sound
<1>8. Settled(c, d) /\ Mild(c, d)
  BY <1>5 DEF Settled, Mild, Lazy, Shows
<1>9. Holds(x, o, d)
  BY <1>2, <1>4, <1>5 DEF Holds
<1>10. PICK z : z = [x EXCEPT !.ctx[o] = d]
  OBVIOUS
<1>11. Good(z)
  BY <1>2, <1>5, <1>7, <1>8, <1>9, <1>10, UpdateGood
<1>. QED  BY <1>5, <1>8, <1>10, <1>11 DEF Updates

\* A read that ends at a spool.
LEMMA AskedSpool ==
  ASSUME Given, NEW x, NEW i \in Nat \ {0}, NEW y, NEW k, Reached(x, i, y, k), NEW a, NEW b,
         Flow(y, a, b), b = Len(content) - Len(net), Left(net), k \in 1..Len(y.r.chain),
         NEW n \in Nat, NEW o, NEW c, At(y, k, o, c), c.status # APR_EINIT,
         \A g \in Filters : x.ctx[g] \in Context,
         NEW d, NEW got, Takes(c, n, d, got), NEW z, Updates(y, o, d, z),
         NEW bb, bb = [x |-> z, k |-> k, got |-> got, ok |-> TRUE, net |-> FALSE]
  PROVE  Asks(x, i, a, bb)
<1>1. bb.x = z /\ bb.k = k /\ bb.got = got /\ bb.ok = TRUE /\ ~bb.net
  OBVIOUS
<1>2. LeftOnNet(bb) = net /\ Moving(bb) = got
  BY <1>1 DEF LeftOnNet, Moving
<1>3. Good(y) /\ y \in World /\ Len(y.r.chain) \in Nat /\ DOMAIN y.r.chain = 1..Len(y.r.chain) /\ Owned(y)
  BY WorldType, ChainType DEF Reached, Good
<1>4. d \in Context /\ Good(z) /\ Mild(c, d) /\ d.status = c.status
  BY <1>3, TakesGood
<1>5. Riding(z, a, b, k, got) /\ got \in Brigades
  BY <1>3, <1>4, RideSpool
<1>6. PICK f : f = y.r.chain[k] /\ HasContext(y, f) /\ f \in Filters /\ y.of[f] # 0 /\ o = y.of[f] /\ c = y.ctx[o]
  BY Zenon DEF At, HasContext
<1>7. o \in Filters /\ c = CtxOf(y, f)
  BY <1>3, <1>6, WorldType, Zenon
<1>8. /\ z \in World /\ z.r = y.r /\ z.of = y.of /\ z.ctx[o] = d
      /\ \A g \in Filters : g # o => z.ctx[g] = y.ctx[g]
      /\ \A g : HasContext(z, g) <=> HasContext(y, g)
      /\ \A g : HasContext(y, g) => CtxOf(z, g) = IF y.of[g] = o THEN d ELSE CtxOf(y, g)
  BY <1>3, <1>4, <1>7, UpdateIs
<1>9. /\ y.r = x.r /\ k \in i..(Len(x.r.chain) + 1)
      /\ \A g \in Filters : x.of[g] # 0 => y.of[g] = x.of[g]
      /\ \A g \in Filters : Mild(x.ctx[g], y.ctx[g])
      /\ Ready(y, k) /\ \A t \in i..(k - 1) : Ready(y, t) /\ Quiet(Seen(y, x.r.chain[t]))
      /\ \A t \in 1..Len(x.r.chain) :
           t < i /\ HasContext(x, x.r.chain[t]) /\ CtxOf(x, x.r.chain[t]).status # APR_EINIT =>
             HasContext(y, x.r.chain[t]) /\ CtxOf(y, x.r.chain[t]) = CtxOf(x, x.r.chain[t])
  BY DEF Reached
<1>10. ASSUME NEW t \in 1..Len(x.r.chain), t # k
       PROVE  /\ Seen(z, x.r.chain[t]) = Seen(y, x.r.chain[t])
              /\ HasContext(y, x.r.chain[t]) => CtxOf(z, x.r.chain[t]) = CtxOf(y, x.r.chain[t])
  <2>0. HasContext(y, y.r.chain[t]) => y.of[y.r.chain[t]] # y.of[y.r.chain[k]]
    <3>1. t \in 1..Len(y.r.chain) /\ HasContext(y, y.r.chain[k])
      BY <1>6, <1>9, <1>10, Zenon
    <3>. QED  BY <1>3, <1>10, <3>1, Apart
  <2>1. PICK g : g = y.r.chain[t] /\ (HasContext(y, g) => y.of[g] # y.of[f])
    BY <1>6, <2>0, Zenon
  <2>2. HasContext(y, g) => CtxOf(z, g) = CtxOf(y, g)
    BY <1>6, <1>8, <2>1, Zenon
  <2>3. HasContext(z, g) <=> HasContext(y, g)
    BY <1>8
  <2>4. Seen(z, g) = Seen(y, g)
    BY <2>2, <2>3, SeenIs
  <2>. QED  BY <1>9, <2>1, <2>2, <2>4
<1>11. ASSUME NEW t \in 1..Len(x.r.chain), Ready(y, t) PROVE Ready(z, t)
  <2>1. ASSUME NEW g, HasContext(y, g), CtxOf(y, g).status # APR_EINIT
        PROVE  HasContext(z, g) /\ CtxOf(z, g).status # APR_EINIT
    BY <1>4, <1>8, <2>1
  <2>. QED  BY <1>8, <1>9, <1>11, <2>1 DEF Ready
<1>12. k \in 1..Len(x.r.chain) /\ \A t \in i..(k - 1) : t \in 1..Len(x.r.chain) /\ t # k
  BY <1>3, <1>9
<1>13. ASSUME NEW g \in Filters PROVE Mild(x.ctx[g], z.ctx[g])
  <2>1. CASE g # o
    BY <1>8, <1>9, <2>1
  <2>2. CASE g = o
    <3>1. Mild(x.ctx[o], c) /\ x.ctx[o] \in Context /\ c \in Context
      BY <1>3, <1>6, <1>7, <1>9, WorldType
    <3>2. Mild(x.ctx[o], d)
      BY <1>4, <3>1, MovesTrans
    <3>. QED  BY <1>8, <2>2, <3>2, Zenon
  <2>. QED  BY <2>1, <2>2
<1>14. \A t \in 1..Len(x.r.chain) :
         t < i /\ HasContext(x, x.r.chain[t]) /\ CtxOf(x, x.r.chain[t]).status # APR_EINIT =>
           HasContext(z, x.r.chain[t]) /\ CtxOf(z, x.r.chain[t]) = CtxOf(x, x.r.chain[t])
  <2>1. \A t \in 1..Len(x.r.chain) : t < i => t # k
    BY <1>3, <1>9
  <2>. QED  BY <1>8, <1>9, <1>10, <2>1
<1>15. Reached(x, i, z, k)
  BY <1>4, <1>8, <1>9, <1>10, <1>11, <1>12, <1>13, <1>14 DEF Reached
<1>. QED  BY <1>1, <1>2, <1>5, <1>15 DEF Asks

\* A read brings blocks that are the next ones of the stream, or fails.
LEMMA Asked ==
  ASSUME Given, NEW x, Good(x), x.r.used <= MaxFilters, NEW i \in Nat \ {0}, i <= Len(x.r.chain) + 1,
         Ready(x, i), NEW a, NEW b, Flow(x, a, b), b = Len(content) - Len(net), Left(net),
         NEW n \in Nat, NEW fresh \in Fresh(n), NEW ok \in BOOLEAN
  PROVE  Asks(x, i, a, AskSource(x, i, n, fresh, ok))
<1>1. PICK k : k = Source(x, i)
  OBVIOUS
<1>2. PICK y : y = PreparedPath(x, i, k)
  OBVIOUS
<1>3. PICK bb : bb = FromSource(y, k, n, fresh, ok)
  OBVIOUS
<1>4. bb = AskSource(x, i, n, fresh, ok)
  BY <1>1, <1>2, <1>3 DEF AskSource
<1>5. /\ Reached(x, i, y, k) /\ Extends(x, y) /\ k \in Nat /\ k >= i
      /\ k \in 1..Len(x.r.chain) =>
           \E o \in Filters, c \in Context : At(y, k, o, c) /\ c.status # APR_EINIT
  BY <1>1, <1>2, PathReaches
<1>6. x \in World /\ y \in World /\ y.r = x.r /\ Len(x.r.chain) \in Nat /\ k \in i..(Len(x.r.chain) + 1)
      /\ \A g \in Filters : x.ctx[g] \in Context
  BY <1>5, WorldType, ChainType DEF Reached, Good
<1>7. Flow(y, a, b)
  BY <1>5, <1>6, ExtendsTrans
<1>8. CASE k > Len(x.r.chain)
  <2>1. k = Len(y.r.chain) + 1
    BY <1>6, <1>8
  <2>2. bb = [x |-> y, k |-> k, got |-> fresh, ok |-> ok, net |-> ok]
    BY <1>3, <1>6, <1>8, Zenon DEF FromSource
  <2>. QED  BY <1>4, <1>5, <1>7, <2>1, <2>2, AskedNet
<1>9. CASE ~(k > Len(x.r.chain))
  <2>1. k \in 1..Len(y.r.chain) /\ k \in 1..Len(x.r.chain)
    BY <1>6, <1>9
  <2>2. PICK o \in Filters, c \in Context : At(y, k, o, c) /\ c.status # APR_EINIT
    BY <1>5, <2>1, Zenon
  <2>3. o = y.of[y.r.chain[k]] /\ c = y.ctx[o]
    BY <2>2 DEF At
  <2>4. PICK got : got = FromSpool(c.spool, n).got
    OBVIOUS
  <2>5. got \in Brigades
    <3>1. c.spool \in Brigades
      BY ContextType
    <3>. QED  BY <2>4, <3>1, SpoolIs
  <2>6. bb = [x |-> IF IsEmpty(c.spool) THEN y ELSE [y EXCEPT !.ctx[o].spool = FromSpool(c.spool, n).left],
              k |-> k, got |-> got, ok |-> ~IsEmpty(c.spool), net |-> FALSE]
    <3>1. bb = LET of == y.of[y.r.chain[k]]
                   spool == y.ctx[of].spool
               IN [x |-> IF IsEmpty(spool) THEN y
                         ELSE [y EXCEPT !.ctx[of].spool = FromSpool(spool, n).left],
                   k |-> k, got |-> FromSpool(spool, n).got, ok |-> ~IsEmpty(spool), net |-> FALSE]
      BY <1>3, <1>6, <1>9, Zenon DEF FromSource
    <3>. QED  BY <2>3, <2>4, <3>1, Zenon
  <2>7. CASE IsEmpty(c.spool)
    <3>1. bb = [x |-> y, k |-> k, got |-> got, ok |-> FALSE, net |-> FALSE]
      BY <2>6, <2>7
    <3>. QED  BY <1>4, <1>5, <1>7, <2>1, <2>5, <3>1, AskedError
  <2>8. CASE ~IsEmpty(c.spool)
    <3>1. PICK d : d = [c EXCEPT !.spool = FromSpool(c.spool, n).left]
      OBVIOUS
    <3>2. PICK z : z = [y EXCEPT !.ctx[o] = d]
      BY Zenon
    <3>3. z = [y EXCEPT !.ctx[o].spool = FromSpool(c.spool, n).left]
      BY <2>3, <3>1, <3>2, Zenon
    <3>4. bb = [x |-> z, k |-> k, got |-> got, ok |-> TRUE, net |-> FALSE]
      BY <2>6, <2>8, <3>3
    <3>5. Takes(c, n, d, got) /\ Updates(y, o, d, z)
      BY <2>4, <3>1, <3>2, Zenon DEF Takes, Updates
    <3>. QED  BY <1>4, <1>5, <1>6, <1>7, <2>1, <2>2, <3>4, <3>5, AskedSpool
  <2>. QED  BY <2>7, <2>8
<1>. QED  BY <1>8, <1>9

-----------------------------------------------------------------------------
(* A parser gets blocks.                                                   *)

\* What follows on a stretch makes it longer.
LEMMA ShownOn ==
  ASSUME NEW s \in Seq(Places), Consecutive(s), NEW t \in Seq(Places), NEW e \in Nat, Len(t) <= e,
         t = Positions(e - Len(t), Len(t)), s = <<>> \/ Last(s) = e - Len(t), Places \subseteq Nat \ {0}
  PROVE  /\ s \o t \in Seq(Places) /\ Len(s \o t) = Len(s) + Len(t) /\ Consecutive(s \o t)
         /\ s \o t = <<>> \/ Last(s \o t) = e
         /\ \A i \in 1..Len(t) : t[i] \in Range(s \o t)
<1>1. PICK l \in Nat, m \in Nat, from \in Nat : l = Len(s) /\ m = Len(t) /\ from = e - m /\ from + m = e
  OBVIOUS
<1>2. s \o t \in Seq(Places) /\ Len(s \o t) = l + m /\ \A i \in 1..m : (s \o t)[l + i] = t[i]
  BY <1>1
<1>3. ASSUME NEW i \in 1..Len(t) PROVE t[i] \in Range(s \o t)
  <2>1. l + i \in 1..(l + m) /\ (s \o t)[l + i] = t[i]
    BY <1>1, <1>2
  <2>2. DOMAIN (s \o t) = 1..(l + m)
    BY <1>2
  <2>. QED  BY <2>1, <2>2 DEF Range
<1>4. CASE s = <<>>
  <2>1. s \o t = t
    BY <1>4
  <2>2. CASE m = 0
    <3>1. t = <<>>
      <4>1. t = Positions(from, 0)
        BY <1>1, <2>2
      <4>. QED  BY <4>1, NoPositions
    <3>. QED  BY <1>1, <1>2, <1>3, <2>1, <3>1 DEF Consecutive
  <2>3. CASE m # 0
    <3>1. t = Positions(from, m) /\ t[1] = from + 1 /\ Last(t) = from + m
      <4>1. t = Positions(from, m)
        BY <1>1
      <4>. QED  BY <2>3, <4>1, PositionsLast
    <3>2. t[1] - 1 = from
      BY <3>1
    <3>3. Consecutive(t)
      BY <1>1, <3>1, <3>2 DEF Consecutive
    <3>. QED  BY <1>1, <1>2, <1>3, <2>1, <3>1, <3>3
  <2>. QED  BY <2>2, <2>3
<1>5. CASE s # <<>>
  <2>1. PICK b \in Nat : b = s[1] - 1 /\ l # 0 /\ s = Positions(b, l) /\ s[1] \in Nat /\ b + 1 = s[1]
    <3>1. l # 0 /\ 1 \in 1..l
      BY <1>1, <1>5
    <3>2. s[1] \in Places
      BY <1>1, <3>1
    <3>3. s[1] \in Nat \ {0}
      BY <3>2
    <3>4. s[1] - 1 \in Nat
      BY <3>3
    <3>. QED  BY <1>1, <1>5, <3>1, <3>3, <3>4 DEF Consecutive
  <2>2. b + l = from
    <3>1. Last(s) = b + l
      BY <2>1, PositionsLast
    <3>2. Last(s) = from
      BY <1>1, <1>5
    <3>. QED  BY <3>1, <3>2
  <2>3. t = Positions(b + l, m)
    <3>1. t = Positions(from, m)
      BY <1>1
    <3>. QED  BY <2>2, <3>1
  <2>4. s \o t = Positions(b, l + m)
    <3>1. Positions(b, l) \o Positions(b + l, m) = Positions(b, l + m)
      BY PositionsJoin
    <3>. QED  BY <2>1, <2>3, <3>1
  <2>5. l + m # 0 /\ l + m \in Nat /\ b + (l + m) = e
    <3>1. l # 0 /\ from + m = e
      BY <1>1, <2>1
    <3>. QED  BY <2>2, <3>1
  <2>6. (s \o t)[1] = b + 1 /\ Last(s \o t) = b + (l + m)
    BY <2>4, <2>5, PositionsLast
  <2>7. (s \o t)[1] - 1 = b
    BY <2>6
  <2>8. Consecutive(s \o t)
    BY <1>2, <2>4, <2>7 DEF Consecutive
  <2>. QED  BY <1>1, <1>2, <1>3, <2>5, <2>6, <2>8
<1>. QED  BY <1>4, <1>5

\* A parser of a filter runs on the blocks of got.
LEMMA RunIs ==
  ASSUME Given, NEW c \in Context, c.parser # None, NEW got \in Brigades, NEW key
  PROVE  LET run == RunOn(c, got, key)
         IN /\ run.parser \in Parser /\ run.parser # None
            /\ run.rv \in {GENERAL, APR_SUCCESS, APR_INCOMPLETE}
            /\ run.parser.hook = c.parser.hook
            /\ run.parser.st = "complete" => run.rv = APR_SUCCESS
            /\ run.rv = APR_SUCCESS =>
                 \/ c.parser.st = "complete" \/ got.eos
                 \/ \E i \in 1..Len(got.data) : content[got.data[i]].kind = "last"
            /\ run.t \in Seq(Param) /\ Grows(c.body, run.t) /\ run.found \in Param \cup {None}
<1>1. PICK p : p = c.parser /\ p \in Parsers({NoLimit}, {None})
  BY ContextType DEF Parser
<1>2. PICK bl : bl = BlocksAt(got.data)
  OBVIOUS
<1>3. got.data \in Seq(Places) /\ got.eos \in BOOLEAN /\ c.body \in Seq(Param)
  BY ContextType DEF Brigades
<1>4. bl \in Seq(Block) /\ DOMAIN bl = 1..Len(got.data)
      /\ \A i \in 1..Len(got.data) : bl[i] = content[got.data[i]]
  <2>1. content \in Seq(Block) /\ \A i \in 1..Len(got.data) : got.data[i] \in 1..Len(content)
    BY <1>3 DEF Given, Places
  <2>2. DOMAIN got.data = 1..Len(got.data) /\ Len(got.data) \in Nat
    BY <1>3
  <2>3. bl = [i \in 1..Len(got.data) |-> content[got.data[i]]]
    BY <1>2, <2>2 DEF BlocksAt
  <2>4. \A i \in 1..Len(got.data) : content[got.data[i]] \in Block
    BY <2>1
  <2>. QED  BY <2>2, <2>3, <2>4
<1>5. PICK run : run = apreq_parser_run(p, c.body, bl, got.eos, key) /\ run = RunOn(c, got, key)
  BY <1>1, <1>2 DEF RunOn
<1>14. PICK bl1 \in Seq(Block), eos \in BOOLEAN, body \in Seq(Param), p1 \in Parsers({NoLimit}, {None}) :
         bl1 = bl /\ eos = got.eos /\ body = c.body /\ p1 = p
  BY <1>1, <1>3, <1>4
<1>15. PICK run1 : run1 = apreq_parser_run(p1, body, bl1, eos, key)
  OBVIOUS
<1>16. /\ run1.parser \in Parsers({NoLimit}, {None})
       /\ run1.rv \in {GENERAL, APR_SUCCESS, APR_INCOMPLETE}
       /\ RunKeeps(p1, run1) /\ RunEnds(p1, bl1, eos, run1)
       /\ \E es \in Seq(Param) : RunAdds(p1, body, key, run1, es)
  BY <1>15, ParserRun
<1>6. /\ run.parser \in Parsers({NoLimit}, {None})
      /\ run.rv \in {GENERAL, APR_SUCCESS, APR_INCOMPLETE}
      /\ RunKeeps(p, run) /\ RunEnds(p, bl, got.eos, run)
      /\ \E es \in Seq(Param) : RunAdds(p, c.body, key, run, es)
  BY <1>5, <1>14, <1>15, <1>16
<1>7. PICK es \in Seq(Param) : RunAdds(p, c.body, key, run, es)
  BY <1>6
<1>8. run.t = c.body \o es /\ run.found = apreq_hook_find_param(es, key)
  BY <1>7 DEF RunAdds
<1>9. run.t \in Seq(Param) /\ Grows(c.body, run.t)
  <2>1. PICK s \in Seq(Param) : s = c.body
    BY <1>3
  <2>2. s \o es \in Seq(Param) /\ Len(s) <= Len(s \o es) /\ s = SubSeq(s \o es, 1, Len(s))
    OBVIOUS
  <2>. QED  BY <1>8, <2>1, <2>2 DEF Grows
<1>10. run.found \in Param \cup {None}
  BY <1>8, TableGet
<1>11. run.parser \in Parser /\ run.parser # None
  BY <1>6, Nulls DEF Parser
<1>12. run.parser.hook = c.parser.hook
  BY <1>1, <1>6 DEF RunKeeps
<1>13. /\ run.parser.st = "complete" => run.rv = APR_SUCCESS
       /\ run.rv = APR_SUCCESS =>
            \/ c.parser.st = "complete" \/ got.eos
            \/ \E i \in 1..Len(got.data) : content[got.data[i]].kind = "last"
  BY <1>1, <1>4, <1>6 DEF RunEnds
<1>. QED  BY <1>5, <1>6, <1>9, <1>10, <1>11, <1>12, <1>13

\* Feeding a parser keeps its context sound, within the limit, and shows it the next blocks.
LEMMA FeedIs ==
  ASSUME Given, NEW c \in Context, Sound(c), c.status = APR_INCOMPLETE, NEW got \in Brigades,
         NEW e \in Nat, Carries(got, e), c.shown = <<>> \/ Last(c.shown) = e - Len(got.data), NEW key
  PROVE  LET d == Feed(c, got, key)
         IN /\ d \in Context /\ Sound(d) /\ Fed(c, d) /\ Settled(c, d)
            /\ d.status \in {APR_INCOMPLETE, APR_SUCCESS, GENERAL, OVERLIMIT}
            /\ d.spool = c.spool /\ d.filter_error = FALSE /\ Shown(SeenOf(d), e)
            /\ d.parser # None /\ d.parser.hook = c.parser.hook
            /\ FoundIn(c, got, key) \in Param \cup {None}
<1>1. /\ c.parser # None /\ c.parser \in Parser /\ c.parser.st # "complete" /\ c.body \in Seq(Param)
      /\ c.filter_error = FALSE /\ c.shown \in Seq(Places) /\ Consecutive(c.shown)
      /\ c.bytes_read \in Nat /\ c.read_limit \in Nat /\ Len(c.shown) <= c.bytes_read
  BY ContextType DEF Sound, APR_INCOMPLETE, GENERAL
<1>2. PICK m \in Nat, t \in Seq(Places) : /\ t = got.data /\ m = Len(t) /\ m <= e
                                          /\ t = Positions(e - Len(t), Len(t)) /\ (got.eos => e = Len(content))
  BY DEF Brigades, Carries
<1>3. PICK s \in Seq(Places), b \in Nat, l \in Nat :
        s = c.shown /\ b = c.bytes_read /\ l = c.read_limit /\ Len(s) <= b
  BY <1>1
<1>4. Places \subseteq Nat \ {0}
  BY DEF Places
<1>5. /\ s \o t \in Seq(Places) /\ Len(s \o t) = Len(s) + Len(t) /\ Consecutive(s \o t)
      /\ s \o t = <<>> \/ Last(s \o t) = e
      /\ \A i \in 1..Len(t) : t[i] \in Range(s \o t)
  BY <1>1, <1>2, <1>3, <1>4, ShownOn
<1>6. b + m \in Nat /\ Len(s) <= b + m /\ Len(s \o t) <= b + m
  <2>1. PICK k \in Nat, j \in Nat : k = Len(s) /\ j = Len(s \o t) /\ k <= b /\ j = k + m
    <3>1. Len(s) \in Nat /\ Len(s) <= b /\ Len(s) + Len(t) \in Nat
      BY <1>3
    <3>2. Len(t) = m
      BY <1>2
    <3>3. Len(s \o t) = Len(s) + Len(t)
      BY <1>5
    <3>. HIDE <1>2, <1>3
    <3>. QED  BY <3>1, <3>2, <3>3
  <2>. QED  BY <2>1
<1>7. PICK run : run = RunOn(c, got, key)
  OBVIOUS
<1>8. /\ run.parser \in Parser /\ run.parser # None
      /\ run.rv \in {GENERAL, APR_SUCCESS, APR_INCOMPLETE}
      /\ run.parser.hook = c.parser.hook
      /\ run.parser.st = "complete" => run.rv = APR_SUCCESS
      /\ run.rv = APR_SUCCESS =>
           \/ c.parser.st = "complete" \/ got.eos
           \/ \E i \in 1..Len(got.data) : content[got.data[i]].kind = "last"
      /\ run.t \in Seq(Param) /\ Grows(c.body, run.t) /\ run.found \in Param \cup {None}
  BY <1>1, <1>7, RunIs
<1>9. FoundIn(c, got, key) \in Param \cup {None}
  <2>1. FoundIn(c, got, key) = None \/ FoundIn(c, got, key) = RunOn(c, got, key).found
    BY Zenon DEF FoundIn
  <2>2. RunOn(c, got, key).found \in Param \cup {None}
    BY <1>7, <1>8, Zenon
  <2>. QED  BY <2>1, <2>2
<1>10. PICK d : d = Feed(c, got, key)
  OBVIOUS
<1>11. CASE b + m > l
  <2>1. d = [[c EXCEPT !.bytes_read = @ + Len(got.data)] EXCEPT !.status = OVERLIMIT]
    <3>1. [c EXCEPT !.bytes_read = @ + Len(got.data)].bytes_read = b + m
      BY <1>2, <1>3 DEF Context
    <3>. QED  BY <1>3, <1>10, <1>11, <3>1 DEF Feed
  <2>2. /\ d \in Context /\ d.status = OVERLIMIT /\ d.bytes_read = b + m /\ d.spool = c.spool /\ d.parser = c.parser
        /\ d.body = c.body /\ d.shown = c.shown /\ d.filter_error = c.filter_error /\ d.read_limit = c.read_limit
    <3>1. OVERLIMIT \in Statuses /\ c.bytes_read + Len(got.data) = b + m
      BY <1>2, <1>3 DEF Statuses
    <3>. QED  BY <1>6, <2>1, <3>1 DEF Context
  <2>3. Sound(d)
    BY <1>1, <1>3, <1>6, <2>2 DEF Sound, OVERLIMIT, APR_EINIT, APR_INCOMPLETE, INTERRUPT, APR_SUCCESS, GENERAL
  <2>4. Grows(c.body, c.body)
    BY <1>1, GrowsSame
  <2>5. Fed(c, d)
    BY <2>2, <2>4 DEF Fed, Lazy, Shows, OVERLIMIT, INTERRUPT, APR_INCOMPLETE
  <2>6. Settled(c, d)
    BY <2>2 DEF Settled, Finished, OVERLIMIT, APR_EINIT
  <2>7. Shown(SeenOf(d), e)
    BY <2>2 DEF Shown, SeenOf, OVERLIMIT, APR_INCOMPLETE, INTERRUPT
  <2>. QED  BY <1>1, <1>9, <1>10, <2>2, <2>3, <2>5, <2>6, <2>7
<1>12. CASE ~(b + m > l)
  <2>1. d = [[c EXCEPT !.bytes_read = @ + Len(got.data)] EXCEPT
               !.status = run.rv, !.parser = run.parser, !.body = run.t, !.shown = @ \o got.data]
    <3>1. [c EXCEPT !.bytes_read = @ + Len(got.data)].bytes_read = b + m
      BY <1>2, <1>3 DEF Context
    <3>. QED  BY <1>3, <1>7, <1>10, <1>12, <3>1 DEF Feed, Ran
  <2>2. /\ d \in Context /\ d.status = run.rv /\ d.bytes_read = b + m /\ d.spool = c.spool /\ d.parser = run.parser
        /\ d.body = run.t /\ d.shown = s \o t /\ d.filter_error = c.filter_error /\ d.read_limit = c.read_limit
    <3>1. run.rv \in Statuses /\ c.bytes_read + Len(got.data) = b + m /\ c.shown \o got.data = s \o t
      BY <1>2, <1>3, <1>8 DEF Statuses
    <3>. QED  BY <1>5, <1>6, <1>8, <2>1, <3>1 DEF Context
  <2>3. d.status = APR_SUCCESS /\ d.shown # <<>> => SawTheEnd(d.shown)
    <3>1. SUFFICES ASSUME run.rv = APR_SUCCESS, s \o t # <<>> PROVE SawTheEnd(s \o t)
      BY <2>2
    <3>2. got.eos \/ \E i \in 1..Len(t) : content[t[i]].kind = "last"
      BY <1>1, <1>2, <1>8, <3>1
    <3>3. CASE got.eos
      BY <1>2, <1>5, <3>1, <3>3 DEF SawTheEnd
    <3>4. CASE \E i \in 1..Len(t) : content[t[i]].kind = "last"
      BY <1>5, <3>4 DEF SawTheEnd
    <3>. QED  BY <3>2, <3>3, <3>4
  <2>4. Sound(d)
    BY <1>1, <1>5, <1>6, <1>8, <2>2, <2>3 DEF Sound, APR_EINIT, APR_INCOMPLETE, INTERRUPT, APR_SUCCESS, GENERAL
  <2>5. Fed(c, d)
    <3>1. Len(d.shown) <= d.read_limit
      BY <1>3, <1>5, <1>6, <1>12, <2>2
    <3>2. Lazy(c, d)
      BY <1>8, <2>2 DEF Lazy, Shows, INTERRUPT, APR_INCOMPLETE, APR_SUCCESS, GENERAL
    <3>. QED  BY <2>2, <3>1, <3>2 DEF Fed
  <2>6. Settled(c, d)
    BY <1>8, <2>2 DEF Settled, Finished, APR_EINIT, APR_INCOMPLETE, APR_SUCCESS, GENERAL, OVERLIMIT, NODATA, NOPARSER, NOHEADER, BADHEADER
  <2>7. Shown(SeenOf(d), e)
    BY <1>5, <2>2 DEF Shown, SeenOf
  <2>. QED  BY <1>1, <1>8, <1>9, <1>10, <2>2, <2>4, <2>5, <2>6, <2>7
<1>. QED  BY <1>11, <1>12

\* z is x when what got brings has come up to the j-th filter.
Passing(x, j, z, a, b, got) ==
  /\ Good(z) /\ z.of = x.of /\ z.r.f = x.r.f /\ z.r.used = x.r.used
  /\ j \in Nat \ {0} /\ j <= Len(z.r.chain) + 1 /\ Ready(z, j)
  /\ \A t \in 1..(j - 1) :
       /\ z.r.chain[t] = x.r.chain[t]
       /\ HasContext(x, x.r.chain[t]) => CtxOf(z, x.r.chain[t]) = CtxOf(x, x.r.chain[t])
  /\ \A g \in Filters : Fed(x.ctx[g], z.ctx[g])
  /\ Riding(z, a, b, j, got)
\* The j-th filter, f in x and in z, has not answered.
Meets(x, j, z, f) ==
  /\ j \in 1..Len(z.r.chain) /\ f = z.r.chain[j] /\ Ready(z, j) /\ Quiet(Seen(z, f)) /\ x.ctx \in [Filters -> Context]
  /\ \A t \in 1..(j - 1) : t \in 1..j

\* On the way back the next filter is still where it was prepared.
LEMMA PassingMeets ==
  ASSUME Given, NEW x, Good(x), NEW z, NEW i, NEW j \in Nat \ {0}, i = j + 1, NEW a, NEW b, NEW got,
         Passing(x, i, z, a, b, got), Ready(x, j), j \in 1..Len(x.r.chain), NEW f, f = x.r.chain[j], Quiet(Seen(x, f))
  PROVE  Meets(x, j, z, f)
<1>1. x \in World /\ z \in World /\ x.ctx \in [Filters -> Context] /\ z.of = x.of
  BY WorldType DEF Good, Passing
<1>2. Len(z.r.chain) \in Nat /\ j \in 1..Len(z.r.chain) /\ j \in 1..(i - 1)
  BY <1>1, WorldType, ChainType DEF Passing
<1>3. z.r.chain[j] = f /\ (HasContext(x, f) => CtxOf(z, f) = CtxOf(x, f))
  BY <1>2 DEF Passing
<1>4. HasContext(z, f) <=> HasContext(x, f)
  BY <1>1 DEF HasContext
<1>5. Seen(z, f) = Seen(x, f)
  BY <1>3, <1>4, SeenIs
<1>6. Ready(z, j)
  BY <1>2, <1>3, <1>4 DEF Ready
<1>7. \A t \in 1..(j - 1) : t \in 1..j
  OBVIOUS
<1>. QED  BY <1>1, <1>2, <1>3, <1>5, <1>6, <1>7 DEF Meets

\* A filter that is not parsing, or has nothing to parse, stays as it is.
LEMMA PassStay ==
  ASSUME Given, NEW x, NEW z, NEW i, NEW j \in Nat, i = j + 1, NEW a, NEW b, NEW got \in Brigades,
         Passing(x, i, z, a, b, got), NEW f, Meets(x, j, z, f), ~HasContext(z, f) \/ got = NoBrigade
  PROVE  Passing(x, j, z, a, b, got)
<1>1. z \in World /\ j \in 1..Len(z.r.chain) /\ Len(z.r.chain) \in Nat
  BY WorldType, ChainType DEF Good, Passing, Meets
<1>2. /\ Sights(z) \in Seq(Sight) /\ Len(Sights(z)) = Len(z.r.chain) /\ Sights(z)[j] = Seen(z, f)
  BY <1>1, SightsType DEF Meets
<1>3. Alters(Sights(z), Sights(z), j)
  BY <1>1, <1>2 DEF Alters
<1>4. i \in 1..(Len(z.r.chain) + 1) /\ Riding(z, a, b, i, got)
  BY <1>1 DEF Passing
<1>5. PICK p, e : /\ e \in Nat /\ Bears(z, p, a, b, i, got, e)
                  /\ \A t \in 1..Len(z.r.chain) : i = t + 1 => Shown(Sights(z)[t], e - Len(got.data))
  BY <1>1, <1>4, RideRead
<1>6. Shown(Sights(z)[j], e)
  <2>1. CASE got = NoBrigade
    <3>1. Len(got.data) = 0 /\ e - 0 = e
      BY <1>5, <2>1 DEF NoBrigade
    <3>2. Shown(Sights(z)[j], e - Len(got.data))
      BY <1>1, <1>5
    <3>. QED  BY <3>1, <3>2
  <2>2. CASE ~HasContext(z, f)
    BY <1>2, <2>2, SeenIs DEF Nothing, Shown
  <2>. QED  BY <2>1, <2>2
<1>7. Quiet(Sights(z)[j])
  BY <1>2 DEF Meets
<1>8. Riding(z, a, b, j, got)
  BY <1>1, <1>3, <1>5, <1>6, <1>7, RideNext
<1>9. j \in Nat \ {0} /\ j <= Len(z.r.chain) + 1 /\ Ready(z, j) /\ \A t \in 1..(j - 1) : t \in 1..(i - 1)
  BY <1>1 DEF Meets
<1>. QED  BY <1>8, <1>9 DEF Passing

\* A filter that is parsing gives the blocks to its parser.
LEMMA PassFeed ==
  ASSUME Given, NEW x, NEW z, NEW i, NEW j \in Nat, i = j + 1, NEW a, NEW b, NEW got \in Brigades,
         Passing(x, i, z, a, b, got), NEW f, Meets(x, j, z, f),
         NEW o, NEW c, At(z, j, o, c), c.status = APR_INCOMPLETE,
         NEW d, d = Feed(c, got, None), NEW y, Updates(z, o, d, y)
  PROVE  Passing(x, j, y, a, b, got)
<1>1. /\ Good(z) /\ z \in World /\ j \in 1..Len(z.r.chain) /\ Len(z.r.chain) \in Nat /\ x.ctx \in [Filters -> Context]
      /\ Chained(z.r)
  BY WorldType, ChainType DEF Good, Passing, Meets
<1>2. /\ Sights(z) \in Seq(Sight) /\ Len(Sights(z)) = Len(z.r.chain) /\ Sights(z)[j] = Seen(z, f)
  BY <1>1, SightsType DEF Meets
<1>3. i \in 1..(Len(z.r.chain) + 1) /\ Riding(z, a, b, i, got)
  BY <1>1 DEF Passing
<1>4. PICK p, e : /\ e \in Nat /\ Bears(z, p, a, b, i, got, e)
                  /\ \A t \in 1..Len(z.r.chain) : i = t + 1 => Shown(Sights(z)[t], e - Len(got.data))
  BY <1>1, <1>3, RideRead
<1>5. /\ f = z.r.chain[j] /\ HasContext(z, f) /\ o = z.of[f] /\ c = z.ctx[o] /\ c = CtxOf(z, f)
      /\ c \in Context /\ o \in Filters /\ Sound(c)
  BY <1>1, WorldType, Zenon DEF At, CtxOf, Meets, Good
<1>6. Sights(z)[j] = SeenOf(c) /\ Shown(SeenOf(c), e - Len(got.data))
  <2>1. Shown(Sights(z)[j], e - Len(got.data))
    BY <1>1, <1>4
  <2>. QED  BY <1>2, <1>5, <2>1, SeenIs
<1>7. c.shown = <<>> \/ Last(c.shown) = e - Len(got.data)
  BY <1>6 DEF Shown, SeenOf
<1>8. Carries(got, e)
  BY <1>4 DEF Bears
<1>9. /\ d \in Context /\ Sound(d) /\ Fed(c, d) /\ Settled(c, d)
      /\ d.status \in {APR_INCOMPLETE, APR_SUCCESS, GENERAL, OVERLIMIT}
      /\ d.spool = c.spool /\ d.filter_error = FALSE /\ Shown(SeenOf(d), e)
  <2>1. e \in Nat
    BY <1>4
  <2>2. c \in Context /\ Sound(c)
    BY <1>5
  <2>3. PICK u : u = Feed(c, got, None)
    OBVIOUS
  <2>4. /\ u \in Context /\ Sound(u) /\ Fed(c, u) /\ Settled(c, u)
        /\ u.status \in {APR_INCOMPLETE, APR_SUCCESS, GENERAL, OVERLIMIT}
        /\ u.spool = c.spool /\ u.filter_error = FALSE /\ Shown(SeenOf(u), e)
    BY <1>7, <1>8, <2>1, <2>2, <2>3, FeedIs
  <2>. QED  BY <2>3, <2>4, Zenon
<1>10. /\ z.of[o] = o /\ y \in World /\ y.r = z.r /\ y.of = z.of /\ CtxOf(y, f) = d
       /\ \A g \in Filters : g # o => y.ctx[g] = z.ctx[g]
       /\ y.ctx[o] = d
       /\ Alters(Sights(z), Sights(y), j) /\ Sights(y)[j] = SeenOf(d)
  BY <1>1, <1>5, <1>9, UpdateAlters
<1>11. Good(y)
  <2>1. Holds(z, o, d)
    BY <1>5, <1>9 DEF Holds
  <2>2. d.status # INTERRUPT
    BY <1>9 DEF INTERRUPT, APR_INCOMPLETE, APR_SUCCESS, GENERAL, OVERLIMIT
  <2>3. Good([z EXCEPT !.ctx[o] = d])
    BY <1>1, <1>5, <1>9, <1>10, <2>1, <2>2, UpdateGood, Zenon
  <2>. QED  BY <2>3 DEF Updates
<1>12. Quiet(SeenOf(d)) /\ Quiet(SeenOf(c))
  <2>1. Quiet(SeenOf(c))
    BY <1>2, <1>6 DEF Meets
  <2>. QED  BY <1>9, <2>1 DEF Quiet, SeenOf
<1>13. Riding(y, a, b, j, got)
  BY <1>1, <1>4, <1>6, <1>9, <1>10, <1>12, RideNext, Zenon
<1>14. Ready(y, j)
  <2>1. d.status # APR_EINIT
    BY <1>9, Zenon DEF APR_EINIT, APR_INCOMPLETE, APR_SUCCESS, GENERAL, OVERLIMIT
  <2>2. HasContext(y, f) /\ CtxOf(y, f) = d
    BY <1>5, <1>10 DEF HasContext
  <2>. QED  BY <1>5, <1>10, <2>1, <2>2 DEF Ready
<1>15. ASSUME NEW t \in 1..(j - 1)
       PROVE  /\ y.r.chain[t] = x.r.chain[t]
              /\ HasContext(x, x.r.chain[t]) => CtxOf(y, x.r.chain[t]) = CtxOf(x, x.r.chain[t])
  <2>1. t \in 1..(i - 1) /\ t \in 1..Len(z.r.chain) /\ t # j
    BY <1>1
  <2>2. PICK g : /\ g = x.r.chain[t] /\ z.r.chain[t] = g
                 /\ HasContext(x, g) => CtxOf(z, g) = CtxOf(x, g)
    BY <2>1 DEF Passing
  <2>3. HasContext(x, g) => HasContext(z, g)
    BY Zenon DEF Passing, HasContext
  <2>4. HasContext(z, g) => z.of[g] # o /\ z.of[g] \in Filters
    BY <1>1, <1>5, <2>1, <2>2, Apart, WorldType
  <2>5. HasContext(z, g) => CtxOf(y, g) = CtxOf(z, g)
    BY <1>10, <2>4 DEF CtxOf
  <2>. QED  BY <1>10, <2>2, <2>3, <2>5
<1>16. ASSUME NEW g \in Filters PROVE Fed(x.ctx[g], y.ctx[g])
  <2>1. Fed(x.ctx[g], z.ctx[g]) /\ x.ctx[g] \in Context /\ z.ctx[g] \in Context
    BY <1>1, WorldType DEF Passing
  <2>2. CASE g # o
    BY <1>10, <2>1, <2>2
  <2>3. CASE g = o
    <3>1. y.ctx[g] = d /\ z.ctx[g] = c
      BY <1>5, <1>10, <2>3
    <3>2. Fed(x.ctx[g], c) /\ Fed(c, d) /\ c \in Context /\ d \in Context /\ x.ctx[g] \in Context
      BY <1>5, <1>9, <2>1, <3>1
    <3>3. Fed(x.ctx[g], d)
      <4>1. PICK c0 \in Context : c0 = x.ctx[g]
        BY <3>2
      <4>2. Fed(c0, d)
        BY <3>2, <4>1, MovesTrans
      <4>. QED  BY <4>1, <4>2
    <3>. QED  BY <3>1, <3>3, Zenon
  <2>. QED  BY <2>2, <2>3
<1>17. j \in Nat \ {0} /\ j <= Len(y.r.chain) + 1
  BY <1>1, <1>10
<1>18. y.of = x.of /\ y.r.f = x.r.f /\ y.r.used = x.r.used
  BY <1>10 DEF Passing
<1>. QED  BY <1>11, <1>13, <1>14, <1>15, <1>16, <1>17, <1>18 DEF Passing

\* A filter that has nothing more to parse leaves the chain.
LEMMA PassDrop ==
  ASSUME Given, NEW x, NEW z, NEW i, NEW j \in Nat, i = j + 1, NEW a, NEW b, NEW got \in Brigades,
         Passing(x, i, z, a, b, got), NEW f, Meets(x, j, z, f), f # Other, CtxOf(z, f).status # APR_INCOMPLETE,
         NEW y, y = [z EXCEPT !.r = ap_remove_input_filter(z.r, f)]
  PROVE  Passing(x, j, y, a, b, got)
<1>1. Good(z) /\ z \in World /\ j \in 1..Len(z.r.chain) /\ Len(z.r.chain) \in Nat /\ f = z.r.chain[j]
  BY WorldType, ChainType DEF Good, Passing, Meets
<1>2. HasContext(z, f) /\ CtxOf(z, f).status # APR_EINIT /\ CtxOf(z, f).status \in Statuses
  <2>1. HasContext(z, f) /\ CtxOf(z, f).status # APR_EINIT
    BY <1>1 DEF Meets, Ready
  <2>2. CtxOf(z, f) \in Context
    BY <1>1, <2>1, WorldType
  <2>. QED  BY <2>1, <2>2, ContextType
<1>3. z.r.f = f => CtxOf(z, f).status \in Finished
  <2>1. SUFFICES ASSUME z.r.f = f PROVE CtxOf(z, f).status \in Finished
    OBVIOUS
  <2>2. f # None
    BY <1>2, WorldType, <1>1, Nulls
  <2>3. CtxOf(z, f).status # INTERRUPT
    BY <1>1, <1>2, <2>1, <2>2 DEF Good, Handled
  <2>4. PICK st : st = CtxOf(z, f).status
    OBVIOUS
  <2>. QED  BY <1>2, <2>3, <2>4 DEF Statuses, Finished
<1>4. Ready(z, j + 1)
  BY DEF Passing
<1>5. /\ Good(y) /\ y.of = z.of /\ y.ctx = z.ctx /\ y.r.f = z.r.f /\ y.r.used = z.r.used
      /\ Len(y.r.chain) = Len(z.r.chain) - 1
      /\ \A t \in 1..Len(y.r.chain) : y.r.chain[t] = z.r.chain[Away(j, t)]
      /\ \A g : Seen(y, g) = Seen(z, g)
  BY <1>1, <1>2, <1>3, <1>4, DropGood
<1>6. PICK n \in Nat : n = Len(z.r.chain) /\ Len(y.r.chain) = n - 1 /\ j \in 1..n /\ y \in World
  BY <1>1, <1>5 DEF Good
<1>7. i \in 1..(Len(z.r.chain) + 1) /\ Riding(z, a, b, i, got)
  BY <1>6 DEF Passing
<1>8. PICK p, e : e \in Nat /\ Bears(z, p, a, b, i, got, e)
  BY <1>1, <1>7, RideRead
<1>9. Quiet(Seen(z, z.r.chain[j]))
  BY <1>1 DEF Meets
<1>10. Riding(y, a, b, j, got)
  <2>1. \A t \in 1..Len(y.r.chain) : Seen(y, y.r.chain[t]) = Seen(z, z.r.chain[Away(j, t)])
    BY <1>5
  <2>. QED  BY <1>1, <1>5, <1>6, <1>8, <1>9, <2>1, RideDrop
<1>11. \A g : (HasContext(y, g) <=> HasContext(z, g)) /\ CtxOf(y, g) = CtxOf(z, g)
  BY <1>5 DEF HasContext, CtxOf
<1>12. Ready(y, j)
  <2>1. SUFFICES ASSUME j \in 1..Len(y.r.chain) PROVE Ready(y, j)
    BY DEF Ready
  <2>2. Away(j, j) = j + 1 /\ j + 1 \in 1..n
    BY <1>6, <2>1 DEF Away
  <2>3. y.r.chain[j] = z.r.chain[j + 1]
    BY <1>5, <2>1, <2>2
  <2>. QED  BY <1>4, <1>6, <1>11, <2>2, <2>3 DEF Ready
<1>13. ASSUME NEW t \in 1..(j - 1)
       PROVE  /\ y.r.chain[t] = x.r.chain[t]
              /\ HasContext(x, x.r.chain[t]) => CtxOf(y, x.r.chain[t]) = CtxOf(x, x.r.chain[t])
  <2>1. t \in 1..(i - 1) /\ t \in 1..(n - 1) /\ Away(j, t) = t
    BY <1>6 DEF Away
  <2>2. y.r.chain[t] = z.r.chain[t]
    BY <1>5, <1>6, <2>1
  <2>. QED  BY <1>11, <2>1, <2>2 DEF Passing
<1>14. j \in Nat \ {0} /\ j <= Len(y.r.chain) + 1
  BY <1>6
<1>. QED  BY <1>5, <1>10, <1>12, <1>13, <1>14 DEF Passing

\* What is on its way when got was asked for.
Takeup(got, ok, move) == move = IF ok THEN got ELSE NoBrigade
\* The j-th filter f of x makes y of z.
Comes(x, j, z, f, got, ok, y) ==
  /\ j \in 1..Len(x.r.chain) /\ f = x.r.chain[j] /\ Ready(x, j) /\ Quiet(Seen(x, f))
  /\ y = apreq_filter_passes(z, f, got, ok)
LEMMA PassOne ==
  ASSUME Given, NEW x, Good(x), NEW z, NEW i, NEW j \in Nat, i = j + 1, NEW a, NEW b,
         NEW got \in Brigades, NEW ok \in BOOLEAN, NEW move, Takeup(got, ok, move),
         Passing(x, i, z, a, b, move), NEW f, NEW y, Comes(x, j, z, f, got, ok, y)
  PROVE  Passing(x, j, y, a, b, move)
<1>1. Meets(x, j, z, f)
  BY PassingMeets DEF Comes
<1>2. move \in Brigades
  <2>1. NoBrigade \in Brigades
    BY DEF NoBrigade, Brigades
  <2>. QED  BY <2>1 DEF Takeup
<1>3. z \in World /\ f = z.r.chain[j] /\ (f # Other => HasContext(z, f))
  BY <1>1 DEF Meets, Ready, Passing, Good
<1>4. CASE f = Other
  <2>1. ~HasContext(z, f)
    BY <1>3, <1>4, WorldType, Nulls
  <2>2. y = z
    BY <1>4 DEF Comes, apreq_filter_passes
  <2>. QED  BY <1>1, <1>2, <2>1, <2>2, PassStay
<1>5. CASE f # Other /\ CtxOf(z, f).status # APR_INCOMPLETE
  <2>1. y = [z EXCEPT !.r = ap_remove_input_filter(z.r, f)]
    BY <1>5 DEF Comes, apreq_filter_passes
  <2>. QED  BY <1>1, <1>2, <1>5, <2>1, PassDrop
<1>6. CASE f # Other /\ CtxOf(z, f).status = APR_INCOMPLETE /\ ~ok
  <2>1. y = z /\ move = NoBrigade
    BY <1>6 DEF Comes, apreq_filter_passes, Takeup
  <2>. QED  BY <1>1, <1>2, <2>1, PassStay
<1>7. CASE f # Other /\ CtxOf(z, f).status = APR_INCOMPLETE /\ ok
  <2>1. PICK o, c, d : o = z.of[f] /\ c = z.ctx[o] /\ d = Feed(c, got, None)
    OBVIOUS
  <2>2. move = got
    BY <1>7 DEF Takeup
  <2>3. At(z, j, o, c) /\ c.status = APR_INCOMPLETE
    BY <1>3, <1>7, <2>1, Zenon DEF At, CtxOf
  <2>4. y = [z EXCEPT !.ctx[z.of[f]] = Feed(@, got, None)]
    BY <1>7 DEF Comes, apreq_filter_passes
  <2>5. Updates(z, o, d, y)
    BY <2>1, <2>4, Zenon DEF Updates
  <2>6. Passing(x, i, z, a, b, got) /\ d = Feed(c, got, None)
    BY <2>1, <2>2
  <2>. HIDE <2>1
  <2>7. Passing(x, j, y, a, b, got)
    BY <1>1, <2>3, <2>5, <2>6, PassFeed
  <2>. QED  BY <2>2, <2>7
<1>. QED  BY <1>4, <1>5, <1>6, <1>7

\* Back up from the k-th filter to the i-th.
Silent(x, i, k) == \A t \in i..(k - 1) : Ready(x, t) /\ Quiet(Seen(x, x.r.chain[t]))
Packed(bb, x, k, got, ok) == \E read : bb = [x |-> x, k |-> k, got |-> got, ok |-> ok, net |-> read]
LEMMA PassUp ==
  ASSUME Given, NEW x, Good(x), NEW i \in Nat \ {0}, NEW k \in i..(Len(x.r.chain) + 1),
         NEW got \in Brigades, NEW ok \in BOOLEAN, NEW move, Takeup(got, ok, move),
         NEW a, NEW b, Ready(x, k), Silent(x, i, k), Riding(x, a, b, k, move), NEW bb, Packed(bb, x, k, got, ok)
  PROVE  Passing(x, i, PassBack(bb, i).x, a, b, move)
<1>. DEFINE N == k - i
            q == x.r.chain
            step(h) == [n \in 0..N |-> IF n = 0 THEN x ELSE apreq_filter_passes(h[n - 1], q[k - n], got, ok)]
            f == CHOOSE h : h = step(h)
            G == [n \in 0..N |-> {z \in World : Passing(x, k - n, z, a, b, move)}]
            op == [p \in World \X (1..N) |-> apreq_filter_passes(p[1], q[k - p[2]], got, ok)]
<1>1. PassBack(bb, i).x = f[N]
  <2>1. bb.x = x /\ bb.k = k /\ bb.got = got /\ bb.ok = ok
    BY DEF Packed
  <2>2. PassBack(bb, i) = [bb EXCEPT !.x = f[N]]
    BY <2>1 DEF PassBack
  <2>. HIDE DEF f, N
  <2>. QED  BY <2>2 DEF Packed
<1>2. N \in Nat /\ x \in World /\ Len(q) \in Nat /\ k \in Nat /\ k - 0 = k /\ k - N = i
  BY WorldType, ChainType DEF Good
<1>3. x \in G[0]
  <2>1. 0 \in 0..N /\ k \in Nat \ {0} /\ k <= Len(q) + 1
    BY <1>2
  <2>2. \A g \in Filters : Fed(x.ctx[g], x.ctx[g])
    BY <1>2, WorldType, MovesTrans
  <2>3. Passing(x, k, x, a, b, move)
    BY <2>1, <2>2 DEF Passing
  <2>. QED  BY <1>2, <2>1, <2>3
<1>9. ASSUME NEW n \in 1..N, NEW z, Passing(x, k - (n - 1), z, a, b, move)
      PROVE  Passing(x, k - n, apreq_filter_passes(z, q[k - n], got, ok), a, b, move)
  <2>1. PICK l \in Nat : l = Len(q) /\ k <= l + 1
    BY <1>2
  <2>2. n \in Nat /\ 1 <= n /\ n <= k - i
    BY <1>2
  <2>3. k - n \in Nat /\ k - n \in 1..l /\ k - (n - 1) = (k - n) + 1 /\ k - n \in i..(k - 1)
    BY <1>2, <2>1, <2>2
  <2>4. PICK j \in Nat, h \in Nat : h = j + 1 /\ j = k - n /\ j \in 1..Len(q) /\ k - (n - 1) = h /\ j \in i..(k - 1)
    BY <2>1, <2>3
  <2>5. PICK y, g : g = q[j] /\ y = apreq_filter_passes(z, g, got, ok)
    OBVIOUS
  <2>6. Ready(x, j) /\ Quiet(Seen(x, g)) /\ Passing(x, h, z, a, b, move)
    BY <1>9, <2>4, <2>5 DEF Silent
  <2>7. Passing(x, j, y, a, b, move)
    <3>. HIDE DEF N
    <3>1. Comes(x, j, z, g, got, ok, y)
      BY <2>4, <2>5, <2>6 DEF Comes
    <3>2. h = j + 1
      BY <2>4
    <3>. QED  BY <2>6, <3>1, <3>2, PassOne
  <2>. QED  BY <2>4, <2>5, <2>7
<1>4. ASSUME NEW n \in 1..N, NEW z \in G[n - 1]
      PROVE  apreq_filter_passes(z, q[k - n], got, ok) \in G[n] /\ z \in World
  <2>1. n - 1 \in 0..N /\ n \in 0..N
    BY <1>2
  <2>2. z \in World /\ Passing(x, k - (n - 1), z, a, b, move)
    BY <2>1
  <2>3. Passing(x, k - n, apreq_filter_passes(z, q[k - n], got, ok), a, b, move)
    BY <1>9, <2>2, Zenon
  <2>4. apreq_filter_passes(z, q[k - n], got, ok) \in World
    BY <2>3 DEF Passing, Good
  <2>. HIDE DEF N
  <2>. QED  BY <2>1, <2>2, <2>3, <2>4
<1>5. f = step(f)
  <2>1. \E h : h = step(h)
    <3>1. \A n \in 0..N : G[n] \subseteq World
      OBVIOUS
    <3>2. ASSUME NEW n \in 1..N, NEW y \in G[n - 1] PROVE op[<<y, n>>] \in G[n]
      <4>1. op[<<y, n>>] = apreq_filter_passes(y, q[k - n], got, ok)
        BY <1>4
      <4>. QED  BY <1>4, <4>1
    <3>. HIDE DEF G, N, op, q
    <3>6. Leads(N, World, G, op)
      BY <3>1, <3>2 DEF Leads
    <3>7. PICK g \in [0..N -> World] : Traces(g, N, x, G, op)
      BY <1>2, <1>3, <3>6, Iterates
    <3>3. g[0] = x /\ \A n \in 1..N : g[n - 1] \in G[n - 1] /\ g[n] = op[<<g[n - 1], n>>]
      BY <3>7 DEF Traces
    <3>4. ASSUME NEW n \in 0..N PROVE g[n] = IF n = 0 THEN x ELSE apreq_filter_passes(g[n - 1], q[k - n], got, ok)
      <4>1. CASE n = 0
        BY <3>3, <4>1
      <4>2. CASE n # 0
        <5>1. n \in 1..N
          BY <1>2, <4>2
        <5>2. g[n - 1] \in World /\ g[n] = op[<<g[n - 1], n>>]
          BY <1>4, <3>3, <5>1
        <5>. QED  BY <4>2, <5>1, <5>2 DEF op
      <4>. QED  BY <4>1, <4>2
    <3>5. g = step(g)
      <4>1. g = [n \in 0..N |-> g[n]]
        BY Zenon
      <4>2. [n \in 0..N |-> g[n]]
              = [n \in 0..N |-> IF n = 0 THEN x ELSE apreq_filter_passes(g[n - 1], q[k - n], got, ok)]
        BY <3>4, Zenon
      <4>. QED  BY <4>1, <4>2, Zenon
    <3>. QED  BY <3>5
  <2>. HIDE DEF step
  <2>. QED  BY <2>1
<1>6. f[0] = x /\ \A n \in 1..N : f[n] = apreq_filter_passes(f[n - 1], q[k - n], got, ok)
  <2>. HIDE DEF f
  <2>1. \A n \in 0..N : f[n] = IF n = 0 THEN x ELSE apreq_filter_passes(f[n - 1], q[k - n], got, ok)
    BY <1>5
  <2>2. 0 \in 0..N /\ \A n \in 1..N : n \in 0..N /\ n # 0
    BY <1>2
  <2>. QED  BY <2>1, <2>2
<1>. HIDE DEF f, op, step
<1>7. f[N] \in G[N]
  <2>1. \A n \in 1..N : f[n - 1] \in G[n - 1] => f[n] \in G[n]
    BY <1>4, <1>6
  <2>2. N \in 0..N
    BY <1>2
  <2>. HIDE DEF G, N
  <2>. QED  BY <1>2, <1>3, <1>6, <2>1, <2>2, Follows
<1>8. G[N] = {z \in World : Passing(x, i, z, a, b, move)}
  <2>1. N \in 0..N
    BY <1>2
  <2>. HIDE DEF N
  <2>. QED  BY <1>2, <2>1
<1>. QED  BY <1>1, <1>7, <1>8

\* What AskSource returns has its four parts.
LEMMA AskPacked ==
  ASSUME NEW x, NEW i, NEW n, NEW fresh, NEW ok
  PROVE  \E y, k, got, good : Packed(AskSource(x, i, n, fresh, ok), y, k, got, good)
<1>1. PICK k, y : k = Source(x, i) /\ y = PreparedPath(x, i, k)
  OBVIOUS
<1>2. AskSource(x, i, n, fresh, ok) = FromSource(y, k, n, fresh, ok)
  BY <1>1 DEF AskSource
<1>3. \E z, j, got, good : Packed(FromSource(y, k, n, fresh, ok), z, j, got, good)
  BY Zenon DEF FromSource, Packed
<1>. QED  BY <1>2, <1>3

\* PassBack changes only the state.
LEMMA PackedBack ==
  ASSUME NEW bb, NEW x, NEW k, NEW got, NEW ok, Packed(bb, x, k, got, ok), NEW i, NEW zz, zz = PassBack(bb, i)
  PROVE  /\ zz.got = bb.got /\ zz.ok = bb.ok /\ LeftOnNet(zz) = LeftOnNet(bb) /\ Moving(zz) = Moving(bb)
         /\ bb.x = x /\ bb.k = k /\ bb.got = got /\ bb.ok = ok
<1>1. PICK read : bb = [x |-> x, k |-> k, got |-> got, ok |-> ok, net |-> read]
  BY DEF Packed
<1>2. \E z : zz = [bb EXCEPT !.x = z]
  BY DEF PassBack
<1>3. zz.got = bb.got /\ zz.ok = bb.ok /\ zz.net = bb.net
  BY <1>1, <1>2
<1>. QED  BY <1>1, <1>3 DEF LeftOnNet, Moving

\* What ap_get_brigade on the i-th filter of x leaves behind.
Fetches(x, i, a, bb) ==
  /\ Good(bb.x) /\ bb.x.r.f = x.r.f /\ bb.x.r.used = x.r.used
  /\ bb.ok \in BOOLEAN /\ bb.got \in Brigades /\ Left(LeftOnNet(bb))
  /\ Riding(bb.x, a, Len(content) - Len(LeftOnNet(bb)), i, Moving(bb))
  /\ \A g \in Filters : Moved(x.ctx[g], bb.x.ctx[g])
  /\ i <= Len(bb.x.r.chain) + 1 /\ Ready(bb.x, i)
  /\ \A t \in 1..(i - 1) :
       /\ bb.x.r.chain[t] = x.r.chain[t]
       /\ HasContext(x, x.r.chain[t]) /\ CtxOf(x, x.r.chain[t]).status # APR_EINIT =>
            /\ HasContext(bb.x, x.r.chain[t]) /\ CtxOf(bb.x, x.r.chain[t]) = CtxOf(x, x.r.chain[t])
            /\ bb.x.of[x.r.chain[t]] = x.of[x.r.chain[t]]

\* The first filter is called, the others are asked, and the blocks come back.
LEMMA FetchedUp ==
  ASSUME Given, NEW x, NEW i \in Nat \ {0}, NEW a, NEW bb, Asks(x, i, a, bb), Len(x.r.chain) \in Nat,
         \E y, k, got, ok : Packed(bb, y, k, got, ok), NEW zz, zz = PassBack(bb, i)
  PROVE  /\ Passing(bb.x, i, zz.x, a, Len(content) - Len(LeftOnNet(zz)), Moving(zz))
         /\ zz.ok \in BOOLEAN /\ zz.got \in Brigades /\ Left(LeftOnNet(zz)) /\ Reached(x, i, bb.x, bb.k)
<1>1. PICK y, k, got, ok : Packed(bb, y, k, got, ok)
  OBVIOUS
<1>2. /\ zz.got = bb.got /\ zz.ok = bb.ok /\ LeftOnNet(zz) = LeftOnNet(bb) /\ Moving(zz) = Moving(bb)
      /\ bb.x = y /\ bb.k = k /\ bb.got = got /\ bb.ok = ok
  BY <1>1, PackedBack
<1>3. /\ Reached(x, i, y, k) /\ ok \in BOOLEAN /\ got \in Brigades /\ Left(LeftOnNet(bb))
      /\ Riding(y, a, Len(content) - Len(LeftOnNet(bb)), k, Moving(bb))
  BY <1>2 DEF Asks
<1>4. Good(y) /\ y.r = x.r /\ k \in i..(Len(y.r.chain) + 1) /\ Ready(y, k) /\ Silent(y, i, k)
  BY <1>3 DEF Reached, Silent
<1>5. PICK move, b : move = Moving(bb) /\ b = Len(content) - Len(LeftOnNet(bb))
  OBVIOUS
<1>6. Takeup(got, ok, move) /\ Riding(y, a, b, k, move)
  BY <1>2, <1>3, <1>5 DEF Takeup, Moving
<1>7. Passing(y, i, PassBack(bb, i).x, a, b, move)
  BY <1>1, <1>3, <1>4, <1>6, PassUp, Zenon
<1>. QED  BY <1>2, <1>3, <1>5, <1>7

\* ap_get_brigade: blocks that arrive have passed every filter on their way.
LEMMA Fetched ==
  ASSUME Given, NEW x, Good(x), x.r.used <= MaxFilters, NEW i \in Nat \ {0}, i <= Len(x.r.chain) + 1,
         NEW a, NEW b, Flow(x, a, b), b = Len(content) - Len(net), Left(net),
         NEW n \in Nat, NEW fresh \in Fresh(n), NEW ok \in BOOLEAN, NEW zz, zz = ap_get_brigade(x, i, n, fresh, ok)
  PROVE  Fetches(x, i, a, zz)
<1>1. x \in World /\ Len(x.r.chain) \in Nat
  BY WorldType, ChainType DEF Good
<1>2. PICK x1 : x1 = IF i <= Len(x.r.chain) THEN Called(x, x.r.chain[i]) ELSE x
  OBVIOUS
<1>3. /\ Good(x1) /\ x1.r.f = x.r.f /\ x1.r.used = x.r.used /\ Flow(x1, a, b) /\ Ready(x1, i)
      /\ \A g \in Filters : Mild(x.ctx[g], x1.ctx[g])
      /\ i <= Len(x1.r.chain) + 1 /\ (i # 1 => Extends(x, x1))
  <2>1. CASE ~(i <= Len(x.r.chain))
    <3>1. x1 = x
      BY <1>2, <2>1
    <3>2. Extends(x, x) /\ \A g \in Filters : Mild(x.ctx[g], x.ctx[g])
      BY <1>1, ExtendsTrans DEF Extends
    <3>3. i \notin 1..Len(x.r.chain)
      BY <1>1, <2>1
    <3>. QED  BY <3>1, <3>2, <3>3 DEF Ready
  <2>2. CASE i <= Len(x.r.chain)
    <3>1. i \in 1..Len(x.r.chain) /\ x1 = Called(x, x.r.chain[i])
      BY <1>1, <1>2, <2>2
    <3>2. /\ Good(x1) /\ x1.r.f = x.r.f /\ x1.r.used = x.r.used
          /\ \A g \in Filters : Mild(x.ctx[g], x1.ctx[g])
          /\ Flow(x1, a, b)
          /\ i \in 1..Len(x1.r.chain) /\ Ready(x1, i)
          /\ i # 1 => Extends(x, x1)
      BY <3>1, CalledGood
    <3>3. Len(x1.r.chain) \in Nat
      BY <3>2, WorldType, ChainType DEF Good
    <3>4. i <= Len(x1.r.chain) + 1
      BY <3>2, <3>3
    <3>. QED  BY <3>2, <3>4
  <2>. QED  BY <2>1, <2>2
<1>4. PICK bb : bb = AskSource(x1, i, n, fresh, ok)
  OBVIOUS
<1>5. Asks(x1, i, a, bb)
  BY <1>3, <1>4, Asked
<1>6. \E y, k, got, good : Packed(bb, y, k, got, good)
  BY <1>4, AskPacked
<1>7. zz = PassBack(bb, i)
  BY <1>2, <1>4 DEF ap_get_brigade
<1>8. Len(x1.r.chain) \in Nat /\ x1 \in World
  BY <1>3, WorldType, ChainType DEF Good
<1>9. /\ Passing(bb.x, i, zz.x, a, Len(content) - Len(LeftOnNet(zz)), Moving(zz))
      /\ zz.ok \in BOOLEAN /\ zz.got \in Brigades /\ Left(LeftOnNet(zz)) /\ Reached(x1, i, bb.x, bb.k)
  BY <1>5, <1>6, <1>7, <1>8, FetchedUp
<1>10. PICK y, z, k : y = bb.x /\ z = zz.x /\ k = bb.k
  OBVIOUS
<1>11. Reached(x1, i, y, k) /\ Passing(y, i, z, a, Len(content) - Len(LeftOnNet(zz)), Moving(zz))
  BY <1>9, <1>10
<1>12. /\ Good(z) /\ z.r.f = x.r.f /\ z.r.used = x.r.used /\ i <= Len(z.r.chain) + 1 /\ Ready(z, i)
       /\ y \in World /\ z \in World /\ y.r = x1.r /\ z.of = y.of
  BY <1>3, <1>11 DEF Reached, Passing, Good
<1>13. ASSUME NEW g \in Filters PROVE Moved(x.ctx[g], z.ctx[g])
  <2>1. PICK c \in Context, c1 \in Context, d \in Context, e \in Context :
          c = x.ctx[g] /\ c1 = x1.ctx[g] /\ d = y.ctx[g] /\ e = z.ctx[g]
    BY <1>1, <1>8, <1>12, WorldType
  <2>2. Mild(c, c1) /\ Mild(c1, d) /\ Fed(d, e)
    BY <1>3, <1>11, <2>1 DEF Reached, Passing
  <2>3. Moved(c, e)
    BY <2>2, MovesTrans
  <2>. QED  BY <2>1, <2>3
<1>14. ASSUME NEW t \in 1..(i - 1)
       PROVE  /\ z.r.chain[t] = x.r.chain[t]
              /\ HasContext(x, x.r.chain[t]) /\ CtxOf(x, x.r.chain[t]).status # APR_EINIT =>
                   /\ HasContext(z, x.r.chain[t]) /\ CtxOf(z, x.r.chain[t]) = CtxOf(x, x.r.chain[t])
                   /\ z.of[x.r.chain[t]] = x.of[x.r.chain[t]]
  <2>1. i # 1 /\ t \in 1..Len(x.r.chain) /\ t < i
    BY <1>1
  <2>2. Extends(x, x1) /\ x1.r = x.r
    BY <1>3, <2>1 DEF Extends
  <2>3. PICK g : g = x.r.chain[t] /\ g = y.r.chain[t] /\ g = z.r.chain[t]
    BY <1>11, <1>12, <2>2 DEF Passing
  <2>4. SUFFICES ASSUME HasContext(x, g), CtxOf(x, g).status # APR_EINIT
                 PROVE  HasContext(z, g) /\ CtxOf(z, g) = CtxOf(x, g) /\ z.of[g] = x.of[g]
    BY <2>3
  <2>5. HasContext(x1, g) /\ CtxOf(x1, g) = CtxOf(x, g) /\ x1.of[g] = x.of[g]
    BY <1>1, <2>2, <2>4, ExtendsKeeps
  <2>6. HasContext(y, g) /\ CtxOf(y, g) = CtxOf(x1, g)
    BY <1>11, <2>1, <2>2, <2>3, <2>4, <2>5 DEF Reached
  <2>7. y.of[g] = x1.of[g]
    BY <1>11, <2>5 DEF Reached, HasContext
  <2>8. HasContext(z, g) /\ CtxOf(z, g) = CtxOf(y, g)
    BY <1>11, <1>12, <2>3, <2>6 DEF Passing, HasContext
  <2>. QED  BY <1>12, <2>5, <2>6, <2>7, <2>8
<1>. QED  BY <1>9, <1>10, <1>11, <1>12, <1>13, <1>14 DEF Fetches, Passing

-----------------------------------------------------------------------------
(* The next state.                                                         *)
LEMMA SameContent ==
  ASSUME content' = content
  PROVE  /\ World' = World /\ Context' = Context /\ Brigades' = Brigades /\ Places' = Places
         /\ \A y : Good(y)' <=> Good(y)
<1>1. Places' = Places
  BY DEF Places
<1>2. Brigades' = Brigades
  BY <1>1 DEF Brigades
<1>3. Context' = Context
  BY <1>1, <1>2 DEF Context
<1>4. World' = World
  BY <1>3 DEF World
<1>5. \A s : SawTheEnd(s)' <=> SawTheEnd(s)
  BY DEF SawTheEnd
<1>6. \A c : Sound(c)' <=> Sound(c)
  BY <1>5 DEF Sound
<1>7. ASSUME NEW y PROVE Good(y)' <=> Good(y)
  BY <1>4, <1>6 DEF Good
<1>. QED  BY <1>1, <1>2, <1>3, <1>4, <1>7

\* Become, read as equations.
LEMMA Became ==
  ASSUME NEW y \in World, Become(y)
  PROVE  Now' = y /\ r' = y.r /\ ctxOf' = y.of /\ ctx' = y.ctx
<1>1. r' = y.r /\ ctxOf' = y.of /\ ctx' = y.ctx
  BY DEF Become
<1>2. y = [r |-> y.r, of |-> y.of, ctx |-> y.ctx]
  BY DEF World
<1>3. Now' = [r |-> r', of |-> ctxOf', ctx |-> ctx']
  BY DEF Now
<1>. QED  BY <1>1, <1>2, <1>3

\* The state of a step begins with the variables.
LEMMA NowIs ==
  /\ Now.r = r /\ Now.of = ctxOf /\ Now.ctx = ctx
  /\ \A f : HasContext(Now, f) <=> f \in Filters /\ ctxOf[f] # 0
  /\ \A f : CtxOf(Now, f) = ctx[ctxOf[f]]
BY DEF Now, HasContext, CtxOf

\* What the invariant says of the state, in the terms used above.
CallOn(c, y) ==
  /\ c \in [op : {"idle", "body", "first", "look", "scan", "leave"}, name : Names \cup {None}]
  /\ c.op = "idle" => c = Idle
  /\ c.op # "idle" =>
       /\ y.r.f # None /\ HasContext(y, y.r.f) /\ CtxOf(y, y.r.f).parser # None
       /\ c.op \in {"body", "first"} => CtxOf(y, y.r.f).status = APR_INCOMPLETE
       /\ c.op \in {"scan", "leave"} => CtxOf(y, y.r.f).parser.hook # <<>>
Gave(dl, lost) ==
  /\ dl \in Brigades
  /\ ~lost => /\ dl.data = Positions(0, Len(dl.data))
              /\ dl.eos => Len(dl.data) = Len(content)
Streams(x, dl, nt, lost) ==
  \E p : Flowing(Sights(x), p, Len(dl.data), Len(content) - Len(nt), 0, 0, Len(content), ~lost)
Counters == /\ phase \in {"hooks", "handler"} /\ found \in Param \cup {None}
            /\ redirects \in 0 .. MaxRedirects /\ sets \in 0 .. MaxSettings

\* What the invariant says of the current state, in the terms of the lemmas.
LEMMA HoldsNow ==
  ASSUME TypeOK, IInv
  PROVE  /\ Given /\ Good(Now) /\ r.used <= MaxFilters /\ CallOn(call, Now) /\ Left(net) /\ Gave(delivered, broken)
         /\ Streams(Now, delivered, net, broken) /\ Counters
         /\ Flow(Now, Len(delivered.data), Len(content) - Len(net))
<1>1. Given /\ Now \in World
  BY Inputs DEF TypeOK, Given
<1>2. Good(Now)
  BY <1>1, NowIs DEF IInv, Good
<1>3. CallOn(call, Now)
  BY NowIs DEF TypeOK, IInv, CallInv, CallOn
<1>4. Left(net) /\ Gave(delivered, broken)
  BY DEF TypeOK, IInv, StreamInv, Left, Gave
<1>5. Flow(Now, Len(delivered.data), Len(content) - Len(net))
  BY <1>1, FlowIs DEF IInv, StreamInv
<1>6. Streams(Now, delivered, net, broken)
  BY <1>5 DEF Flow, Streams, Flowing
<1>. QED  BY <1>1, <1>2, <1>3, <1>4, <1>5, <1>6 DEF TypeOK, Counters

\* The invariant in the next state, from the terms of the lemmas.
LEMMA HoldsNext ==
  ASSUME TypeOK, content' = content, request' \in Request, broken' \in BOOLEAN, NEW y, Good(y), Become(y),
         y.r.used <= MaxFilters, CallOn(call', y), Left(net'), Gave(delivered', broken'),
         Streams(y, delivered', net', broken'), Counters'
  PROVE  TypeOK' /\ IInv'
<1>1. y \in World
  BY DEF Good
<1>2. /\ Now' = y /\ r' = y.r /\ ctxOf' = y.of /\ ctx' = y.ctx
      /\ World' = World /\ Brigades' = Brigades /\ Places' = Places /\ Good(y)'
  BY <1>1, Became, SameContent
<1>3. TypeOK'
  <2>1. content' \in Bodies /\ Now' \in World' /\ r'.used <= MaxFilters
    BY <1>1, <1>2 DEF TypeOK
  <2>2. net' \in Seq(Places') /\ delivered' \in Brigades'
    BY <1>2 DEF Left, Gave
  <2>3. call' \in [op : {"idle", "body", "first", "look", "scan", "leave"}, name : Names \cup {None}]
    BY DEF CallOn
  <2>. QED  BY <2>1, <2>2, <2>3 DEF TypeOK, Counters
<1>4. Chained(r)' /\ Owned(Now)' /\ Handled(Now)' /\ Kept(Now)' /\ (\A f \in Filters : Sound(ctx[f]))'
  BY <1>2 DEF Good
<1>5. CallInv'
  BY <1>2 DEF CallInv, CallOn
<1>6. StreamInv'
  <2>1. net' = Positions(Len(content') - Len(net'), Len(net')) /\ Len(net') <= Len(content')
    BY DEF Left
  <2>2. ~broken' => /\ delivered'.data = Positions(0, Len(delivered'.data))
                    /\ delivered'.eos => Len(delivered'.data) = Len(content')
    BY DEF Gave
  <2>3. Flows(Now, Len(delivered.data), Len(content) - Len(net), 0, 0)'
    <3>1. PICK p : Flowing(Sights(y), p, Len(delivered'.data), Len(content) - Len(net'), 0, 0, Len(content), ~broken')
      BY DEF Streams
    <3>2. Stream(Sights(y), p, Len(content)) /\ Len(Sights(y)) = Len(y.r.chain)
      BY <1>1, <3>1 DEF Flowing, Sights
    <3>3. p \in [1 .. (Len(y.r.chain) + 1) -> 0 .. Len(content)]
      BY <3>2 DEF Stream
    <3>. QED  BY <1>2, <3>1, <3>3 DEF Flows, Flowing
  <2>. QED  BY <2>1, <2>2, <2>3 DEF StreamInv
<1>. QED  BY <1>3, <1>4, <1>5, <1>6 DEF IInv

\* What every step does.
Steady == TypeOK' /\ IInv' /\ \A f \in Filters : Moved(ctx[f], ctx'[f])

\* The first stretch begins somewhere in the body.
LEMMA StreamFirst ==
  ASSUME NEW v, NEW p, NEW size, Stream(v, p, size)
  PROVE  p[1] \in Nat
<1>1. Len(v) \in Nat /\ 1 \in 1..(Len(v) + 1) /\ size \in Nat /\ p \in [1..(Len(v) + 1) -> 0..size]
  BY DEF Stream
<1>. QED  BY <1>1

\* Blocks that have reached the top continue what was delivered.
LEMMA RideDeliver ==
  ASSUME Given, NEW x \in World, NEW dl, Gave(dl, broken), NEW move \in Brigades, NEW nt,
         Riding(x, Len(dl.data), Len(content) - Len(nt), 1, move),
         NEW d2, d2 = [data |-> dl.data \o move.data, eos |-> move.eos]
  PROVE  Gave(d2, broken) /\ Streams(x, d2, nt, broken)
<1>1. dl \in Brigades /\ dl.data \in Seq(Places) /\ move.data \in Seq(Places) /\ move.eos \in BOOLEAN
  BY DEF Gave, Brigades
<1>2. PICK a \in Nat, m \in Nat, size \in Nat, s \in Seq(Places), t \in Seq(Places), whole \in BOOLEAN, b \in {Len(content) - Len(nt)} :
        /\ s = dl.data /\ t = move.data /\ a = Len(s) /\ m = Len(t) /\ size = Len(content) /\ whole = ~broken
        /\ b = Len(content) - Len(nt)
  <2>1. Len(dl.data) \in Nat /\ Len(move.data) \in Nat /\ Len(content) \in Nat /\ (~broken) \in BOOLEAN
    BY <1>1 DEF Given
  <2>. QED  BY <1>1, <2>1
<1>3. PICK v \in Seq(Sight) : v = Sights(x)
  BY SightsType
<1>4. PICK p : Stream(v, p, size) /\ Cuts(v, p, a, b, 1, m, size, whole) /\ Rides(p, 1, move)
  BY <1>2, <1>3 DEF Riding
<1>5. Cuts(v, p, a + m, b, 0, 0, size, whole) /\ (whole => p[1] - m = a)
  BY <1>4, CutsDeliver
<1>6. p[1] \in Nat
  BY <1>4, StreamFirst
<1>7. s \o t \in Seq(Places) /\ Len(s \o t) = a + m
  BY <1>2
<1>8. Streams(x, d2, nt, broken)
  <2>1. Len(d2.data) = a + m
    BY <1>2, <1>7
  <2>2. Flowing(v, p, a + m, b, 0, 0, size, whole)
    BY <1>4, <1>5 DEF Flowing
  <2>. QED  BY <1>2, <1>3, <2>1, <2>2 DEF Streams
<1>9. ASSUME whole PROVE s \o t = Positions(0, a + m) /\ (move.eos => a + m = size)
  <2>1. s = Positions(0, a)
    BY <1>2, <1>9 DEF Gave
  <2>2. t = Positions(p[1] - m, m) /\ (move.eos => p[1] = size)
    BY <1>2, <1>4 DEF Rides
  <2>3. p[1] - m = a /\ p[1] = a + m /\ 0 + a = a
    <3>1. PICK k \in Nat : k = p[1]
      BY <1>6
    <3>2. k - m = a
      BY <1>5, <1>9, <3>1
    <3>. HIDE <1>2
    <3>3. k = a + m
      BY <3>2
    <3>. QED  BY <3>1, <3>2, <3>3
  <2>4. t = Positions(0 + a, m)
    BY <2>2, <2>3
  <2>5. Positions(0, a) \o Positions(0 + a, m) = Positions(0, a + m)
    BY PositionsJoin
  <2>. QED  BY <2>1, <2>2, <2>3, <2>4, <2>5
<1>10. d2 \in Brigades
  BY <1>1, <1>2, <1>7 DEF Brigades
<1>11. Gave(d2, broken)
  BY <1>2, <1>7, <1>9, <1>10 DEF Gave
<1>. QED  BY <1>8, <1>11

\* A read of the content handler.
LEMMA ReadSteady ==
  ASSUME TypeOK, IInv, NEW n \in 1..ReadBlock, Read(n)
  PROVE  Steady
<1>1. /\ Given /\ Good(Now) /\ r.used <= MaxFilters /\ Left(net) /\ Gave(delivered, broken) /\ Counters
      /\ Flow(Now, Len(delivered.data), Len(content) - Len(net))
  BY HoldsNow
<1>2. PICK fresh \in Fresh(n), ok \in BOOLEAN : Delivers(ap_get_brigade(Now, 1, n, fresh, ok))
  BY DEF Read
<1>3. PICK bb : bb = ap_get_brigade(Now, 1, n, fresh, ok)
  OBVIOUS
<1>4. n \in Nat /\ Len(r.chain) \in Nat /\ 1 <= Len(r.chain) + 1 /\ Now.r = r /\ Now.ctx = ctx
  BY <1>1, Sizes, NowIs, WorldType, ChainType DEF Good
<1>5. Fetches(Now, 1, Len(delivered.data), bb)
  BY <1>1, <1>3, <1>4, Fetched
<1>6. PICK y, nt, move : y = bb.x /\ nt = LeftOnNet(bb) /\ move = Moving(bb)
  OBVIOUS
<1>7. /\ Good(y) /\ y.r.f = r.f /\ y.r.used = r.used /\ bb.ok \in BOOLEAN /\ bb.got \in Brigades /\ Left(nt)
      /\ Riding(y, Len(delivered.data), Len(content) - Len(nt), 1, move)
      /\ \A g \in Filters : Moved(ctx[g], y.ctx[g])
  BY <1>4, <1>5, <1>6 DEF Fetches
<1>8. /\ Become(y) /\ net' = nt
      /\ delivered' = IF bb.ok THEN [data |-> delivered.data \o bb.got.data, eos |-> bb.got.eos] ELSE delivered
  BY <1>2, <1>3, <1>6 DEF Delivers
<1>9. /\ call = Idle /\ content' = content /\ request' = request /\ phase' = phase /\ call' = call
      /\ found' = found /\ redirects' = redirects /\ sets' = sets /\ broken' = broken
  BY DEF Read
<1>10. y \in World /\ NoBrigade \in Brigades /\ move \in Brigades
  <2>1. NoBrigade \in Brigades
    BY DEF NoBrigade, Brigades
  <2>. QED  BY <1>6, <1>7, <2>1 DEF Good, Moving
<1>11. PICK d2 : d2 = [data |-> delivered.data \o move.data, eos |-> move.eos]
  OBVIOUS
<1>12. Gave(d2, broken) /\ Streams(y, d2, nt, broken)
  BY <1>1, <1>7, <1>10, <1>11, RideDeliver
<1>13. Gave(delivered', broken) /\ Streams(y, delivered', nt, broken)
  <2>1. CASE bb.ok
    <3>1. delivered' = d2
      BY <1>6, <1>8, <1>11, <2>1 DEF Moving
    <3>. QED  BY <1>12, <3>1
  <2>2. CASE ~bb.ok
    <3>1. delivered' = delivered /\ move = NoBrigade
      BY <1>6, <1>8, <2>2 DEF Moving
    <3>2. delivered.data \in Seq(Places)
      BY <1>1 DEF Gave, Brigades
    <3>3. d2.data = delivered.data
      BY <1>11, <3>1, <3>2 DEF NoBrigade
    <3>. QED  BY <1>1, <1>12, <3>1, <3>3 DEF Streams
  <2>. QED  BY <1>7, <2>1, <2>2
<1>14. CallOn(call', y)
  BY <1>9 DEF CallOn, Idle
<1>15. TypeOK' /\ IInv'
  <2>1. Counters' /\ request' \in Request /\ broken' \in BOOLEAN
    BY <1>1, <1>9 DEF Counters, Given
  <2>2. Left(net') /\ Gave(delivered', broken') /\ Streams(y, delivered', net', broken') /\ y.r.used <= MaxFilters
    BY <1>1, <1>7, <1>8, <1>9, <1>13
  <2>. QED  BY <1>7, <1>8, <1>9, <1>14, <2>1, <2>2, HoldsNext
<1>16. ctx' = y.ctx
  BY <1>8 DEF Become
<1>. QED  BY <1>7, <1>15, <1>16 DEF Steady

-----------------------------------------------------------------------------
(* apreq_filter_prefetch.                                                  *)
Spooled(c, got) == [c EXCEPT !.spool = [data |-> @.data \o got.data, eos |-> @.eos \/ got.eos]]
LEMMA SpooledIs ==
  ASSUME Given, NEW c \in Context, Sound(c), c.status = APR_INCOMPLETE, NEW got \in Brigades, NEW s, s = Spooled(c, got)
  PROVE  /\ s \in Context /\ Sound(s) /\ s.status = c.status /\ s.parser = c.parser /\ s.body = c.body
         /\ s.shown = c.shown /\ s.bytes_read = c.bytes_read /\ s.read_limit = c.read_limit
         /\ s.filter_error = c.filter_error
         /\ s.spool.data = c.spool.data \o got.data /\ (s.spool.eos => c.spool.eos \/ got.eos)
<1>1. PICK sp : sp = [data |-> c.spool.data \o got.data, eos |-> c.spool.eos \/ got.eos]
  OBVIOUS
<1>2. sp \in Brigades
  <2>1. c.spool.data \in Seq(Places) /\ got.data \in Seq(Places)
    BY ContextType DEF Brigades
  <2>2. c.spool.data \o got.data \in Seq(Places)
    BY <2>1
  <2>3. (c.spool.eos \/ got.eos) \in BOOLEAN
    OBVIOUS
  <2>. QED  BY <1>1, <2>2, <2>3 DEF Brigades
<1>3. s = [c EXCEPT !.spool = sp]
  BY <1>1, Zenon DEF Spooled
<1>4. /\ s \in Context /\ s.status = c.status /\ s.parser = c.parser /\ s.body = c.body
      /\ s.shown = c.shown /\ s.bytes_read = c.bytes_read /\ s.read_limit = c.read_limit
      /\ s.filter_error = c.filter_error /\ s.spool = sp
  BY <1>2, <1>3 DEF Context
<1>5. sp.data = c.spool.data \o got.data /\ (sp.eos => c.spool.eos \/ got.eos)
  BY <1>1
<1>6. Sound(s)
  <2>1. s.status # APR_EINIT
    BY <1>4 DEF APR_EINIT, APR_INCOMPLETE
  <2>. QED  BY <1>4, <2>1 DEF Sound
<1>. QED  BY <1>4, <1>5, <1>6

\* d is c with what got brings in its spool, and fed with it.
Grew(c, got, d) ==
  d.spool.data = c.spool.data \o got.data /\ (d.spool.eos => c.spool.eos \/ got.eos)
Parsed(c, got, key, d) == d = Feed(Spooled(c, got), got, key)
Continues(c, got, e) == c.shown = <<>> \/ Last(c.shown) = e - Len(got.data)
FedOn(c, got, key, e, d) ==
  /\ d \in Context /\ Sound(d) /\ Fed(c, d) /\ Settled(c, d)
  /\ d.status \in {APR_INCOMPLETE, APR_SUCCESS, GENERAL, OVERLIMIT}
  /\ Grew(c, got, d) /\ d.filter_error = FALSE /\ Shown(SeenOf(d), e) /\ c.filter_error = FALSE
  /\ d.parser # None /\ d.parser.hook = c.parser.hook
  /\ FoundIn(c, got, key) \in Param \cup {None}
LEMMA PrefetchFeeds ==
  ASSUME Given, NEW c \in Context, Sound(c), c.status = APR_INCOMPLETE, NEW got \in Brigades,
         NEW e \in Nat, Carries(got, e), Continues(c, got, e), NEW key,
         NEW d, Parsed(c, got, key, d)
  PROVE  FedOn(c, got, key, e, d)
<1>1. PICK s : s = Spooled(c, got)
  OBVIOUS
<1>2. /\ s \in Context /\ Sound(s) /\ s.status = c.status /\ s.parser = c.parser /\ s.body = c.body
      /\ s.shown = c.shown /\ s.bytes_read = c.bytes_read /\ s.read_limit = c.read_limit
      /\ s.filter_error = c.filter_error
      /\ s.spool.data = c.spool.data \o got.data /\ (s.spool.eos => c.spool.eos \/ got.eos)
  BY <1>1, SpooledIs, ZenonT(30)
<1>3. d = Feed(s, got, key) /\ s.status = APR_INCOMPLETE /\ (s.shown = <<>> \/ Last(s.shown) = e - Len(got.data))
  BY <1>1, <1>2 DEF Parsed, Continues
<1>4. /\ d \in Context /\ Sound(d) /\ Fed(s, d) /\ Settled(s, d)
      /\ d.status \in {APR_INCOMPLETE, APR_SUCCESS, GENERAL, OVERLIMIT}
      /\ d.spool = s.spool /\ d.filter_error = FALSE /\ Shown(SeenOf(d), e)
      /\ d.parser # None /\ d.parser.hook = s.parser.hook
      /\ FoundIn(s, got, key) \in Param \cup {None}
  <2>1. s \in Context /\ Sound(s)
    BY <1>2
  <2>2. s.status = APR_INCOMPLETE /\ (s.shown = <<>> \/ Last(s.shown) = e - Len(got.data))
    BY <1>3
  <2>3. LET g == Feed(s, got, key)
        IN /\ g \in Context /\ Sound(g) /\ Fed(s, g) /\ Settled(s, g)
           /\ g.status \in {APR_INCOMPLETE, APR_SUCCESS, GENERAL, OVERLIMIT}
           /\ g.spool = s.spool /\ g.filter_error = FALSE /\ Shown(SeenOf(g), e)
           /\ g.parser # None /\ g.parser.hook = s.parser.hook
           /\ FoundIn(s, got, key) \in Param \cup {None}
    BY <2>1, <2>2, FeedIs
  <2>. QED  BY <1>3, <2>3
<1>5. FoundIn(c, got, key) = FoundIn(s, got, key)
  <2>1. s.parser = c.parser /\ s.body = c.body /\ s.bytes_read = c.bytes_read /\ s.read_limit = c.read_limit
    BY <1>2
  <2>2. RunOn(c, got, key) = RunOn(s, got, key)
    BY <2>1, Zenon DEF RunOn
  <2>. QED  BY <2>1, <2>2, Zenon DEF FoundIn
<1>6. Fed(c, d) /\ Settled(c, d)
  BY <1>2, <1>4 DEF Fed, Lazy, Shows, Settled
<1>7. c.filter_error = FALSE
  <2>1. c.filter_error \in BOOLEAN /\ (c.filter_error => c.status = GENERAL)
    BY ContextType DEF Sound
  <2>. QED  BY <2>1 DEF GENERAL, APR_INCOMPLETE
<1>8. Grew(c, got, d)
  BY <1>2, <1>4 DEF Grew
<1>. QED  BY <1>2, <1>4, <1>5, <1>6, <1>7, <1>8 DEF FedOn

Fails(c, d) == d = [c EXCEPT !.filter_error = TRUE, !.status = GENERAL]
\* A prefetch that fails ends the parsing with an error.
LEMMA Failed ==
  ASSUME Given, NEW c \in Context, Sound(c), c.status = APR_INCOMPLETE,
         NEW d, Fails(c, d)
  PROVE  /\ d \in Context /\ Sound(d) /\ Fed(c, d) /\ Settled(c, d) /\ d.status = GENERAL
         /\ d.spool = c.spool /\ d.filter_error = TRUE /\ d.parser = c.parser /\ c.parser # None
<1>1. GENERAL \in Statuses
  BY DEF Statuses
<1>2. /\ d \in Context /\ d.status = GENERAL /\ d.filter_error = TRUE /\ d.spool = c.spool /\ d.parser = c.parser
      /\ d.body = c.body /\ d.shown = c.shown /\ d.bytes_read = c.bytes_read /\ d.read_limit = c.read_limit
  BY <1>1 DEF Context, Fails
<1>3. Sound(d)
  BY <1>2 DEF Sound, GENERAL, APR_EINIT, APR_INCOMPLETE, INTERRUPT, APR_SUCCESS
<1>4. Grows(c.body, c.body)
  BY ContextType, GrowsSame
<1>5. Fed(c, d)
  BY <1>2, <1>4 DEF Fed, Lazy, Shows, GENERAL, INTERRUPT, APR_INCOMPLETE
<1>6. Settled(c, d)
  BY <1>2 DEF Settled, Finished, GENERAL, APR_EINIT
<1>7. c.parser # None
  BY DEF Sound
<1>. QED  BY <1>2, <1>3, <1>5, <1>6, <1>7

\* The u-th filter becomes a protocol filter.
LEMMA RaisedPlace ==
  ASSUME NEW n \in Nat, NEW k \in Nat, k <= n, NEW u \in 1..n, NEW l \in Nat,
         l = IF n - u + 1 > k THEN n - u + 1 ELSE k
  PROVE  l <= n /\ u > n - l /\ l >= k /\ (l = k \/ n - l + 1 = u)
OBVIOUS

Raises(z, f, z1) == z1 = [z EXCEPT !.r = AsProtocol(z.r, f)]
\* A filter with a context at work may become the first protocol filter (filter.c:297-307).
LEMMA RaiseGood ==
  ASSUME Given, NEW z, Good(z), NEW u \in 1..Len(z.r.chain), NEW o, NEW c, At(z, u, o, c), c.status # APR_EINIT,
         NEW f, f = z.r.chain[u], NEW z1, Raises(z, f, z1)
  PROVE  /\ Good(z1) /\ z1.of = z.of /\ z1.ctx = z.ctx /\ z1.r.chain = z.r.chain /\ z1.r.f = z.r.f
         /\ z1.r.used = z.r.used /\ u > Len(z1.r.chain) - z1.r.proto /\ Sights(z1) = Sights(z)
         /\ At(z1, u, o, c)
<1>1. z \in World /\ Chained(z.r) /\ Owned(z) /\ Handled(z) /\ Kept(z) /\ \A g \in Filters : Sound(z.ctx[g])
  BY DEF Good
<1>2. PICK n \in Nat, k \in Nat : /\ n = Len(z.r.chain) /\ k = z.r.proto /\ z.r \in Chain /\ DOMAIN z.r.chain = 1..n
                                  /\ k <= n /\ u \in 1..n
  <2>1. z.r \in Chain
    BY <1>1, WorldType
  <2>. QED  BY <1>1, <2>1, ChainType DEF Chained
<1>3. PICK l \in Nat : l = IF n - u + 1 > k THEN n - u + 1 ELSE k
  BY <1>2
<1>4. l <= n /\ u > n - l /\ l >= k /\ (l = k \/ n - l + 1 = u)
  <2>1. k <= n /\ u \in 1..n
    BY <1>2
  <2>. QED  BY <1>3, <2>1, RaisedPlace
<1>5. PICK s : s = AsProtocol(z.r, f)
  OBVIOUS
<1>6. s \in Chain /\ s.chain = z.r.chain /\ s.proto = l /\ s.f = z.r.f /\ s.used = z.r.used
  <2>1. PlaceOf(z.r, f) = u
    BY <1>1, <1>2, PlaceIs
  <2>2. s = IF n - u + 1 > k THEN [z.r EXCEPT !.proto = n - u + 1] ELSE z.r
    BY <1>2, <1>5, <2>1 DEF AsProtocol
  <2>3. CASE n - u + 1 > k
    <3>1. n - u + 1 = l
      BY <1>3, <2>3
    <3>2. s = [z.r EXCEPT !.proto = l]
      BY <2>2, <2>3, <3>1
    <3>. QED  BY <1>2, <3>2 DEF Chain
  <2>4. CASE ~(n - u + 1 > k)
    BY <1>2, <1>3, <2>2, <2>4
  <2>. QED  BY <2>3, <2>4
<1>7. /\ z1 \in World /\ z1.r = s /\ z1.of = z.of /\ z1.ctx = z.ctx
      /\ \A g : HasContext(z1, g) <=> HasContext(z, g)
      /\ \A g : CtxOf(z1, g) = CtxOf(z, g) /\ Seen(z1, g) = Seen(z, g)
  BY <1>1, <1>5, <1>6, RewireValue DEF Raises
<1>8. Chained(s)
  BY <1>1, <1>2, <1>4, <1>6 DEF Chained
<1>9. Owned(z1) /\ Handled(z1)
  BY <1>1, <1>6, <1>7, Zenon DEF Owned, Handled
<1>10. Kept(z1)
  <2>1. ASSUME NEW t \in 1..n, t <= n - l, HasContext(z, z.r.chain[t])
        PROVE  CtxOf(z, z.r.chain[t]).spool.data = <<>>
    <3>1. t <= n - k
      BY <1>4, <2>1
    <3>. QED  BY <1>1, <1>2, <2>1, <3>1 DEF Kept
  <2>2. ASSUME l > 0, FirstProto(s) # Other
        PROVE  HasContext(z, FirstProto(s)) /\ CtxOf(z, FirstProto(s)).status # APR_EINIT
    <3>1. FirstProto(s) = z.r.chain[n - l + 1]
      BY <1>2, <1>6 DEF FirstProto
    <3>2. CASE l = k
      <4>1. FirstProto(s) = FirstProto(z.r)
        BY <1>2, <3>1, <3>2, Zenon DEF FirstProto
      <4>. QED  BY <1>1, <1>2, <2>2, <3>2, <4>1 DEF Kept
    <3>3. CASE n - l + 1 = u
      BY <3>1, <3>3 DEF At, CtxOf
    <3>. QED  BY <1>4, <3>2, <3>3
  <2>. QED  BY <1>2, <1>6, <1>7, <2>1, <2>2 DEF Kept
<1>11. Good(z1)
  BY <1>1, <1>7, <1>8, <1>9, <1>10 DEF Good
<1>12. Sights(z1) = Sights(z)
  BY <1>6, <1>7 DEF Sights
<1>13. At(z1, u, o, c)
  BY <1>6, <1>7 DEF At
<1>. QED  BY <1>2, <1>4, <1>6, <1>7, <1>11, <1>12, <1>13

\* A prefetch that appends to its spool leaves the stream without a gap.
LEMMA SpoolStreams ==
  ASSUME Given, NEW z \in World, NEW y \in World, NEW u \in 1..Len(z.r.chain), NEW i, i = u + 1, NEW got \in Brigades,
         NEW a, NEW b, NEW p, NEW e \in Nat, Bears(z, p, a, b, i, got, e), Alters(Sights(z), Sights(y), u),
         NEW c \in Context, NEW d \in Context, Sights(z)[u] = SeenOf(c), Sights(y)[u] = SeenOf(d),
         c.filter_error = FALSE, Grew(c, got, d), Shown(SeenOf(d), e)
  PROVE  Flowing(Sights(y), p, a, b, 0, 0, Len(content), ~broken)
<1>1. PICK v \in Seq(Sight), w \in Seq(Sight), size \in Nat, whole \in BOOLEAN :
        v = Sights(z) /\ w = Sights(y) /\ size = Len(content) /\ whole = ~broken
  <2>1. Sights(z) \in Seq(Sight) /\ Sights(y) \in Seq(Sight) /\ Len(content) \in Nat /\ (~broken) \in BOOLEAN
    BY SightsType DEF Given
  <2>. QED  BY <2>1
<1>2. PICK m \in Nat : m = Len(got.data)
  BY DEF Brigades
<1>3. Flowing(v, p, a, b, i, m, size, whole) /\ e = p[i] /\ Carries(got, e)
  BY <1>1, <1>2 DEF Bears
<1>4. m <= e /\ got.data = Positions(e - m, m) /\ (got.eos => e = size)
  BY <1>1, <1>2, <1>3 DEF Carries
<1>5. /\ v[u].err = FALSE /\ w[u].data = v[u].data \o got.data /\ (w[u].eos => v[u].eos \/ got.eos)
      /\ Shown(w[u], e)
  <2>1. v[u] = SeenOf(c) /\ w[u] = SeenOf(d)
    BY <1>1
  <2>2. /\ SeenOf(c).err = FALSE /\ SeenOf(d).data = SeenOf(c).data \o got.data
        /\ SeenOf(d).eos => SeenOf(c).eos \/ got.eos
    BY DEF SeenOf, Grew
  <2>. QED  BY <2>1, <2>2
<1>6. Spools(v, w, u, m, p, i, e, size)
  <2>1. w[u].data = v[u].data \o Positions(e - m, m)
    BY <1>4, <1>5
  <2>2. (w[u].eos => v[u].eos \/ e = size) /\ ~v[u].err
    BY <1>4, <1>5
  <2>. QED  BY <1>3, <1>4, <1>5, <2>1, <2>2 DEF Spools, Shown
<1>7. Alters(v, w, u)
  BY <1>1
<1>8. Flowing(w, p, a, b, 0, 0, size, whole)
  <2>. HIDE <1>1, <1>2
  <2>. QED  BY <1>3, <1>6, <1>7, CutsSpool
<1>. QED  BY <1>1, <1>8

Losing(c, d) == d.filter_error = TRUE /\ d.spool = c.spool /\ d.status = GENERAL
Spares(lost, got) == ~lost => ~broken /\ got = NoBrigade
\* A prefetch that loses blocks leaves its gap below a filter that reports it.
LEMMA LoseStreams ==
  ASSUME Given, NEW z \in World, NEW y \in World, NEW u \in 1..Len(z.r.chain), NEW i, i = u + 1, NEW got \in Brigades,
         NEW a, NEW b, NEW p, NEW e \in Nat, Bears(z, p, a, b, i, got, e), Alters(Sights(z), Sights(y), u),
         NEW c \in Context, NEW d \in Context, Sights(z)[u] = SeenOf(c), Sights(y)[u] = SeenOf(d),
         Losing(c, d), NEW lost \in BOOLEAN, Spares(lost, got)
  PROVE  Flowing(Sights(y), p, a, b, 0, 0, Len(content), ~lost)
<1>1. PICK v \in Seq(Sight), w \in Seq(Sight), size \in Nat, whole \in BOOLEAN, left \in BOOLEAN :
        v = Sights(z) /\ w = Sights(y) /\ size = Len(content) /\ whole = ~broken /\ left = ~lost
  <2>1. Sights(z) \in Seq(Sight) /\ Sights(y) \in Seq(Sight) /\ Len(content) \in Nat /\ (~broken) \in BOOLEAN
    BY SightsType DEF Given
  <2>. QED  BY <2>1
<1>2. PICK m \in Nat : m = Len(got.data)
  BY DEF Brigades
<1>3. Flowing(v, p, a, b, i, m, size, whole) /\ e = p[i] /\ Carries(got, e)
  BY <1>1, <1>2 DEF Bears
<1>4. m <= e /\ (left => whole /\ m = 0)
  <2>1. m <= e
    BY <1>2, <1>3 DEF Carries
  <2>2. got = NoBrigade => m = 0
    BY <1>2 DEF NoBrigade
  <2>. QED  BY <1>1, <2>1, <2>2 DEF Spares
<1>5. w[u].data = v[u].data /\ w[u].eos = v[u].eos /\ w[u].err /\ ~w[u].parsing
  <2>1. v[u] = SeenOf(c) /\ w[u] = SeenOf(d)
    BY <1>1
  <2>2. SeenOf(d).data = SeenOf(c).data /\ SeenOf(d).eos = SeenOf(c).eos /\ SeenOf(d).err = TRUE
    BY DEF SeenOf, Losing
  <2>3. ~SeenOf(d).parsing
    BY DEF SeenOf, Losing, GENERAL, APR_INCOMPLETE, INTERRUPT
  <2>. QED  BY <2>1, <2>2, <2>3
<1>6. Loses(v, w, u, m, p, i, e) /\ Alters(v, w, u)
  BY <1>1, <1>3, <1>4, <1>5 DEF Loses
<1>8. Flowing(w, p, a, b, 0, 0, size, left)
  <2>. HIDE <1>1, <1>2
  <2>. QED  BY <1>3, <1>4, <1>6, CutsLose
<1>. QED  BY <1>1, <1>8

\* The prefetching filter f is the u-th of z, and c is its context.
Here(z, u, f, o, c) ==
  /\ Good(z) /\ u \in 1..Len(z.r.chain) /\ f = z.r.chain[u] /\ At(z, u, o, c)
  /\ c \in Context /\ Sound(c) /\ c.status = APR_INCOMPLETE
\* In y it is d instead, and nothing else changed but the number of protocol filters.
Leaves(z, f, o, c, y, d) ==
  /\ Good(y) /\ y.of = z.of /\ y.r.f = z.r.f /\ y.r.used = z.r.used
  /\ y.ctx[o] = d /\ \A g \in Filters : g # o => y.ctx[g] = z.ctx[g]
  /\ HasContext(y, f) /\ CtxOf(y, f) = d
  /\ d \in Context /\ Fed(c, d) /\ d.parser # None /\ d.parser.hook = c.parser.hook
Flowed(y, a, b, lost) == \E p : Flowing(Sights(y), p, a, b, 0, 0, Len(content), ~lost)

\* What a prefetch knows of its own filter when the blocks arrive.
LEMMA HereReads ==
  ASSUME Given, NEW z, NEW u, NEW f, NEW o, NEW c, Here(z, u, f, o, c), NEW i, i = u + 1, NEW got \in Brigades,
         NEW a, NEW b, Riding(z, a, b, i, got)
  PROVE  /\ z \in World /\ Sights(z)[u] = SeenOf(c) /\ o \in Filters /\ z.of[o] = o /\ c = z.ctx[o] /\ HasContext(z, f)
         /\ z.of[f] = o
         /\ \E p, e : /\ e \in Nat /\ Bears(z, p, a, b, i, got, e) /\ Carries(got, e)
                      /\ Continues(c, got, e)
<1>1. /\ Good(z) /\ z \in World /\ u \in 1..Len(z.r.chain) /\ Len(z.r.chain) \in Nat /\ f = z.r.chain[u]
      /\ HasContext(z, f) /\ o = z.of[f] /\ c = z.ctx[o] /\ c = CtxOf(z, f) /\ o \in Filters
  BY WorldType, ChainType DEF Here, Good, At, CtxOf
<1>2. Sights(z)[u] = SeenOf(c)
  BY <1>1, SightsType, SeenIs
<1>3. z.of[o] = o
  BY <1>1 DEF Good, Owned, HasContext
<1>4. i \in 1..(Len(z.r.chain) + 1)
  BY <1>1
<1>5. PICK p, e : /\ e \in Nat /\ Bears(z, p, a, b, i, got, e)
                  /\ \A j \in 1..Len(z.r.chain) : i = j + 1 => Shown(Sights(z)[j], e - Len(got.data))
  BY <1>1, <1>4, RideRead
<1>6. Shown(SeenOf(c), e - Len(got.data))
  BY <1>1, <1>2, <1>5
<1>7. Continues(c, got, e)
  BY <1>6 DEF Shown, SeenOf, Here, Continues
<1>8. Carries(got, e)
  BY <1>5 DEF Bears
<1>. QED  BY <1>1, <1>2, <1>3, <1>5, <1>7, <1>8, Zenon

\* A prefetch whose spool is written.
LEMMA PrefetchKeeps ==
  ASSUME Given, NEW z, NEW u, NEW f, NEW o, NEW c, Here(z, u, f, o, c), NEW got \in Brigades, NEW key,
         NEW a, NEW b, NEW i, i = u + 1, Riding(z, a, b, i, got), NEW d, Parsed(c, got, key, d),
         NEW z1, Raises(z, f, z1), NEW y, Updates(z1, o, d, y)
  PROVE  Leaves(z, f, o, c, y, d) /\ Flowed(y, a, b, broken) /\ FoundIn(c, got, key) \in Param \cup {None}
<1>1. /\ z \in World /\ Sights(z)[u] = SeenOf(c) /\ o \in Filters /\ z.of[o] = o /\ c = z.ctx[o] /\ HasContext(z, f)
      /\ z.of[f] = o
  BY HereReads
<1>2. PICK p, e : /\ e \in Nat /\ Bears(z, p, a, b, i, got, e) /\ Carries(got, e)
                  /\ Continues(c, got, e)
  BY HereReads
<1>3. Good(z) /\ u \in 1..Len(z.r.chain) /\ f = z.r.chain[u] /\ At(z, u, o, c) /\ c \in Context /\ Sound(c)
      /\ c.status = APR_INCOMPLETE /\ c.status # APR_EINIT
  BY DEF Here, APR_EINIT, APR_INCOMPLETE
<1>4. /\ d \in Context /\ Sound(d) /\ Fed(c, d) /\ Settled(c, d)
      /\ d.status \in {APR_INCOMPLETE, APR_SUCCESS, GENERAL, OVERLIMIT}
      /\ Grew(c, got, d) /\ Shown(SeenOf(d), e) /\ c.filter_error = FALSE
      /\ d.parser # None /\ d.parser.hook = c.parser.hook
      /\ FoundIn(c, got, key) \in Param \cup {None}
  <2>1. c \in Context /\ Sound(c) /\ c.status = APR_INCOMPLETE
    BY <1>3
  <2>2. e \in Nat /\ Carries(got, e) /\ Continues(c, got, e)
    BY <1>2
  <2>3. FedOn(c, got, key, e, d)
    BY <2>1, <2>2, PrefetchFeeds
  <2>. QED  BY <2>3 DEF FedOn
<1>5. /\ Good(z1) /\ z1.of = z.of /\ z1.ctx = z.ctx /\ z1.r.chain = z.r.chain /\ z1.r.f = z.r.f
      /\ z1.r.used = z.r.used /\ u > Len(z1.r.chain) - z1.r.proto /\ Sights(z1) = Sights(z)
      /\ At(z1, u, o, c)
  BY <1>3, RaiseGood
<1>6. /\ y \in World /\ y.r = z1.r /\ y.of = z1.of /\ y.ctx[o] = d
      /\ \A g \in Filters : g # o => y.ctx[g] = z1.ctx[g]
      /\ CtxOf(y, z1.r.chain[u]) = d
      /\ Alters(Sights(z1), Sights(y), u) /\ Sights(y)[u] = SeenOf(d)
  <2>1. u \in 1..Len(z1.r.chain)
    BY <1>3, <1>5
  <2>. QED  BY <1>4, <1>5, <2>1, UpdateAlters
<1>7. Good(y)
  <2>1. Holds(z1, o, d)
    <3>1. u \in DOMAIN z1.r.chain
      BY <1>3, <1>5, WorldType, ChainType DEF Good
    <3>2. HasContext(z1, z1.r.chain[u]) /\ z1.of[z1.r.chain[u]] = o
      BY <1>5, Zenon DEF At
    <3>. QED  BY <1>5, <3>1, <3>2 DEF Holds
  <2>2. d.status # INTERRUPT
    BY <1>4 DEF INTERRUPT, APR_INCOMPLETE, APR_SUCCESS, GENERAL, OVERLIMIT
  <2>3. z1.of[o] = o /\ z1.ctx[o] = c
    BY <1>1, <1>5
  <2>4. Settled(z1.ctx[o], d)
    BY <1>4, <2>3
  <2>5. Good([z1 EXCEPT !.ctx[o] = d])
    BY <1>1, <1>4, <1>5, <2>1, <2>2, <2>3, <2>4, UpdateGood
  <2>. QED  BY <2>5 DEF Updates
<1>8. Flowed(y, a, b, broken)
  <2>1. Alters(Sights(z), Sights(y), u)
    BY <1>5, <1>6
  <2>2. Flowing(Sights(y), p, a, b, 0, 0, Len(content), ~broken)
    BY <1>1, <1>2, <1>3, <1>4, <1>6, <2>1, SpoolStreams
  <2>. QED  BY <2>2 DEF Flowed
<1>9. HasContext(y, f) /\ CtxOf(y, f) = d
  BY <1>1, <1>3, <1>5, <1>6 DEF HasContext
<1>. QED  BY <1>4, <1>5, <1>6, <1>7, <1>8, <1>9 DEF Leaves

\* A prefetch that fails, with or without blocks in hand.
LEMMA PrefetchLoses ==
  ASSUME Given, NEW z, NEW u, NEW f, NEW o, NEW c, Here(z, u, f, o, c), NEW got \in Brigades,
         NEW a, NEW b, NEW i, i = u + 1, Riding(z, a, b, i, got),
         NEW d, Fails(c, d), NEW y, Updates(z, o, d, y),
         NEW lost \in BOOLEAN, Spares(lost, got)
  PROVE  Leaves(z, f, o, c, y, d) /\ Flowed(y, a, b, lost)
<1>1. /\ z \in World /\ Sights(z)[u] = SeenOf(c) /\ o \in Filters /\ z.of[o] = o /\ c = z.ctx[o] /\ HasContext(z, f)
      /\ z.of[f] = o
  BY HereReads
<1>2. PICK p, e : e \in Nat /\ Bears(z, p, a, b, i, got, e)
  BY HereReads
<1>3. Good(z) /\ u \in 1..Len(z.r.chain) /\ f = z.r.chain[u] /\ At(z, u, o, c) /\ c \in Context /\ Sound(c)
      /\ c.status = APR_INCOMPLETE
  BY DEF Here
<1>4. /\ d \in Context /\ Sound(d) /\ Fed(c, d) /\ Settled(c, d) /\ d.status = GENERAL
      /\ d.spool = c.spool /\ d.filter_error = TRUE /\ d.parser = c.parser /\ c.parser # None
  BY <1>3, Failed
<1>6. /\ y \in World /\ y.r = z.r /\ y.of = z.of /\ y.ctx[o] = d
      /\ \A g \in Filters : g # o => y.ctx[g] = z.ctx[g]
      /\ CtxOf(y, z.r.chain[u]) = d
      /\ Alters(Sights(z), Sights(y), u) /\ Sights(y)[u] = SeenOf(d)
  BY <1>3, <1>4, UpdateAlters
<1>7. Good(y)
  <2>1. Holds(z, o, d)
    BY <1>1, <1>4 DEF Holds
  <2>2. d.status # INTERRUPT
    BY <1>4 DEF INTERRUPT, GENERAL
  <2>4. Settled(z.ctx[o], d)
    BY <1>1, <1>4
  <2>5. Good([z EXCEPT !.ctx[o] = d])
    BY <1>1, <1>3, <1>4, <2>1, <2>2, <2>4, UpdateGood
  <2>. QED  BY <2>5 DEF Updates
<1>8. Flowed(y, a, b, lost)
  <2>2. Flowing(Sights(y), p, a, b, 0, 0, Len(content), ~lost)
    <3>1. Losing(c, d)
      BY <1>4 DEF Losing
    <3>. QED  BY <1>1, <1>2, <1>3, <1>4, <1>6, <3>1, LoseStreams
  <2>. QED  BY <2>2 DEF Flowed
<1>9. HasContext(y, f) /\ CtxOf(y, f) = d
  BY <1>1, <1>3, <1>6 DEF HasContext
<1>. QED  BY <1>4, <1>6, <1>7, <1>8, <1>9 DEF Leaves

\* A round of prefetching turns the context c of the handle's filter into d.
Prefetches(y, c, d) ==
  /\ Become(y) /\ Good(y) /\ y.r.used <= MaxFilters /\ y.r.f = r.f /\ HasContext(y, r.f) /\ CtxOf(y, r.f) = d
  /\ y.ctx[ctxOf[r.f]] = d /\ d.parser # None /\ d.parser.hook = c.parser.hook
  /\ Left(net') /\ broken' \in BOOLEAN /\ Gave(delivered, broken') /\ Streams(y, delivered, net', broken')
  /\ found' \in Param \cup {None}
  /\ \A g \in Filters : Moved(ctx[g], y.ctx[g])

\* A prefetch moves the contexts as a step may.
LEMMA LeavesMoved ==
  ASSUME Given, NEW x \in World, NEW z \in World, NEW f, NEW o \in Filters, NEW c \in Context, z.ctx[o] = c, x.ctx[o] = c,
         NEW y, NEW d, Leaves(z, f, o, c, y, d), \A g \in Filters : Moved(x.ctx[g], z.ctx[g])
  PROVE  \A g \in Filters : Moved(x.ctx[g], y.ctx[g])
<1>1. SUFFICES ASSUME NEW g \in Filters PROVE Moved(x.ctx[g], y.ctx[g])
  OBVIOUS
<1>2. CASE g # o
  BY <1>2 DEF Leaves
<1>3. CASE g = o
  <2>1. Mild(c, c) /\ Fed(c, d) /\ d \in Context
    BY MovesTrans DEF Leaves
  <2>2. Moved(c, d)
    BY <2>1, MovesTrans
  <2>. QED  BY <1>3, <2>2 DEF Leaves
<1>. QED  BY <1>2, <1>3

\* apreq_filter_prefetch as a whole.
LEMMA PrefetchGood ==
  ASSUME TypeOK, IInv, r.f # None, HasContext(Now, r.f), NEW c, c = CtxOf(Now, r.f), c.status = APR_INCOMPLETE,
         NEW key, apreq_filter_prefetch(key)
  PROVE  \E y, d : Prefetches(y, c, d)
<1>1. /\ Given /\ Good(Now) /\ r.used <= MaxFilters /\ Left(net) /\ Gave(delivered, broken) /\ Counters
      /\ Flow(Now, Len(delivered.data), Len(content) - Len(net))
  BY HoldsNow
<1>2. /\ Now \in World /\ Now.r = r /\ Now.of = ctxOf /\ Now.ctx = ctx /\ r \in Chain /\ Chained(r) /\ Handled(Now)
      /\ \A g \in Filters : Sound(ctx[g])
  BY <1>1, NowIs, WorldType DEF Good
<1>3. PICK f, o : f = r.f /\ o = ctxOf[f]
  OBVIOUS
<1>4. /\ f \in Filters /\ o \in Filters /\ c = ctx[o] /\ c \in Context /\ Sound(c) /\ HasContext(Now, f)
      /\ CtxOf(Now, f) = c
  BY <1>2, <1>3, WorldType
<1>5. f \in Range(r.chain)
  <2>1. c.status \notin Finished
    BY DEF Finished, APR_INCOMPLETE, APR_SUCCESS, GENERAL, OVERLIMIT, NODATA, NOPARSER, NOHEADER, BADHEADER
  <2>. QED  BY <1>2, <1>3, <1>4, <2>1 DEF Handled
<1>6. PICK u \in 1..Len(r.chain) : f = r.chain[u] /\ PlaceOf(r, f) = u
  <2>1. DOMAIN r.chain = 1..Len(r.chain)
    BY <1>2, ChainType
  <2>2. PICK u \in 1..Len(r.chain) : f = r.chain[u]
    BY <1>5, <2>1 DEF Range
  <2>3. PlaceOf(r, r.chain[u]) = u
    BY <1>2, PlaceIs
  <2>. QED  BY <2>2, <2>3
<1>7. PICK i \in Nat \ {0} : i = u + 1 /\ i <= Len(r.chain) + 1 /\ u \in 1..(i - 1)
  <2>1. Len(r.chain) \in Nat
    BY <1>2, ChainType
  <2>. QED  BY <2>1
<1>8. PICK fresh \in Fresh(ReadBlock), ok \in BOOLEAN, spooled \in BOOLEAN :
        \E bb : bb = ap_get_brigade(Now, i, ReadBlock, fresh, ok) /\ Prefetched(bb, spooled, key)
  BY <1>3, <1>6, <1>7 DEF apreq_filter_prefetch
<1>80. PICK bb : bb = ap_get_brigade(Now, i, ReadBlock, fresh, ok) /\ Prefetched(bb, spooled, key)
  BY <1>8
<1>. HIDE <1>8
<1>9. Fetches(Now, i, Len(delivered.data), bb)
  <2>1. ReadBlock \in Nat
    BY Sizes
  <2>. QED  BY <1>1, <1>2, <1>7, <1>80, <2>1, Fetched
<1>10. PICK z, nt, move, got, a : /\ z = bb.x /\ nt = LeftOnNet(bb) /\ move = Moving(bb) /\ got = bb.got
                                  /\ a = Len(delivered.data)
  OBVIOUS
<1>11. /\ Good(z) /\ z.r.f = f /\ z.r.used = r.used /\ bb.ok \in BOOLEAN /\ got \in Brigades /\ Left(nt)
       /\ Riding(z, a, Len(content) - Len(nt), i, move)
       /\ \A g \in Filters : Moved(ctx[g], z.ctx[g])
       /\ i <= Len(z.r.chain) + 1
  BY <1>2, <1>3, <1>9, <1>10 DEF Fetches
<1>12. /\ z.r.chain[u] = f /\ HasContext(z, f) /\ CtxOf(z, f) = c /\ z.of[f] = o
  <2>1. c.status # APR_EINIT
    BY DEF APR_EINIT, APR_INCOMPLETE
  <2>2. /\ z.r.chain[u] = r.chain[u]
        /\ HasContext(Now, r.chain[u]) /\ CtxOf(Now, r.chain[u]).status # APR_EINIT =>
             /\ HasContext(z, r.chain[u]) /\ CtxOf(z, r.chain[u]) = CtxOf(Now, r.chain[u])
             /\ z.of[r.chain[u]] = ctxOf[r.chain[u]]
    <3>1. u \in 1..(i - 1) /\ Now.r = r /\ Now.of = ctxOf /\ z = bb.x
      BY <1>2, <1>7, <1>10
    <3>. QED  BY <1>9, <3>1 DEF Fetches
  <2>3. f = r.chain[u]
    BY <1>6
  <2>4. o = ctxOf[f]
    BY <1>3
  <2>. QED  BY <1>4, <2>1, <2>2, <2>3, <2>4
<1>13. z \in World /\ Len(z.r.chain) \in Nat /\ u \in 1..Len(z.r.chain) /\ z.ctx[o] = c
  <2>1. z \in World /\ Len(z.r.chain) \in Nat
    BY <1>11, WorldType, ChainType DEF Good
  <2>2. u \in 1..Len(z.r.chain)
    BY <1>7, <1>11, <2>1
  <2>. QED  BY <1>12, <2>1, <2>2 DEF CtxOf
<1>14. Here(z, u, f, o, c)
  BY <1>4, <1>11, <1>12, <1>13 DEF Here, At
<1>15. /\ net' = nt
       /\ bb.ok /\ spooled =>
            /\ Become([z EXCEPT !.r = AsProtocol(@, f), !.ctx[o] = Feed(Spooled(c, got), got, key)])
            /\ found' = (IF found # None THEN found ELSE FoundIn(c, got, key))
            /\ broken' = broken
       /\ ~(bb.ok /\ spooled) =>
            /\ Become([z EXCEPT !.ctx[o] = [c EXCEPT !.filter_error = TRUE, !.status = GENERAL]])
            /\ broken' = (broken \/ bb.ok) /\ found' = found
  <2>1. ctx[ctxOf[r.f]] = c
    BY <1>3, <1>4
  <2>. QED  BY <1>3, <1>80, <1>10, <2>1, Zenon DEF Prefetched, Spooled
<1>16. PICK b : b = Len(content) - Len(nt)
  OBVIOUS
<1>17. Riding(z, a, b, i, move) /\ i = u + 1 /\ NoBrigade \in Brigades /\ broken \in BOOLEAN
  BY <1>1, <1>7, <1>11, <1>16 DEF Given, NoBrigade, Brigades
<1>18. \E y, d : /\ Become(y) /\ Leaves(z, f, o, c, y, d) /\ Flowed(y, a, b, broken')
                 /\ broken' \in BOOLEAN /\ (~broken' => ~broken) /\ found' \in Param \cup {None}
  <2>1. CASE bb.ok /\ spooled
    <3>1. PICK d : d = Feed(Spooled(c, got), got, key)
      OBVIOUS
    <3>2. PICK z1 : z1 = [z EXCEPT !.r = AsProtocol(z.r, f)]
      OBVIOUS
    <3>3. PICK y : y = [z EXCEPT !.r = AsProtocol(z.r, f), !.ctx[o] = d]
      OBVIOUS
    <3>4. Parsed(c, got, key, d) /\ Raises(z, f, z1)
      BY <3>1, <3>2 DEF Parsed, Raises
    <3>5. Updates(z1, o, d, y)
      <4>1. z = [r |-> z.r, of |-> z.of, ctx |-> z.ctx]
        BY <1>13 DEF World
      <4>2. z1 = [r |-> AsProtocol(z.r, f), of |-> z.of, ctx |-> z.ctx]
        BY <3>2, <4>1
      <4>3. y = [r |-> AsProtocol(z.r, f), of |-> z.of, ctx |-> [z.ctx EXCEPT ![o] = d]]
        BY <3>3, <4>1
      <4>4. [z1 EXCEPT !.ctx[o] = d] = [r |-> AsProtocol(z.r, f), of |-> z.of, ctx |-> [z.ctx EXCEPT ![o] = d]]
        BY <4>2
      <4>. QED  BY <4>3, <4>4 DEF Updates
    <3>6. Become(y) /\ broken' = broken /\ found' = (IF found # None THEN found ELSE FoundIn(c, got, key))
      BY <1>15, <2>1, <3>1, <3>3
    <3>7. Riding(z, a, b, i, got)
      <4>1. move = got
        BY <1>10, <2>1 DEF Moving
      <4>. QED  BY <1>17, <4>1
    <3>8. got \in Brigades /\ i = u + 1
      BY <1>11, <1>17
    <3>. HIDE <3>1, <3>2, <3>3
    <3>9. Leaves(z, f, o, c, y, d) /\ Flowed(y, a, b, broken) /\ FoundIn(c, got, key) \in Param \cup {None}
      BY <1>1, <1>14, <3>4, <3>5, <3>7, <3>8, PrefetchKeeps
    <3>10. found' \in Param \cup {None}
      <4>1. found \in Param \cup {None}
        BY <1>1 DEF Counters
      <4>. QED  BY <3>6, <3>9, <4>1
    <3>11. Flowed(y, a, b, broken') /\ broken' \in BOOLEAN /\ (~broken' => ~broken)
      BY <1>17, <3>6, <3>9
    <3>. QED  BY <3>6, <3>9, <3>10, <3>11
  <2>2. CASE ~(bb.ok /\ spooled)
    <3>1. PICK d : d = [c EXCEPT !.filter_error = TRUE, !.status = GENERAL]
      OBVIOUS
    <3>2. PICK y : y = [z EXCEPT !.ctx[o] = d]
      OBVIOUS
    <3>3. Fails(c, d) /\ Updates(z, o, d, y)
      BY <3>1, <3>2 DEF Fails, Updates
    <3>4. Become(y) /\ broken' = (broken \/ bb.ok) /\ found' = found
      BY <1>15, <2>2, <3>1, <3>2
    <3>5. PICK lost \in BOOLEAN : lost = broken'
      BY <1>11, <1>17, <3>4
    <3>6. Spares(lost, move) /\ (~broken' => ~broken)
      BY <1>10, <3>4, <3>5 DEF Spares, Moving
    <3>7. move \in Brigades /\ i = u + 1 /\ Riding(z, a, b, i, move)
      BY <1>10, <1>11, <1>17 DEF Moving
    <3>. HIDE <3>1, <3>2
    <3>8. Leaves(z, f, o, c, y, d) /\ Flowed(y, a, b, lost)
      BY <1>1, <1>14, <3>3, <3>6, <3>7, PrefetchLoses
    <3>9. found' \in Param \cup {None}
      BY <1>1, <3>4 DEF Counters
    <3>. QED  BY <3>4, <3>5, <3>6, <3>8, <3>9
  <2>. QED  BY <2>1, <2>2
<1>19. PICK y, d : /\ Become(y) /\ Leaves(z, f, o, c, y, d) /\ Flowed(y, a, b, broken')
                   /\ broken' \in BOOLEAN /\ (~broken' => ~broken) /\ found' \in Param \cup {None}
  BY <1>18
<1>20. \A g \in Filters : Moved(ctx[g], y.ctx[g])
  <2>1. \A g \in Filters : Moved(Now.ctx[g], z.ctx[g])
    BY <1>2, <1>11
  <2>2. Now.ctx[o] = c /\ z.ctx[o] = c /\ Now \in World /\ z \in World
    BY <1>2, <1>4, <1>13
  <2>3. \A g \in Filters : Moved(Now.ctx[g], y.ctx[g])
    BY <1>1, <1>4, <1>19, <2>1, <2>2, LeavesMoved
  <2>. QED  BY <1>2, <2>3
<1>21. Gave(delivered, broken') /\ Left(net') /\ Streams(y, delivered, net', broken')
  <2>1. Gave(delivered, broken')
    BY <1>1, <1>19 DEF Gave
  <2>2. Left(net')
    BY <1>11, <1>15
  <2>3. Flowed(y, Len(delivered.data), Len(content) - Len(net'), broken')
    BY <1>10, <1>15, <1>16, <1>19
  <2>. QED  BY <2>1, <2>2, <2>3 DEF Flowed, Streams
<1>22. y.r.used <= MaxFilters /\ y.r.f = r.f
  BY <1>1, <1>3, <1>11, <1>19 DEF Leaves
<1>23. /\ HasContext(y, r.f) /\ CtxOf(y, r.f) = d /\ y.ctx[ctxOf[r.f]] = d /\ Good(y)
       /\ d.parser # None /\ d.parser.hook = c.parser.hook
  <2>1. /\ HasContext(y, f) /\ CtxOf(y, f) = d /\ y.ctx[o] = d /\ Good(y)
        /\ d.parser # None /\ d.parser.hook = c.parser.hook
    BY <1>19 DEF Leaves
  <2>. QED  BY <1>3, <2>1
<1>24. Prefetches(y, c, d)
  BY <1>19, <1>20, <1>21, <1>22, <1>23 DEF Prefetches
<1>. QED  BY <1>24

\* A step that prefetches, whatever the call does next.
LEMMA PrefetchSteady ==
  ASSUME TypeOK, IInv, NEW y, NEW c, NEW d, Prefetches(y, c, d), CallOn(call', y),
         UNCHANGED <<content, request, phase, delivered, redirects, sets>>
  PROVE  Steady
<1>1. /\ content' = content /\ request' = request /\ phase' = phase /\ delivered' = delivered
      /\ redirects' = redirects /\ sets' = sets
  OBVIOUS
<1>2. /\ Become(y) /\ Good(y) /\ y.r.used <= MaxFilters /\ Left(net') /\ broken' \in BOOLEAN
      /\ Gave(delivered, broken') /\ Streams(y, delivered, net', broken') /\ found' \in Param \cup {None}
      /\ \A g \in Filters : Moved(ctx[g], y.ctx[g])
  BY DEF Prefetches
<1>3. Given /\ Counters
  BY HoldsNow
<1>4. Counters' /\ request' \in Request
  BY <1>1, <1>2, <1>3 DEF Counters, Given
<1>5. TypeOK' /\ IInv'
  BY <1>1, <1>2, <1>4, HoldsNext
<1>6. ctx' = y.ctx
  BY <1>2 DEF Become
<1>. QED  BY <1>2, <1>5, <1>6 DEF Steady

\* One read of apache2_body.
LEMMA BodyLoopSteady ==
  ASSUME TypeOK, IInv, apache2_body_loop
  PROVE  Steady
<1>1. PICK c : c = CtxOf(Now, r.f)
  OBVIOUS
<1>2. call.op = "body" /\ apreq_filter_prefetch(None) /\ CallOn(call, Now)
  BY HoldsNow DEF apache2_body_loop
<1>3. r.f # None /\ HasContext(Now, r.f) /\ c.status = APR_INCOMPLETE
  BY <1>1, <1>2, NowIs DEF CallOn
<1>4. PICK y, d : Prefetches(y, c, d)
  BY <1>1, <1>2, <1>3, PrefetchGood
<1>5. /\ y.r.f = r.f /\ HasContext(y, r.f) /\ CtxOf(y, r.f) = d /\ d.parser # None /\ ctx' = y.ctx
      /\ y.ctx[ctxOf[r.f]] = d
  BY <1>4 DEF Prefetches, Become
<1>6. call' = IF d.status = APR_INCOMPLETE THEN call ELSE Idle
  BY <1>5 DEF apache2_body_loop
<1>7. CallOn(call', y)
  <2>1. CASE d.status = APR_INCOMPLETE
    BY <1>2, <1>3, <1>5, <1>6, <2>1 DEF CallOn
  <2>2. CASE d.status # APR_INCOMPLETE
    BY <1>6, <2>2 DEF CallOn, Idle
  <2>. QED  BY <2>1, <2>2
<1>. QED  BY <1>4, <1>7, PrefetchSteady DEF apache2_body_loop

\* The first read of apache2_body_get.
LEMMA GetFirstSteady ==
  ASSUME TypeOK, IInv, apache2_body_get_first
  PROVE  Steady
<1>1. PICK c : c = CtxOf(Now, r.f)
  OBVIOUS
<1>2. call.op = "first" /\ apreq_filter_prefetch(None) /\ CallOn(call, Now) /\ call' = [call EXCEPT !.op = "look"]
  BY HoldsNow DEF apache2_body_get_first
<1>3. r.f # None /\ HasContext(Now, r.f) /\ c.status = APR_INCOMPLETE
  BY <1>1, <1>2, NowIs DEF CallOn
<1>4. PICK y, d : Prefetches(y, c, d)
  BY <1>1, <1>2, <1>3, PrefetchGood
<1>5. y.r.f = r.f /\ HasContext(y, r.f) /\ CtxOf(y, r.f) = d /\ d.parser # None
  BY <1>4 DEF Prefetches
<1>6. CallOn(call', y)
  BY <1>2, <1>3, <1>5 DEF CallOn
<1>. QED  BY <1>4, <1>6, PrefetchSteady DEF apache2_body_get_first

\* A step that changes nothing but the running call.
LEMMA CallSteady ==
  ASSUME TypeOK, IInv, CallOn(call', Now), found' \in Param \cup {None}, UNCHANGED <<r, ctxOf, ctx, rest, sets>>
  PROVE  Steady
<1>1. /\ r' = r /\ ctxOf' = ctxOf /\ ctx' = ctx /\ content' = content /\ request' = request /\ phase' = phase
      /\ net' = net /\ delivered' = delivered /\ redirects' = redirects /\ broken' = broken /\ sets' = sets
  BY DEF rest
<1>2. /\ Given /\ Good(Now) /\ r.used <= MaxFilters /\ Left(net) /\ Gave(delivered, broken) /\ Counters
      /\ Streams(Now, delivered, net, broken)
  BY HoldsNow
<1>3. Become(Now) /\ Now.r = r
  BY <1>1, NowIs DEF Become
<1>4. Counters' /\ request' \in Request /\ broken' \in BOOLEAN
  BY <1>1, <1>2 DEF Counters, Given
<1>5. /\ Left(net') /\ Gave(delivered', broken') /\ Streams(Now, delivered', net', broken') /\ Now.r.used <= MaxFilters
  BY <1>1, <1>2, <1>3
<1>6. TypeOK' /\ IInv'
  BY <1>1, <1>2, <1>3, <1>4, <1>5, HoldsNext
<1>7. \A f \in Filters : Moved(ctx[f], ctx[f])
  <2>1. \A f \in Filters : ctx[f] \in Context
    BY <1>2, NowIs, WorldType DEF Good
  <2>2. ASSUME NEW f \in Filters PROVE Moved(ctx[f], ctx[f])
    <3>1. PICK c \in Context : c = ctx[f]
      BY <2>1
    <3>2. Moved(c, c)
      BY <1>2, MovesTrans
    <3>. QED  BY <3>1, <3>2
  <2>. QED  BY <2>2
<1>. QED  BY <1>1, <1>6, <1>7 DEF Steady

\* One read of apache2_body_get while find_param is in the list.
LEMMA GetScanSteady ==
  ASSUME TypeOK, IInv, apache2_body_get_scan
  PROVE  Steady
<1>1. PICK c : c = CtxOf(Now, r.f)
  OBVIOUS
<1>2. call.op = "scan" /\ CallOn(call, Now) /\ Counters
  BY HoldsNow DEF apache2_body_get_scan
<1>3. r.f # None /\ HasContext(Now, r.f) /\ c = ctx[ctxOf[r.f]] /\ c.parser # None /\ c.parser.hook # <<>>
  BY <1>1, <1>2, NowIs DEF CallOn
<1>4. PICK op \in {"leave", "scan"} : call' = [call EXCEPT !.op = op]
  BY DEF apache2_body_get_scan
<1>5. CASE c.status = APR_INCOMPLETE
  <2>1. apreq_filter_prefetch(call.name)
    BY <1>3, <1>5 DEF apache2_body_get_scan
  <2>2. PICK y, d : Prefetches(y, c, d)
    BY <1>1, <1>3, <1>5, <2>1, PrefetchGood
  <2>3. y.r.f = r.f /\ HasContext(y, r.f) /\ CtxOf(y, r.f) = d /\ d.parser # None /\ d.parser.hook # <<>>
    BY <1>3, <2>2 DEF Prefetches
  <2>4. CallOn(call', y)
    BY <1>2, <1>3, <1>4, <2>3 DEF CallOn
  <2>. QED  BY <2>2, <2>4, PrefetchSteady DEF apache2_body_get_scan
<1>6. CASE c.status # APR_INCOMPLETE
  <2>1. UNCHANGED <<r, ctxOf, ctx, net, found, broken>>
    BY <1>3, <1>6 DEF apache2_body_get_scan
  <2>2. UNCHANGED <<content, request, phase, delivered, redirects, sets>>
    BY DEF apache2_body_get_scan
  <2>3. UNCHANGED <<r, ctxOf, ctx, rest, sets>>
    BY <2>1, <2>2 DEF rest
  <2>4. CallOn(call', Now)
    BY <1>1, <1>2, <1>3, <1>4, NowIs DEF CallOn
  <2>5. found' \in Param \cup {None}
    BY <1>2, <2>1 DEF Counters
  <2>. QED  BY <2>3, <2>4, <2>5, CallSteady
<1>. QED  BY <1>5, <1>6

-----------------------------------------------------------------------------
(* The operations of a handle.                                             *)

\* A step that reads nothing.
LEMMA MoveSteady ==
  ASSUME TypeOK, IInv, NEW y, Good(y), Become(y), y.r.used <= MaxFilters, CallOn(call', y),
         \A a, b : Flow(Now, a, b) => Flow(y, a, b), \A g \in Filters : Moved(ctx[g], y.ctx[g]),
         content' = content, request' \in Request, net' = net, delivered' = delivered, broken' = broken, Counters'
  PROVE  Steady
<1>1. /\ Given /\ Left(net) /\ Gave(delivered, broken)
      /\ Flow(Now, Len(delivered.data), Len(content) - Len(net))
  BY HoldsNow
<1>2. Flow(y, Len(delivered.data), Len(content) - Len(net))
  BY <1>1
<1>3. Streams(y, delivered, net, broken)
  BY <1>2 DEF Flow, Streams, Flowing
<1>4. /\ Left(net') /\ Gave(delivered', broken') /\ Streams(y, delivered', net', broken') /\ broken' \in BOOLEAN
  BY <1>1, <1>3 DEF Given
<1>5. TypeOK' /\ IInv'
  BY <1>4, HoldsNext
<1>6. ctx' = y.ctx
  BY DEF Become
<1>. QED  BY <1>5, <1>6 DEF Steady

\* A filter that was not made yet is in no chain and has no context.
LEMMA Unmade ==
  ASSUME NEW x, Good(x), NEW f, f = x.r.used + 1
  PROVE  /\ f \in Nat \ {0} /\ ~HasContext(x, f) /\ \A t \in 1..Len(x.r.chain) : x.r.chain[t] # f
<1>1. x \in World /\ Chained(x.r) /\ Owned(x) /\ x.r \in Chain /\ DOMAIN x.r.chain = 1..Len(x.r.chain)
  BY WorldType, ChainType DEF Good
<1>2. PICK n \in Nat : n = x.r.used /\ f = n + 1
  BY <1>1 DEF Chain
<1>3. ~HasContext(x, f)
  <2>1. SUFFICES ASSUME f \in Filters, x.of[f] # 0 PROVE FALSE
    BY DEF HasContext
  <2>2. f <= n
    BY <1>1, <1>2, <2>1 DEF Owned
  <2>. QED  BY <1>2, <2>2
<1>4. ASSUME NEW t \in 1..Len(x.r.chain), x.r.chain[t] = f PROVE FALSE
  <2>1. f = Other \/ f \in 1..n
    BY <1>1, <1>2, <1>4 DEF Chained
  <2>2. f \in Nat /\ Other \notin Nat
    BY <1>2, Nulls
  <2>. QED  BY <1>2, <2>1, <2>2
<1>. QED  BY <1>2, <1>3, <1>4

\* y is x after get_apreq_filter: the handle has a filter.
Handles(x, y) ==
  /\ Good(y) /\ y.of = x.of /\ y.ctx = x.ctx /\ y.r.proto = x.r.proto
  /\ y.r.f # None /\ y.r.f \in 1..y.r.used /\ y.r.used >= x.r.used
  /\ y.r.f \in Range(y.r.chain) \/ HasContext(y, y.r.f)
  /\ \A g : Seen(y, g) = Seen(x, g)
  /\ \A a, b : Flow(x, a, b) => Flow(y, a, b)
  /\ x.r.f # None => y = x
  /\ x.r.f = None => Puts(x, y.r.f, y.r) /\ ~HasContext(y, y.r.f) /\ y.r.used = x.r.used + 1 /\ y.r.f = y.r.used
LEMMA GetGood ==
  ASSUME Given, NEW x, Good(x), NEW y, y = [x EXCEPT !.r = get_apreq_filter(x.r)]
  PROVE  Handles(x, y)
<1>1. x \in World /\ Handled(x) /\ x.r \in Chain /\ x.r.used \in Nat /\ Len(x.r.chain) \in Nat
  BY WorldType, ChainType DEF Good, Chain
<1>2. CASE x.r.f # None
  <2>1. y = x
    <3>1. get_apreq_filter(x.r) = x.r
      BY <1>2 DEF get_apreq_filter
    <3>2. x = [r |-> x.r, of |-> x.of, ctx |-> x.ctx]
      BY <1>1 DEF World
    <3>3. [x EXCEPT !.r = x.r] = x
      BY <3>2
    <3>. QED  BY <3>1, <3>3
  <2>2. x.r.f \in 1..x.r.used /\ (x.r.f \in Range(x.r.chain) \/ HasContext(x, x.r.f))
    BY <1>1, <1>2 DEF Handled
  <2>3. Handles(x, x)
    BY <1>1, <1>2, <2>2 DEF Handles
  <2>. QED  BY <2>1, <2>3
<1>3. CASE x.r.f = None
  <2>1. PICK f : f = x.r.used + 1
    OBVIOUS
  <2>2. f \in Nat \ {0} /\ ~HasContext(x, f) /\ \A t \in 1..Len(x.r.chain) : x.r.chain[t] # f
    BY <2>1, Unmade
  <2>3. PICK q, s : q = OnTop(x.r, f) /\ s = [q EXCEPT !.f = f, !.used = f]
    BY Zenon
  <2>4. get_apreq_filter(x.r) = s
    BY <1>3, <2>1, <2>3 DEF get_apreq_filter
  <2>5. f \in Links /\ f # None /\ f # Other
    BY <2>2, Nulls DEF Links
  <2>6. /\ q \in Chain /\ q.f = x.r.f /\ q.used = x.r.used /\ q.proto = x.r.proto
        /\ Len(q.chain) = Len(x.r.chain) + 1 /\ q.chain[1] = f
        /\ \A t \in 1..Len(q.chain) : t # 1 => q.chain[t] = x.r.chain[t - 1]
    BY <1>1, <2>3, <2>5, Pushed
  <2>7. s \in Chain /\ s.chain = q.chain /\ s.proto = q.proto /\ s.f = f /\ s.used = f
    BY <2>2, <2>3, <2>6 DEF Chain
  <2>8. f >= x.r.used /\ f \in 1..f
    BY <1>1, <2>1
  <2>9. Puts(x, f, s)
    BY <2>2, <2>5, <2>6, <2>7, <2>8 DEF Puts
  <2>10. /\ y \in World /\ y.r = s /\ y.of = x.of /\ y.ctx = x.ctx
         /\ \A g : HasContext(y, g) <=> HasContext(x, g)
         /\ \A g : CtxOf(y, g) = CtxOf(x, g) /\ Seen(y, g) = Seen(x, g)
    BY <1>1, <2>4, <2>7, RewireValue
  <2>11. Seen(x, f) = Nothing
    BY <2>2, SeenIs
  <2>12. Quiet(Seen(x, f)) /\ ~Seen(x, f).parsing
    BY <2>11 DEF Quiet, Nothing
  <2>13. y = [x EXCEPT !.r = s]
    BY <2>4
  <2>. HIDE <2>3, <2>4, <2>1
  <2>14. Good(y)
    <3>1. Good([x EXCEPT !.r = s])
      BY <2>2, <2>5, <2>7, <2>9, PushGood
    <3>. QED  BY <2>13, <3>1
  <2>15. ASSUME NEW a, NEW b, Flow(x, a, b) PROVE Flow(y, a, b)
    <3>1. Flow([x EXCEPT !.r = s], a, b)
      BY <1>1, <2>9, <2>12, <2>15, PushFlow
    <3>. QED  BY <2>13, <3>1
  <2>16. f \in Range(s.chain)
    <3>1. 1 \in DOMAIN s.chain
      BY <1>1, <2>6, <2>7, ChainType
    <3>. QED  BY <2>6, <2>7, <3>1 DEF Range
  <2>17. f = x.r.used + 1
    BY <2>1
  <2>18. y.r.f = f /\ y.r = s /\ s.used = f
    BY <2>7, <2>10
  <2>19. y.r.f # None /\ y.r.f \in 1..y.r.used /\ y.r.used >= x.r.used /\ y.r.f \in Range(y.r.chain) /\ y.r.proto = x.r.proto
    BY <2>5, <2>6, <2>7, <2>8, <2>16, <2>18
  <2>20. Puts(x, y.r.f, y.r) /\ ~HasContext(y, y.r.f) /\ y.r.used = x.r.used + 1 /\ y.r.f = y.r.used
    BY <2>2, <2>9, <2>10, <2>17, <2>18
  <2>. QED  BY <1>3, <2>10, <2>14, <2>15, <2>19, <2>20 DEF Handles
<1>. QED  BY <1>2, <1>3

\* get_apreq_filter gives the handle a filter on top, if it has none.
LEMMA UsingGood ==
  ASSUME TypeOK, IInv, Room, NEW x, x = Using
  PROVE  /\ Handles(Now, x) /\ Good(x) /\ x.r.used <= MaxFilters /\ x.r.f \in Filters
         /\ HasContext(x, x.r.f) \/ x.r.f \in Range(x.r.chain)
         /\ x.ctx = ctx /\ \A a, b : Flow(Now, a, b) => Flow(x, a, b)
<1>1. Given /\ Good(Now)
  BY HoldsNow
<1>2. x = [Now EXCEPT !.r = get_apreq_filter(Now.r)]
  BY NowIs DEF Using
<1>3. Handles(Now, x)
  BY <1>1, <1>2, GetGood
<1>4. x.r.used <= MaxFilters
  BY DEF Room
<1>5. /\ Good(x) /\ x.r.f \in 1..x.r.used /\ (HasContext(x, x.r.f) \/ x.r.f \in Range(x.r.chain))
      /\ x.ctx = ctx /\ \A a, b : Flow(Now, a, b) => Flow(x, a, b)
  BY <1>3, NowIs DEF Handles
<1>6. x.r.used \in Nat
  BY <1>5, WorldType DEF Good, Chain
<1>7. x.r.f \in Filters
  BY <1>4, <1>5, <1>6, Sizes DEF Filters
<1>. QED  BY <1>3, <1>4, <1>5, <1>7

\* apreq_handle_apache2.
LEMMA HandleSteady ==
  ASSUME TypeOK, IInv, apreq_handle_apache2
  PROVE  Steady
<1>1. PICK x : x = Using
  OBVIOUS
<1>2. call = Idle /\ Room /\ Become(x) /\ call' = call /\ found' = found /\ sets' = sets
      /\ content' = content /\ request' = request /\ phase' = phase
      /\ net' = net /\ delivered' = delivered /\ redirects' = redirects /\ broken' = broken
  BY <1>1 DEF apreq_handle_apache2, rest
<1>3. Good(x) /\ x.r.used <= MaxFilters /\ x.ctx = ctx /\ \A a, b : Flow(Now, a, b) => Flow(x, a, b)
  BY <1>1, <1>2, UsingGood
<1>4. Given /\ Counters /\ Good(Now)
  BY HoldsNow
<1>5. CallOn(call', x)
  BY <1>2 DEF CallOn, Idle
<1>6. Counters' /\ request' \in Request
  BY <1>2, <1>4 DEF Counters, Given
<1>7. ASSUME NEW g \in Filters PROVE Moved(ctx[g], x.ctx[g])
  <2>1. PICK c \in Context : c = ctx[g]
    BY <1>4, NowIs, WorldType DEF Good
  <2>2. Moved(c, c)
    BY <1>4, MovesTrans
  <2>. QED  BY <1>3, <2>1, <2>2
<1>. QED  BY <1>2, <1>3, <1>5, <1>6, <1>7, MoveSteady

\* The handle's filter has its context, and no block was read.
Attends(y) ==
  /\ Good(y) /\ y.r.used <= MaxFilters /\ y.r.f \in Filters /\ y.r.f # None /\ HasContext(y, y.r.f)
  /\ \A a, b : Flow(Now, a, b) => Flow(y, a, b)
  /\ \A g \in Filters : Mild(ctx[g], y.ctx[g])

\* The handle whose filter is served can be worked with.
LEMMA AttendsUsing ==
  ASSUME TypeOK, IInv, Room, NEW x, x = Using, NEW y, Serves(x, x.r.f, y)
  PROVE  Attends(y)
<1>1. /\ Given /\ Good(Now) /\ Handles(Now, x) /\ x.r.used <= MaxFilters /\ x.r.f \in Filters /\ x.ctx = ctx
      /\ \A a, b : Flow(Now, a, b) => Flow(x, a, b)
  BY HoldsNow, UsingGood
<1>2. /\ Good(y) /\ HasContext(y, x.r.f) /\ y.r.f = x.r.f /\ y.r.used = x.r.used
      /\ \A g \in Filters : Mild(x.ctx[g], y.ctx[g])
      /\ \A a, b : Flow(x, a, b) => Flow(y, a, b)
  BY DEF Serves
<1>3. x.r.f # None
  BY <1>1 DEF Handles
<1>. QED  BY <1>1, <1>2, <1>3 DEF Attends

\* It still can after its filter is served again.
LEMMA AttendsAgain ==
  ASSUME TypeOK, IInv, NEW x, Attends(x), NEW y, Serves(x, x.r.f, y)
  PROVE  Attends(y)
<1>1. Given /\ Good(Now)
  BY HoldsNow
<1>2. /\ Good(y) /\ HasContext(y, x.r.f) /\ y.r.f = x.r.f /\ y.r.used = x.r.used
      /\ \A g \in Filters : Mild(x.ctx[g], y.ctx[g])
      /\ \A a, b : Flow(x, a, b) => Flow(y, a, b)
  BY DEF Serves
<1>3. /\ Good(x) /\ x.r.used <= MaxFilters /\ x.r.f \in Filters /\ x.r.f # None
      /\ \A a, b : Flow(Now, a, b) => Flow(x, a, b)
      /\ \A g \in Filters : Mild(ctx[g], x.ctx[g])
  BY DEF Attends
<1>4. ASSUME NEW g \in Filters PROVE Mild(ctx[g], y.ctx[g])
  <2>1. ctx[g] \in Context /\ x.ctx[g] \in Context /\ y.ctx[g] \in Context
    BY <1>1, <1>2, <1>3, NowIs, WorldType DEF Good
  <2>. QED  BY <1>1, <1>2, <1>3, <2>1, MovesTrans
<1>. QED  BY <1>2, <1>3, <1>4 DEF Attends

\* A step of a handle that reads nothing.
LEMMA AttendsSteady ==
  ASSUME TypeOK, IInv, NEW y, Attends(y), Become(y), CallOn(call', y), found' \in Param \cup {None},
         sets' \in 0..MaxSettings, UNCHANGED rest
  PROVE  Steady
<1>1. /\ content' = content /\ request' = request /\ phase' = phase
      /\ net' = net /\ delivered' = delivered /\ redirects' = redirects /\ broken' = broken
  BY DEF rest
<1>2. Given /\ Counters /\ Good(Now)
  BY HoldsNow
<1>3. Counters' /\ request' \in Request
  BY <1>1, <1>2 DEF Counters, Given
<1>4. /\ Good(y) /\ y.r.used <= MaxFilters /\ \A a, b : Flow(Now, a, b) => Flow(y, a, b)
  BY DEF Attends
<1>5. ASSUME NEW g \in Filters PROVE Moved(ctx[g], y.ctx[g])
  <2>1. ctx[g] \in Context /\ y.ctx[g] \in Context /\ Mild(ctx[g], y.ctx[g])
    BY <1>2, <1>4, NowIs, WorldType DEF Good, Attends
  <2>. QED  BY <1>2, <2>1, MovesTrans
<1>. QED  BY <1>1, <1>3, <1>4, <1>5, MoveSteady

\* apache2_brigade_limit_set and apache2_temp_dir_set.
LEMMA SpoolSettingSteady ==
  ASSUME TypeOK, IInv, apache2_spool_setting
  PROVE  Steady
<1>1. PICK x, y : x = Using /\ y = apreq_filter_make_context(x, x.r.f) /\ y = WithContext
  BY DEF WithContext
<1>2. call = Idle /\ Room /\ Become(y) /\ call' = call /\ found' = found /\ sets' = sets /\ UNCHANGED rest
  BY <1>1 DEF apache2_spool_setting
<1>3. Given /\ Counters
  BY HoldsNow
<1>4. Good(x) /\ x.r.f \in Filters /\ (HasContext(x, x.r.f) \/ x.r.f \in Range(x.r.chain))
  BY <1>1, <1>2, UsingGood
<1>5. Serves(x, x.r.f, y)
  BY <1>1, <1>3, <1>4, MakeGood
<1>6. Attends(y)
  BY <1>1, <1>2, <1>5, AttendsUsing
<1>7. CallOn(call', y)
  BY <1>2 DEF CallOn, Idle
<1>8. found' \in Param \cup {None} /\ sets' \in 0..MaxSettings
  BY <1>2, <1>3 DEF Counters
<1>. QED  BY <1>2, <1>6, <1>7, <1>8, AttendsSteady

\* apache2_body up to its first read.
LEMMA BodySteady ==
  ASSUME TypeOK, IInv, apache2_body
  PROVE  Steady
<1>1. PICK x, y : x = Using /\ y = Prepared(x, x.r.f)
  OBVIOUS
<1>2. /\ call = Idle /\ Room /\ Become(y) /\ found' = found /\ sets' = sets /\ UNCHANGED rest
      /\ call' = IF CtxOf(y, y.r.f).status = APR_INCOMPLETE THEN [op |-> "body", name |-> None] ELSE Idle
  BY <1>1 DEF apache2_body
<1>3. Given /\ Counters
  BY HoldsNow
<1>4. Good(x) /\ x.r.f \in Filters /\ (HasContext(x, x.r.f) \/ x.r.f \in Range(x.r.chain))
  BY <1>1, <1>2, UsingGood
<1>5. Serves(x, x.r.f, y)
  BY <1>1, <1>3, <1>4, PreparedGood
<1>6. Attends(y)
  BY <1>1, <1>2, <1>5, AttendsUsing
<1>7. CallOn(call', y)
  <2>1. CASE CtxOf(y, y.r.f).status = APR_INCOMPLETE
    <3>1. y.r.f # None /\ HasContext(y, y.r.f) /\ Good(y)
      BY <1>6 DEF Attends
    <3>2. CtxOf(y, y.r.f).parser # None
      <4>1. Sound(CtxOf(y, y.r.f))
        BY <3>1, WorldType DEF Good
      <4>. QED  BY <2>1, <4>1 DEF Sound
    <3>3. call' = [op |-> "body", name |-> None]
      BY <1>2, <2>1
    <3>. QED  BY <2>1, <3>1, <3>2, <3>3 DEF CallOn
  <2>2. CASE CtxOf(y, y.r.f).status # APR_INCOMPLETE
    BY <1>2, <2>2 DEF CallOn, Idle
  <2>. QED  BY <2>1, <2>2
<1>8. found' \in Param \cup {None} /\ sets' \in 0..MaxSettings
  BY <1>2, <1>3 DEF Counters
<1>. QED  BY <1>2, <1>6, <1>7, <1>8, AttendsSteady

\* apache2_body_get up to its first read.
LEMMA GetSteady ==
  ASSUME TypeOK, IInv, NEW name \in Names, apache2_body_get(name)
  PROVE  Steady
<1>1. PICK w, x, y : w = Using /\ x = apreq_filter_make_context(w, w.r.f) /\ x = WithContext /\ y = Prepared(x, x.r.f)
  BY DEF WithContext
<1>2. PICK first, now : first = CtxOf(x, x.r.f).status /\ now = CtxOf(y, y.r.f).status
  OBVIOUS
<1>3. /\ call = Idle /\ Room /\ Become(y) /\ found' = found /\ sets' = sets /\ UNCHANGED rest
      /\ \/ first = APR_INCOMPLETE /\ call' = [op |-> "look", name |-> name]
         \/ now = APR_INCOMPLETE /\ call' = [op |-> "first", name |-> name]
         \/ call' = Idle
  BY <1>1, <1>2 DEF apache2_body_get
<1>4. Given /\ Counters
  BY HoldsNow
<1>5. Good(w) /\ w.r.f \in Filters /\ (HasContext(w, w.r.f) \/ w.r.f \in Range(w.r.chain))
  BY <1>1, <1>3, UsingGood
<1>6. Serves(w, w.r.f, x)
  BY <1>1, <1>4, <1>5, MakeGood
<1>7. Attends(x)
  BY <1>1, <1>3, <1>6, AttendsUsing
<1>8. Good(x) /\ x.r.f \in Filters /\ HasContext(x, x.r.f)
  BY <1>7 DEF Attends
<1>9. Serves(x, x.r.f, y)
  BY <1>1, <1>4, <1>8, PreparedGood
<1>10. Attends(y)
  BY <1>7, <1>9, AttendsAgain
<1>11. y.r.f # None /\ HasContext(y, y.r.f) /\ Good(y) /\ y.r.f = x.r.f
  BY <1>9, <1>10 DEF Attends, Serves
<1>12. first = APR_INCOMPLETE => now = APR_INCOMPLETE
  <2>1. x.of[x.r.f] # 0 /\ x.of[x.r.f] \in Filters
    BY <1>8, WorldType DEF HasContext, Good
  <2>2. Extends(x, y)
    BY <1>9, <2>1 DEF Serves
  <2>3. y.of[x.r.f] = x.of[x.r.f]
    BY <1>8, <2>1, <2>2 DEF Extends
  <2>4. first = APR_INCOMPLETE => y.ctx[x.of[x.r.f]] = x.ctx[x.of[x.r.f]]
    BY <1>2, <2>1, <2>2 DEF Extends, CtxOf, APR_INCOMPLETE, APR_EINIT
  <2>. QED  BY <1>2, <1>11, <2>3, <2>4 DEF CtxOf
<1>13. now = APR_INCOMPLETE => CtxOf(y, y.r.f).parser # None
  <2>1. Sound(CtxOf(y, y.r.f))
    BY <1>11, WorldType DEF Good
  <2>. QED  BY <1>2, <2>1 DEF Sound
<1>14. CallOn(call', y)
  <2>1. CASE first = APR_INCOMPLETE /\ call' = [op |-> "look", name |-> name]
    BY <1>11, <1>12, <1>13, <2>1 DEF CallOn
  <2>2. CASE now = APR_INCOMPLETE /\ call' = [op |-> "first", name |-> name]
    BY <1>2, <1>11, <1>13, <2>2 DEF CallOn
  <2>3. CASE call' = Idle
    BY <2>3 DEF CallOn, Idle
  <2>. QED  BY <1>3, <2>1, <2>2, <2>3
<1>15. found' \in Param \cup {None} /\ sets' \in 0..MaxSettings
  BY <1>3, <1>4 DEF Counters
<1>. QED  BY <1>3, <1>10, <1>14, <1>15, AttendsSteady

\* A context is set and reads no block: d instead of c.
Sets(c, d) ==
  /\ d \in Context /\ d.status = c.status /\ d.spool = c.spool /\ d.body = c.body
  /\ d.shown = c.shown /\ d.filter_error = c.filter_error /\ d.bytes_read = c.bytes_read
  /\ c.parser # None => d.parser # None /\ d.parser.st = c.parser.st
  /\ d.parser # None /\ c.parser = None => d.parser.st = "reading"
LEMMA SetKeeps ==
  ASSUME Given, NEW c \in Context, Sound(c), NEW d, Sets(c, d)
  PROVE  d \in Context /\ Sound(d) /\ Settled(c, d) /\ Mild(c, d) /\ SeenOf(d) = SeenOf(c)
<1>1. /\ d \in Context /\ d.status = c.status /\ d.spool = c.spool /\ d.body = c.body
      /\ d.shown = c.shown /\ d.filter_error = c.filter_error /\ d.bytes_read = c.bytes_read
      /\ c.parser # None => d.parser # None /\ d.parser.st = c.parser.st
      /\ d.parser # None /\ c.parser = None => d.parser.st = "reading"
  BY DEF Sets
<1>2. Sound(d)
  BY <1>1 DEF Sound
<1>3. Settled(c, d) /\ Mild(c, d) /\ SeenOf(d) = SeenOf(c)
  BY <1>1 DEF Settled, Mild, Lazy, Shows, SeenOf
<1>. QED  BY <1>1, <1>2, <1>3

\* Setting something in the context of the handle.
LEMMA AttendsSet ==
  ASSUME TypeOK, IInv, NEW x, Attends(x), NEW o, o = x.of[x.r.f], NEW d, Sets(x.ctx[o], d), NEW y, Updates(x, o, d, y)
  PROVE  Attends(y) /\ CtxOf(y, y.r.f) = d /\ y.r = x.r
<1>1. Given /\ Good(Now)
  BY HoldsNow
<1>2. /\ Good(x) /\ x \in World /\ x.r.used <= MaxFilters /\ x.r.f \in Filters /\ x.r.f # None
      /\ HasContext(x, x.r.f) /\ \A a, b : Flow(Now, a, b) => Flow(x, a, b)
      /\ \A g \in Filters : Mild(ctx[g], x.ctx[g])
  BY Zenon DEF Attends, Good
<1>3. o \in Filters /\ x.ctx[o] \in Context /\ x.of[o] = o /\ Sound(x.ctx[o])
  <2>1. o \in Filters /\ x.ctx[o] \in Context
    BY <1>2, WorldType, Zenon
  <2>2. x.of[o] = o
    BY <1>2, Zenon DEF Good, Owned, HasContext
  <2>. QED  BY <1>2, <2>1, <2>2 DEF Good
<1>4. PICK c \in Context : c = x.ctx[o]
  BY <1>3, Zenon
<1>5. d \in Context /\ Sound(d) /\ Settled(c, d) /\ Mild(c, d) /\ SeenOf(d) = SeenOf(c)
  BY <1>1, <1>3, <1>4, SetKeeps, Zenon
<1>6. /\ y \in World /\ y.r = x.r /\ y.of = x.of /\ y.ctx[o] = d
      /\ \A g \in Filters : g # o => y.ctx[g] = x.ctx[g]
      /\ \A g : HasContext(y, g) <=> HasContext(x, g)
      /\ \A g : HasContext(x, g) => CtxOf(y, g) = IF x.of[g] = o THEN d ELSE CtxOf(x, g)
  BY <1>2, <1>3, <1>5, UpdateIs
<1>7. Good(y)
  <2>1. Holds(x, o, d) /\ (d.status = INTERRUPT => x.ctx[o].status = INTERRUPT)
    BY <1>4, Zenon DEF Holds, Sets
  <2>2. Good([x EXCEPT !.ctx[o] = d])
    BY <1>2, <1>3, <1>4, <1>5, <2>1, UpdateGood, Zenon
  <2>. QED  BY <2>2 DEF Updates
<1>8. ASSUME NEW g \in Filters PROVE Mild(ctx[g], y.ctx[g])
  <2>1. CASE g # o
    BY <1>2, <1>6, <2>1, Zenon
  <2>2. CASE g = o
    <3>1. ctx[o] \in Context /\ Mild(ctx[o], c)
      BY <1>1, <1>2, <1>3, <1>4, NowIs, WorldType DEF Good
    <3>2. Mild(ctx[o], d)
      BY <1>1, <1>4, <1>5, <3>1, MovesTrans, Zenon
    <3>. QED  BY <1>6, <2>2, <3>2, Zenon
  <2>. QED  BY <2>1, <2>2, Zenon
<1>9. ASSUME NEW g PROVE Like(Seen(y, g), Seen(x, g))
  <2>1. CASE ~HasContext(x, g)
    BY <1>6, <2>1, SeenIs DEF Like
  <2>2. CASE HasContext(x, g) /\ x.of[g] # o
    BY <1>6, <2>2, SeenIs DEF Like
  <2>3. CASE HasContext(x, g) /\ x.of[g] = o
    <3>1. Seen(y, g) = SeenOf(d) /\ Seen(x, g) = SeenOf(c)
      BY <1>4, <1>6, <2>3, SeenIs DEF CtxOf
    <3>. QED  BY <1>5, <3>1, Zenon DEF Like
  <2>. QED  BY <2>1, <2>2, <2>3
<1>10. \A a, b : Flow(Now, a, b) => Flow(y, a, b)
  BY <1>1, <1>2, <1>6, <1>9, FlowLike
<1>11. CtxOf(y, y.r.f) = d
  BY <1>2, <1>6
<1>. QED  BY <1>2, <1>6, <1>7, <1>8, <1>10, <1>11 DEF Attends

\* The context of the handle's filter gets another parser.
LEMMA HookSets ==
  ASSUME Given, NEW c \in Context, NEW p \in Parser, c.parser # None => p.st = c.parser.st,
         c.parser = None => p.st = "reading", NEW d, d = [c EXCEPT !.parser = p]
  PROVE  Sets(c, d) /\ d.parser = p
<1>1. /\ d \in Context /\ d.parser = p /\ d.status = c.status /\ d.spool = c.spool /\ d.body = c.body
      /\ d.shown = c.shown /\ d.filter_error = c.filter_error /\ d.bytes_read = c.bytes_read
  BY DEF Context
<1>2. p # None
  BY Nulls
<1>. HIDE DEF Context
<1>. QED  BY <1>1, <1>2 DEF Sets

\* A setting may leave the context as it is.
LEMMA NoSet ==
  ASSUME NEW c \in Context
  PROVE  Sets(c, c)
BY DEF Sets

\* apache2_parser_set changes no more than a setting may.
LEMMA ParserSetIs ==
  ASSUME Given, NEW c \in Context
  PROVE  Sets(c, parser_set(c))
<1>1. CASE c.parser = None
  <2>1. PICK p : p = apreq_parser_make(NoLimit, None, <<>>)
    OBVIOUS
  <2>2. p \in Parser /\ p.st = "reading"
    BY <2>1 DEF Parser, Parsers, apreq_parser_make
  <2>3. parser_set(c) = [c EXCEPT !.parser = p]
    BY <1>1, <2>1 DEF parser_set
  <2>. HIDE <2>1
  <2>. QED  BY <1>1, <2>2, <2>3, HookSets
<1>2. CASE c.parser # None
  <2>1. parser_set(c) = c
    BY <1>2 DEF parser_set
  <2>. QED  BY <2>1, NoSet
<1>. QED  BY <1>1, <1>2

HookAdded(c, h) ==
  IF c.parser # None THEN [c EXCEPT !.parser = apreq_parser_add_hook(@, <<h>>)]
  ELSE [c EXCEPT !.hook_queue = Append(@, h)]
\* apache2_hook_add changes no more than a setting may, and puts the hook in front.
LEMMA HookAddIs ==
  ASSUME Given, NEW c \in Context, NEW h \in AnyHook
  PROVE  /\ Sets(c, HookAdded(c, h))
         /\ c.parser # None => /\ HookAdded(c, h) = [c EXCEPT !.parser = apreq_parser_add_hook(@, <<h>>)]
                               /\ HookAdded(c, h).parser.hook = <<h>> \o c.parser.hook
<1>0. c.parser \in Parser \cup {None} /\ c.hook_queue \in Seq(AnyHook) /\ <<h>> \in Seq(AnyHook)
  BY ContextType
<1>1. CASE c.parser # None
  <2>1. PICK p : p = apreq_parser_add_hook(c.parser, <<h>>)
    OBVIOUS
  <2>2. p \in Parser /\ p.st = c.parser.st /\ p.hook = <<h>> \o c.parser.hook
    BY <1>0, <1>1, <2>1, HookedParser
  <2>3. HookAdded(c, h) = [c EXCEPT !.parser = p]
    BY <1>1, <2>1 DEF HookAdded
  <2>. HIDE <2>1
  <2>4. Sets(c, HookAdded(c, h)) /\ HookAdded(c, h).parser = p
    BY <1>1, <2>2, <2>3, HookSets
  <2>5. HookAdded(c, h) = [c EXCEPT !.parser = apreq_parser_add_hook(@, <<h>>)]
    BY <1>1 DEF HookAdded
  <2>. QED  BY <2>2, <2>4, <2>5
<1>2. CASE c.parser = None
  <2>0. Append(c.hook_queue, h) \in Seq(AnyHook)
    BY <1>0
  <2>1. PICK q : q = Append(c.hook_queue, h) /\ q \in Seq(AnyHook)
    BY <2>0, Zenon
  <2>2. PICK d : d = [c EXCEPT !.hook_queue = q]
    OBVIOUS
  <2>3. HookAdded(c, h) = d
    BY <1>2, <2>1, <2>2 DEF HookAdded
  <2>4. /\ d \in Context /\ d.parser = c.parser /\ d.status = c.status /\ d.spool = c.spool /\ d.body = c.body
        /\ d.shown = c.shown /\ d.filter_error = c.filter_error /\ d.bytes_read = c.bytes_read
    BY <2>1, <2>2 DEF Context
  <2>5. Sets(c, d)
    BY <1>2, <2>4 DEF Sets
  <2>. QED  BY <1>2, <2>3, <2>5
<1>. QED  BY <1>1, <1>2

LimitSet(c, bytes) ==
  IF c.read_limit > bytes /\ c.bytes_read < bytes THEN [c EXCEPT !.read_limit = bytes] ELSE c
\* apache2_read_limit_set changes no more than a setting may.
LEMMA LimitSetIs ==
  ASSUME Given, NEW c \in Context, NEW bytes \in Nat
  PROVE  Sets(c, LimitSet(c, bytes))
<1>1. PICK d : d = [c EXCEPT !.read_limit = bytes]
  OBVIOUS
<1>2. /\ d \in Context /\ d.parser = c.parser /\ d.status = c.status /\ d.spool = c.spool /\ d.body = c.body
      /\ d.shown = c.shown /\ d.filter_error = c.filter_error /\ d.bytes_read = c.bytes_read
  BY <1>1 DEF Context
<1>3. Sets(c, d)
  BY <1>2 DEF Sets
<1>4. LimitSet(c, bytes) = d \/ LimitSet(c, bytes) = c
  BY <1>1 DEF LimitSet
<1>. QED  BY <1>3, <1>4, NoSet

\* A setting leaves d where the context of the handle's filter was.
SetsTo(x, o, d) ==
  /\ call = Idle /\ Room /\ sets < MaxSettings /\ Become([x EXCEPT !.ctx[o] = d])
  /\ sets' = sets + 1 /\ UNCHANGED <<rest, call, found>>
LEMMA SettingSteady ==
  ASSUME TypeOK, IInv, NEW x, x = WithContext, NEW o, o = Mine(x), NEW d,
         SetsTo(x, o, d), Given /\ x.ctx[o] \in Context => Sets(x.ctx[o], d)
  PROVE  Steady
<1>1. PICK w : w = Using /\ x = apreq_filter_make_context(w, w.r.f)
  BY DEF WithContext
<1>2. /\ call = Idle /\ Room /\ sets < MaxSettings /\ sets' = sets + 1 /\ UNCHANGED rest
      /\ call' = call /\ found' = found
  BY DEF SetsTo
<1>3. Given /\ Counters
  BY HoldsNow
<1>4. Good(w) /\ w.r.f \in Filters /\ (HasContext(w, w.r.f) \/ w.r.f \in Range(w.r.chain))
  BY <1>1, <1>2, UsingGood
<1>5. Serves(w, w.r.f, x)
  BY <1>1, <1>3, <1>4, MakeGood
<1>6. Attends(x)
  BY <1>1, <1>2, <1>5, AttendsUsing
<1>7. o = x.of[x.r.f] /\ x.ctx[o] \in Context
  BY <1>6, WorldType DEF Mine, Attends, Good
<1>8. PICK y : y = [x EXCEPT !.ctx[o] = d]
  OBVIOUS
<1>9. Become(y) /\ Updates(x, o, d, y)
  BY <1>8 DEF SetsTo, Updates
<1>. HIDE <1>8
<1>10. Attends(y)
  BY <1>3, <1>6, <1>7, <1>9, AttendsSet
<1>11. CallOn(call', y)
  BY <1>2 DEF CallOn, Idle
<1>12. found' \in Param \cup {None} /\ sets' \in 0..MaxSettings
  <2>1. sets \in 0..MaxSettings /\ MaxSettings \in Nat
    BY <1>3, Sizes DEF Counters
  <2>. QED  BY <1>2, <1>3, <2>1 DEF Counters
<1>. QED  BY <1>2, <1>9, <1>10, <1>11, <1>12, AttendsSteady

\* apache2_parser_set.
LEMMA ParserSetSteady ==
  ASSUME TypeOK, IInv, apache2_parser_set
  PROVE  Steady
<1>1. PICK x, o : x = WithContext /\ o = Mine(x)
  OBVIOUS
<1>2. PICK d : d = parser_set(x.ctx[o])
  OBVIOUS
<1>3. SetsTo(x, o, d)
  BY <1>1, <1>2 DEF apache2_parser_set, Setting, SetsTo
<1>4. Given /\ x.ctx[o] \in Context => Sets(x.ctx[o], d)
  BY <1>2, ParserSetIs
<1>. QED  BY <1>1, <1>3, <1>4, SettingSteady

\* apache2_hook_add.
LEMMA HookAddSteady ==
  ASSUME TypeOK, IInv, NEW h \in Hooks, apache2_hook_add(h)
  PROVE  Steady
<1>1. PICK x, o : x = WithContext /\ o = Mine(x)
  OBVIOUS
<1>2. PICK d : d = HookAdded(x.ctx[o], h)
  OBVIOUS
<1>3. SetsTo(x, o, d)
  BY <1>1, <1>2 DEF apache2_hook_add, Setting, SetsTo, HookAdded
<1>4. Given /\ x.ctx[o] \in Context => Sets(x.ctx[o], d)
  BY <1>2, HookAddIs DEF AnyHook
<1>. QED  BY <1>1, <1>3, <1>4, SettingSteady

\* apache2_read_limit_set.
LEMMA LimitSetSteady ==
  ASSUME TypeOK, IInv, NEW bytes \in Limits, apache2_read_limit_set(bytes)
  PROVE  Steady
<1>1. PICK x, o : x = WithContext /\ o = Mine(x)
  OBVIOUS
<1>2. PICK d : d = LimitSet(x.ctx[o], bytes)
  OBVIOUS
<1>3. SetsTo(x, o, d)
  BY <1>1, <1>2 DEF apache2_read_limit_set, Setting, SetsTo, LimitSet
<1>4. Given /\ x.ctx[o] \in Context => Sets(x.ctx[o], d)
  <2>1. bytes \in Nat
    BY Sizes
  <2>. QED  BY <1>2, <2>1, LimitSetIs
<1>. QED  BY <1>1, <1>3, <1>4, SettingSteady

\* A call that is running has a context to work on.
LEMMA AttendsNow ==
  ASSUME TypeOK, IInv, call.op # "idle"
  PROVE  Attends(Now) /\ r.f \in Filters /\ ctxOf[r.f] \in Filters /\ ctx[ctxOf[r.f]] \in Context
         /\ CtxOf(Now, r.f) = ctx[ctxOf[r.f]]
<1>1. Given /\ Good(Now) /\ r.used <= MaxFilters /\ CallOn(call, Now)
  BY HoldsNow
<1>2. r.f # None /\ HasContext(Now, r.f) /\ Now.r = r /\ Now.of = ctxOf /\ Now.ctx = ctx
  BY <1>1, NowIs DEF CallOn
<1>3. Now \in World
  BY <1>1 DEF Good
<1>4. r.f \in Filters /\ ctxOf[r.f] \in Filters /\ ctx[ctxOf[r.f]] \in Context
  BY <1>2, <1>3, WorldType
<1>5. ASSUME NEW g \in Filters PROVE Mild(ctx[g], ctx[g])
  <2>1. PICK c \in Context : c = ctx[g]
    BY <1>2, <1>3, WorldType
  <2>2. Mild(c, c)
    BY <1>1, MovesTrans
  <2>. QED  BY <2>1, <2>2
<1>. QED  BY <1>1, <1>2, <1>4, <1>5 DEF Attends, CtxOf

\* A step that changes one context.
LEMMA NowUpdates ==
  ASSUME TypeOK, NEW o \in Filters, NEW d, ctx' = [ctx EXCEPT ![o] = d], r' = r, ctxOf' = ctxOf,
         NEW y, Updates(Now, o, d, y)
  PROVE  Become(y)
<1>1. y = [r |-> r, of |-> ctxOf, ctx |-> [ctx EXCEPT ![o] = d]]
  BY DEF Now, Updates
<1>. QED  BY <1>1 DEF Become

\* apache2_body_get looks at what is parsed and puts find_param in front.
LEMMA GetLookSteady ==
  ASSUME TypeOK, IInv, apache2_body_get_look
  PROVE  Steady
<1>1. PICK o, c : o = ctxOf[r.f] /\ c = ctx[o]
  OBVIOUS
<1>2. call.op = "look" /\ UNCHANGED <<rest, r, ctxOf, sets>>
  BY DEF apache2_body_get_look
<1>3. Given /\ Counters /\ CallOn(call, Now) /\ Good(Now)
  BY HoldsNow
<1>4. /\ Attends(Now) /\ r.f \in Filters /\ o \in Filters /\ c \in Context /\ CtxOf(Now, r.f) = c
      /\ Now.r = r /\ Now.of = ctxOf /\ Now.ctx = ctx
  BY <1>1, <1>2, AttendsNow, NowIs
<1>5. c.parser # None /\ r.f # None /\ HasContext(Now, r.f)
  BY <1>2, <1>3, <1>4 DEF CallOn
<1>6. CASE call' = Idle /\ UNCHANGED <<ctx, found>>
  <2>1. CallOn(call', Now)
    BY <1>6 DEF CallOn, Idle
  <2>2. UNCHANGED <<r, ctxOf, ctx, rest, sets>> /\ found' \in Param \cup {None}
    BY <1>2, <1>3, <1>6 DEF Counters
  <2>. QED  BY <2>1, <2>2, CallSteady
<1>7. CASE ~(call' = Idle /\ UNCHANGED <<ctx, found>>)
  <2>1. PICK d, y : d = HookAdded(c, find_param) /\ Updates(Now, o, d, y)
    BY DEF Updates
  <2>2. /\ Sets(c, d) /\ d = [c EXCEPT !.parser = apreq_parser_add_hook(@, <<find_param>>)]
        /\ d.parser.hook = <<find_param>> \o c.parser.hook
    BY <1>3, <1>4, <1>5, <2>1, HookAddIs DEF AnyHook
  <2>3. call' = [call EXCEPT !.op = "scan"] /\ found' = None
        /\ ctx' = [ctx EXCEPT ![o].parser = apreq_parser_add_hook(@, <<find_param>>)]
    BY <1>1, <1>7 DEF apache2_body_get_look
  <2>4. ctx' = [ctx EXCEPT ![o] = d]
    BY <1>1, <2>2, <2>3, Zenon
  <2>5. Become(y)
    BY <1>2, <1>4, <2>1, <2>4, NowUpdates
  <2>6. Attends(y) /\ CtxOf(y, y.r.f) = d /\ y.r = r
    <3>1. o = Now.of[Now.r.f] /\ Now.ctx[o] = c /\ Sets(c, d) /\ Updates(Now, o, d, y) /\ Attends(Now) /\ Now.r = r
      BY <1>1, <1>4, <2>1, <2>2, Zenon
    <3>. HIDE <2>1
    <3>. QED  BY <3>1, AttendsSet
  <2>7. d.parser # None /\ d.parser.hook # <<>>
    <3>1. c.parser.hook \in Seq(AnyHook)
      BY <1>3, <1>4, <1>5, ContextType DEF Parser, Parsers
    <3>2. <<find_param>> \o c.parser.hook # <<>>
      BY <3>1
    <3>. QED  BY <1>5, <2>2, <3>2 DEF Sets
  <2>8. CallOn(call', y)
    <3>1. y.r.f # None /\ HasContext(y, y.r.f)
      BY <2>6 DEF Attends
    <3>. QED  BY <1>3, <2>3, <2>6, <2>7, <3>1 DEF CallOn
  <2>9. UNCHANGED rest /\ sets' \in 0..MaxSettings /\ found' \in Param \cup {None}
    BY <1>2, <1>3, <2>3 DEF Counters
  <2>. QED  BY <2>5, <2>6, <2>8, <2>9, AttendsSteady
<1>. QED  BY <1>6, <1>7

\* apache2_body_get takes find_param away again.
LEMMA GetLeaveSteady ==
  ASSUME TypeOK, IInv, apache2_body_get_leave
  PROVE  Steady
<1>1. PICK o, c : o = ctxOf[r.f] /\ c = ctx[o]
  OBVIOUS
<1>2. call.op = "leave" /\ UNCHANGED <<rest, r, ctxOf, sets>> /\ call' = Idle /\ found' = None
  BY DEF apache2_body_get_leave
<1>3. Given /\ Counters /\ CallOn(call, Now) /\ Good(Now)
  BY HoldsNow
<1>4. /\ Attends(Now) /\ r.f \in Filters /\ o \in Filters /\ c \in Context /\ CtxOf(Now, r.f) = c
      /\ Now.r = r /\ Now.of = ctxOf /\ Now.ctx = ctx
  BY <1>1, <1>2, AttendsNow, NowIs
<1>5. c.parser # None /\ c.parser.hook # <<>>
  BY <1>2, <1>3, <1>4 DEF CallOn
<1>6. c.parser \in Parser /\ c.parser.hook \in Seq(AnyHook)
  BY <1>3, <1>4, <1>5, ContextType DEF Parser, Parsers
<1>7. PICK p, q : q = Tail(c.parser.hook) /\ q \in Seq(AnyHook) /\ p = [c.parser EXCEPT !.hook = q]
  <2>1. Tail(c.parser.hook) \in Seq(AnyHook)
    BY <1>5, <1>6
  <2>. QED  BY <2>1, Zenon
<1>8. p \in Parser /\ p.st = c.parser.st
  BY <1>6, <1>7 DEF Parser, Parsers
<1>9. PICK d, y : d = [c EXCEPT !.parser = p] /\ Updates(Now, o, d, y)
  BY DEF Updates
<1>10. Sets(c, d)
  BY <1>3, <1>4, <1>5, <1>8, <1>9, HookSets
<1>11. ctx' = [ctx EXCEPT ![o] = d]
  <2>1. ctx' = [ctx EXCEPT ![o].parser.hook = Tail(@)]
    BY <1>1 DEF apache2_body_get_leave
  <2>2. [ctx EXCEPT ![o].parser.hook = Tail(@)] = [ctx EXCEPT ![o] = [c EXCEPT !.parser = [c.parser EXCEPT !.hook = Tail(c.parser.hook)]]]
    BY <1>1
  <2>. QED  BY <1>7, <1>9, <2>1, <2>2
<1>12. Become(y)
  BY <1>2, <1>4, <1>9, <1>11, NowUpdates
<1>13. Attends(y)
  BY <1>1, <1>4, <1>9, <1>10, AttendsSet
<1>14. CallOn(call', y)
  BY <1>2 DEF CallOn, Idle
<1>15. UNCHANGED rest /\ sets' \in 0..MaxSettings /\ found' \in Param \cup {None}
  BY <1>2, <1>3 DEF Counters
<1>. QED  BY <1>12, <1>13, <1>14, <1>15, AttendsSteady

-----------------------------------------------------------------------------
(* The server around it.                                                   *)

\* What is seen of a filter whose context was not set up.
LEMMA SeenIdle ==
  ASSUME Given, NEW x, Good(x), NEW f, HasContext(x, f) => CtxOf(x, f).status = APR_EINIT
  PROVE  Quiet(Seen(x, f)) /\ ~Seen(x, f).parsing
<1>1. CASE HasContext(x, f)
  <2>1. PICK c \in Context : c = CtxOf(x, f)
    BY <1>1, WorldType DEF Good
  <2>2. Sound(c) /\ c.status = APR_EINIT
    BY <1>1, <2>1, WorldType DEF Good
  <2>3. c.spool = NoBrigade /\ c.filter_error = FALSE
    <3>1. c.filter_error \in BOOLEAN /\ (c.filter_error => c.status = GENERAL)
      BY <2>2, ContextType DEF Sound
    <3>. QED  BY <2>2, <3>1 DEF Sound, GENERAL, APR_EINIT
  <2>4. Quiet(SeenOf(c)) /\ ~SeenOf(c).parsing
    <3>1. c.spool.data = <<>> /\ c.spool.eos = FALSE
      BY <2>3 DEF NoBrigade
    <3>2. Quiet(SeenOf(c))
      BY <2>3, <3>1 DEF SeenOf, Quiet
    <3>3. ~SeenOf(c).parsing
      BY <2>2 DEF SeenOf, APR_EINIT, APR_INCOMPLETE, INTERRUPT
    <3>. QED  BY <3>2, <3>3
  <2>. QED  BY <1>1, <2>1, <2>4, SeenIs
<1>2. CASE ~HasContext(x, f)
  BY <1>2, SeenIs DEF Nothing, Quiet
<1>. QED  BY <1>1, <1>2

\* The chain of x becomes s.
Rewires(x, s, y) == y = [x EXCEPT !.r = s]
LEMMA Rewired ==
  ASSUME NEW x \in World, NEW s \in Chain, NEW y, Rewires(x, s, y)
  PROVE  /\ y \in World /\ y.r = s /\ y.of = x.of /\ y.ctx = x.ctx
         /\ \A f : HasContext(y, f) <=> HasContext(x, f)
         /\ \A f : CtxOf(y, f) = CtxOf(x, f) /\ Seen(y, f) = Seen(x, f)
BY RewireValue DEF Rewires

\* Another module's filter comes on top.
LEMMA OtherGood ==
  ASSUME Given, NEW x, Good(x), Other \notin Range(x.r.chain), NEW y, Rewires(x, OnTop(x.r, Other), y)
  PROVE  /\ Good(y) /\ y.r.used = x.r.used /\ y.ctx = x.ctx /\ y.of = x.of
         /\ \A a, b : Flow(x, a, b) => Flow(y, a, b)
<1>1. x \in World /\ x.r \in Chain /\ DOMAIN x.r.chain = 1..Len(x.r.chain) /\ x.r.used \in Nat
  BY WorldType, ChainType DEF Good, Chain
<1>2. PICK s : s = OnTop(x.r, Other)
  OBVIOUS
<1>3. /\ s \in Chain /\ s.f = x.r.f /\ s.used = x.r.used /\ s.proto = x.r.proto
      /\ Len(s.chain) = Len(x.r.chain) + 1 /\ s.chain[1] = Other
      /\ \A t \in 1..Len(s.chain) : t # 1 => s.chain[t] = x.r.chain[t - 1]
  <2>1. Other \in Links
    BY DEF Links
  <2>. QED  BY <1>1, <1>2, <2>1, Pushed, Zenon
<1>4. Puts(x, Other, s)
  <2>1. \A t \in 1..Len(x.r.chain) : x.r.chain[t] # Other
    BY <1>1 DEF Range
  <2>2. s.used >= x.r.used /\ Other \in Links
    BY <1>1, <1>3 DEF Links
  <2>. QED  BY <1>3, <2>1, <2>2 DEF Puts
<1>5. ~HasContext(x, Other)
  BY Nulls, Sizes DEF HasContext, Filters
<1>6. Quiet(Seen(x, Other)) /\ ~Seen(x, Other).parsing
  BY <1>5, SeenIdle
<1>7. Rewires(x, s, y)
  BY <1>2
<1>. HIDE <1>2
<1>8. Good(y)
  BY <1>3, <1>4, <1>5, <1>7, PushGood DEF Rewires
<1>9. \A a, b : Flow(x, a, b) => Flow(y, a, b)
  BY <1>1, <1>4, <1>6, <1>7, PushFlow DEF Rewires
<1>10. y.r = s /\ y.of = x.of /\ y.ctx = x.ctx
  BY <1>1, <1>3, <1>7, Rewired
<1>. QED  BY <1>3, <1>8, <1>9, <1>10

\* A new filter comes under the others.
Lowers(n, k, l) == l = IF k > 0 THEN k + 1 ELSE 0
LEMMA LastPlace ==
  ASSUME NEW n \in Nat, NEW k \in Nat, k <= n, NEW l \in Nat, Lowers(n, k, l)
  PROVE  /\ l <= n + 1
         /\ \A t \in 1..(n + 1) : t <= (n + 1) - l => t = n + 1 \/ (t \in 1..n /\ t <= n - k)
         /\ l > 0 => k > 0 /\ (n + 1) - l + 1 = n - k + 1 /\ n - k + 1 \in 1..n
BY DEF Lowers

Lies(x, f, s) ==
  /\ s \in Chain /\ Len(s.chain) = Len(x.r.chain) + 1 /\ s.chain[Len(x.r.chain) + 1] = f
  /\ \A t \in 1..Len(x.r.chain) : s.chain[t] = x.r.chain[t]
  /\ f = x.r.used + 1 /\ s.used = f /\ s.f = x.r.f /\ Lowers(Len(x.r.chain), x.r.proto, s.proto)
Under(q, s) == s = [q EXCEPT !.chain = Append(@, q.used + 1), !.used = @ + 1, !.proto = IF @ > 0 THEN @ + 1 ELSE 0]
\* A filter of the configuration is a new one, at the bottom of the chain.
LEMMA UnderIs ==
  ASSUME NEW x \in World, NEW s, Under(x.r, s)
  PROVE  Lies(x, x.r.used + 1, s)
<1>1. x.r \in Chain
  BY WorldType
<1>2. PICK n \in Nat, k \in Nat, h \in Nat, q \in Seq(Links) :
        n = Len(q) /\ k = x.r.proto /\ h = x.r.used /\ q = x.r.chain
  BY <1>1, ChainType DEF Chain
<1>3. PICK f \in Nat, l \in Nat : f = h + 1 /\ l = IF k > 0 THEN k + 1 ELSE 0
  OBVIOUS
<1>4. PICK z : z = Append(q, f)
  OBVIOUS
<1>5. z \in Seq(Links) /\ Len(z) = n + 1 /\ z[n + 1] = f /\ \A t \in 1..n : z[t] = q[t]
  BY <1>2, <1>4 DEF Links
<1>6. s = [x.r EXCEPT !.chain = z, !.used = f, !.proto = l]
  BY <1>2, <1>3, <1>4 DEF Under
<1>. HIDE <1>4
<1>7. s \in Chain /\ s.chain = z /\ s.used = f /\ s.proto = l /\ s.f = x.r.f
  <2>. HIDE <1>3
  <2>. QED  BY <1>1, <1>5, <1>6 DEF Chain, Links
<1>8. Lowers(n, k, l)
  BY <1>3 DEF Lowers
<1>. HIDE <1>6
<1>. QED  BY <1>2, <1>3, <1>5, <1>7, <1>8 DEF Lies

\* A new filter may be added at the bottom.
LEMMA UnderGood ==
  ASSUME Given, NEW x, Good(x), NEW s, NEW y, Rewires(x, s, y), NEW f, Lies(x, f, s)
  PROVE  /\ Good(y) /\ y.r = s /\ y.ctx = x.ctx /\ y.of = x.of
         /\ \A a, b : Flow(x, a, b) => Flow(y, a, b)
<1>1. /\ x \in World /\ Chained(x.r) /\ Owned(x) /\ Handled(x) /\ Kept(x) /\ \A g \in Filters : Sound(x.ctx[g])
      /\ x.r \in Chain
  BY WorldType DEF Good
<1>2. PICK n \in Nat, k \in Nat, h \in Nat, q \in Seq(Links) :
        n = Len(q) /\ k = x.r.proto /\ h = x.r.used /\ q = x.r.chain /\ DOMAIN q = 1..n /\ k <= n
  BY <1>1, ChainType DEF Chain, Chained
<1>3. f = h + 1
  BY <1>2 DEF Lies
<1>4. f \in Nat \ {0} /\ f # None /\ ~HasContext(x, f) /\ \A t \in 1..n : q[t] # f
  <2>1. f \in Nat \ {0} /\ ~HasContext(x, f) /\ \A t \in 1..n : q[t] # f
    BY <1>2, <1>3, Unmade
  <2>2. None \notin Nat
    BY Nulls
  <2>. QED  BY <2>1, <2>2
<1>5. PICK z \in Seq(Links), l \in Nat : z = s.chain /\ l = s.proto
  BY ChainType DEF Lies
<1>6. z \in Seq(Links) /\ Len(z) = n + 1 /\ z[n + 1] = f /\ \A t \in 1..n : z[t] = q[t]
  BY <1>2, <1>5 DEF Lies
<1>7. s \in Chain /\ s.chain = z /\ s.used = f /\ s.proto = l /\ s.f = x.r.f
  BY <1>5 DEF Lies
<1>8. /\ l <= n + 1
      /\ \A t \in 1..(n + 1) : t <= (n + 1) - l => t = n + 1 \/ (t \in 1..n /\ t <= n - k)
      /\ l > 0 => k > 0 /\ (n + 1) - l + 1 = n - k + 1 /\ n - k + 1 \in 1..n
  <2>1. Lowers(n, k, l) /\ k <= n
    BY <1>2, <1>5 DEF Lies
  <2>. QED  BY <2>1, LastPlace
<1>9. /\ y \in World /\ y.r = s /\ y.of = x.of /\ y.ctx = x.ctx
      /\ \A g : HasContext(y, g) <=> HasContext(x, g)
      /\ \A g : CtxOf(y, g) = CtxOf(x, g) /\ Seen(y, g) = Seen(x, g)
  BY <1>1, <1>7, Rewired
<1>10. DOMAIN z = 1..(n + 1) /\ \A t \in 1..(n + 1) : t \in 1..n \/ t = n + 1
  BY <1>6
<1>11. Chained(s)
  <2>1. ASSUME NEW t \in 1..(n + 1) PROVE z[t] = Other \/ z[t] \in 1..f
    <3>1. CASE t \in 1..n
      <4>1. q[t] = Other \/ q[t] \in 1..h
        BY <1>1, <1>2, <3>1 DEF Chained
      <4>. QED  BY <1>3, <1>6, <3>1, <4>1
    <3>2. CASE t = n + 1
      BY <1>4, <1>6, <3>2
    <3>. QED  BY <1>10, <3>1, <3>2
  <2>2. ASSUME NEW t \in 1..(n + 1), NEW u \in 1..(n + 1), z[t] = z[u] PROVE t = u
    <3>1. \A i \in 1..n, j \in 1..n : q[i] = q[j] => i = j
      BY <1>1, <1>2 DEF Chained
    <3>. QED  BY <1>4, <1>6, <1>10, <2>2, <3>1
  <2>3. l <= n + 1
    BY <1>8
  <2>. QED  BY <1>6, <1>7, <1>10, <2>1, <2>2, <2>3 DEF Chained
<1>12. Owned(y)
  <2>1. ASSUME NEW g \in Filters, x.of[g] # 0 PROVE g <= f /\ x.of[x.of[g]] = x.of[g]
    <3>1. g <= h /\ x.of[x.of[g]] = x.of[g] /\ g \in Nat
      BY <1>1, <1>2, <2>1, Sizes DEF Owned, Filters
    <3>. QED  BY <1>3, <3>1
  <2>2. ASSUME NEW t \in 1..(n + 1), NEW u \in 1..(n + 1), HasContext(x, z[t]), HasContext(x, z[u]), x.of[z[t]] = x.of[z[u]]
        PROVE  t = u
    <3>1. t \in 1..n /\ u \in 1..n
      BY <1>4, <1>6, <1>10, <2>2
    <3>2. z[t] = q[t] /\ z[u] = q[u]
      BY <1>6, <3>1
    <3>. QED  BY <1>1, <1>2, <2>2, <3>1, <3>2 DEF Owned
  <2>3. \A g \in Filters : x.of[g] = 0 => x.ctx[g].status = APR_EINIT
    BY <1>1 DEF Owned
  <2>. QED  BY <1>7, <1>9, <1>10, <2>1, <2>2, <2>3 DEF Owned
<1>13. Handled(y)
  <2>1. SUFFICES ASSUME x.r.f # None
                 PROVE  /\ x.r.f \in 1..f
                        /\ x.r.f \in Range(z) \/ (HasContext(x, x.r.f) /\ CtxOf(x, x.r.f).status \in Finished)
                        /\ HasContext(x, x.r.f) => CtxOf(x, x.r.f).status # INTERRUPT
                        /\ \A t, u \in 1..(n + 1) : z[u] = x.r.f /\ t < u => z[t] = Other
    BY <1>7, <1>9, <1>10 DEF Handled
  <2>2. /\ x.r.f \in 1..h /\ (x.r.f \in Range(q) \/ (HasContext(x, x.r.f) /\ CtxOf(x, x.r.f).status \in Finished))
        /\ HasContext(x, x.r.f) => CtxOf(x, x.r.f).status # INTERRUPT
        /\ \A t, u \in 1..n : q[u] = x.r.f /\ t < u => q[t] = Other
    BY <1>1, <1>2, <2>1 DEF Handled
  <2>3. x.r.f \in 1..f /\ x.r.f # f
    BY <1>3, <2>2
  <2>4. x.r.f \in Range(q) => x.r.f \in Range(z)
    BY <1>2, <1>6, <1>10 DEF Range
  <2>5. ASSUME NEW t \in 1..(n + 1), NEW u \in 1..(n + 1), z[u] = x.r.f, t < u PROVE z[t] = Other
    <3>1. u \in 1..n
      BY <1>6, <1>10, <2>3, <2>5
    <3>2. t \in 1..n
      BY <2>5, <3>1
    <3>. QED  BY <1>6, <2>2, <2>5, <3>1, <3>2
  <2>. QED  BY <2>2, <2>3, <2>4, <2>5
<1>14. Kept(y)
  <2>1. ASSUME NEW t \in 1..(n + 1), t <= (n + 1) - l, HasContext(x, z[t]) PROVE CtxOf(x, z[t]).spool.data = <<>>
    <3>1. t # n + 1
      BY <1>4, <1>6, <2>1
    <3>2. t \in 1..n /\ t <= n - k
      BY <1>8, <2>1, <3>1
    <3>. QED  BY <1>1, <1>2, <1>6, <2>1, <3>2 DEF Kept
  <2>2. ASSUME l > 0, FirstProto(s) # Other
        PROVE  HasContext(x, FirstProto(s)) /\ CtxOf(x, FirstProto(s)).status # APR_EINIT
    <3>1. FirstProto(s) = z[(n + 1) - l + 1]
      BY <1>6, <1>7 DEF FirstProto
    <3>2. k > 0 /\ z[(n + 1) - l + 1] = q[n - k + 1]
      BY <1>6, <1>8, <2>2
    <3>3. FirstProto(x.r) = q[n - k + 1]
      BY <1>2 DEF FirstProto
    <3>. QED  BY <1>1, <1>2, <2>2, <3>1, <3>2, <3>3 DEF Kept
  <2>. QED  BY <1>6, <1>7, <1>9, <1>10, <2>1, <2>2 DEF Kept
<1>15. Good(y)
  BY <1>1, <1>7, <1>9, <1>11, <1>12, <1>13, <1>14 DEF Good
<1>16. ASSUME NEW a, NEW b, Flow(x, a, b) PROVE Flow(y, a, b)
  <2>1. PICK v \in Seq(Sight), w \in Seq(Sight), size \in Nat, whole \in BOOLEAN :
          v = Sights(x) /\ w = Sights(y) /\ size = Len(content) /\ whole = ~broken
    <3>1. Sights(x) \in Seq(Sight) /\ Sights(y) \in Seq(Sight) /\ Len(content) \in Nat /\ (~broken) \in BOOLEAN
      BY <1>1, <1>9, SightsType DEF Given
    <3>. QED  BY <3>1
  <2>2. /\ Len(v) = n /\ Len(w) = n + 1 /\ w[n + 1] = Nothing /\ w[n + 1] \in Sight
        /\ \A t \in 1..n : w[t] = v[t]
    <3>1. /\ Len(v) = n /\ Len(w) = n + 1 /\ \A t \in 1..n : v[t] = Seen(x, q[t])
          /\ \A t \in 1..(n + 1) : w[t] = Seen(y, z[t])
      BY <1>1, <1>2, <1>6, <1>7, <1>9, <2>1, SightsType, Zenon
    <3>2. w[n + 1] = Seen(x, f)
      <4>1. n + 1 \in 1..(n + 1)
        OBVIOUS
      <4>. QED  BY <1>6, <1>9, <3>1, <4>1
    <3>3. Seen(x, f) = Nothing /\ Seen(x, f) \in Sight
      BY <1>1, <1>4, SeenIs, SeenType
    <3>4. ASSUME NEW t \in 1..n PROVE w[t] = v[t]
      <4>1. t \in 1..(n + 1)
        OBVIOUS
      <4>. QED  BY <1>6, <1>9, <3>1, <4>1
    <3>. QED  BY <3>1, <3>2, <3>3, <3>4
  <2>3. PICK p : Stream(v, p, size) /\ Cuts(v, p, a, b, 0, 0, size, whole)
    BY <1>16, <2>1 DEF Flow
  <2>4. PICK u \in 1..(Len(v) + 1) : u = n + 1
    BY <2>2
  <2>5. Quiet(w[u]) /\ ~w[u].parsing /\ Len(w) = Len(v) + 1
    BY <2>2, <2>4 DEF Quiet, Nothing
  <2>6. \A t \in 1..Len(w) : t # u => Like(w[t], v[IF t < u THEN t ELSE t - 1])
    <3>1. ASSUME NEW t \in 1..(n + 1), t # n + 1 PROVE Like(w[t], v[IF t < n + 1 THEN t ELSE t - 1])
      <4>1. t \in 1..n /\ t < n + 1
        BY <3>1
      <4>2. (IF t < n + 1 THEN t ELSE t - 1) = t
        BY <4>1
      <4>3. w[t] = v[t]
        BY <2>2, <4>1
      <4>. QED  BY <4>2, <4>3 DEF Like
    <3>. QED  BY <2>2, <2>4, <3>1
  <2>7. \E p2 : Stream(w, p2, size) /\ Cuts(w, p2, a, b, 0, 0, size, whole)
    <3>. HIDE <2>1, <2>4
    <3>1. Inserts(v, w, u)
      BY <2>5, <2>6 DEF Inserts
    <3>. QED  BY <2>3, <3>1, CutsInsert
  <2>. QED  BY <2>1, <2>7 DEF Flow
<1>. QED  BY <1>9, <1>15, <1>16

\* An internal redirect keeps the protocol filters.
LEMMA SuffixPlace ==
  ASSUME NEW d \in Nat, NEW k \in Nat, NEW n \in Nat, n = d + k
  PROVE  /\ d \in 0..n /\ k = n - d
         /\ \A t \in 1..k : t + d \in 1..n
         /\ \A t \in 1..d : t \in 1..n /\ t <= n - k
         /\ \A t \in 1..k : ~(t <= k - k)
OBVIOUS

\* s is the chain of x without the d filters above the protocol filters.
Redirects(x, s, d) ==
  /\ s \in Chain /\ Len(s.chain) = x.r.proto /\ s.proto = x.r.proto /\ s.f = None /\ s.used = x.r.used
  /\ d \in Nat /\ Len(x.r.chain) = d + x.r.proto
  /\ \A t \in 1..x.r.proto : s.chain[t] = x.r.chain[t + d]
Suffix(q, d, k, n, z) == n = Len(q) /\ n = d + k /\ z = SubSeq(q, d + 1, n)
LEMMA SuffixIs ==
  ASSUME NEW S, NEW q \in Seq(S), NEW d \in Nat, NEW k \in Nat, NEW n \in Nat, NEW z, Suffix(q, d, k, n, z)
  PROVE  z \in Seq(S) /\ Len(z) = k /\ \A t \in 1..k : z[t] = q[t + d]
<1>. USE DEF Suffix
<1>1. z \in Seq(S)
  <2>1. \A i \in (d + 1)..n : q[i] \in S
    <3>1. \A i \in (d + 1)..n : i \in 1..Len(q)
      OBVIOUS
    <3>. QED  BY <3>1, ElementOfSeq
  <2>. QED  BY <2>1, SubSeqProperties
<1>2. Len(z) = k
  OBVIOUS
<1>3. ASSUME NEW t \in 1..k PROVE z[t] = q[t + d]
  <2>1. t \in 1..(n - (d + 1) + 1) /\ (d + 1) + t - 1 = t + d
    OBVIOUS
  <2>2. z[t] = q[(d + 1) + t - 1]
    BY <2>1
  <2>. QED  BY <2>1, <2>2
<1>. QED  BY <1>1, <1>2, <1>3
LEMMA RedirectIs ==
  ASSUME NEW x, Good(x), NEW s,
         s = [x.r EXCEPT !.chain = SubSeq(@, Len(@) - x.r.proto + 1, Len(@)), !.f = None]
  PROVE  \E d : Redirects(x, s, d)
<1>1. x.r \in Chain /\ Chained(x.r)
  BY WorldType DEF Good
<1>2. PICK n \in Nat, k \in Nat, q \in Seq(Links) : n = Len(q) /\ k = x.r.proto /\ q = x.r.chain /\ k <= n
  BY <1>1, ChainType DEF Chain, Chained
<1>3. PICK d \in Nat : d = n - k /\ n = d + k /\ n - k + 1 = d + 1
  BY <1>2
<1>4. PICK z : z = SubSeq(q, d + 1, n)
  OBVIOUS
<1>5. s = [x.r EXCEPT !.chain = z, !.f = None]
  BY <1>2, <1>3, <1>4
<1>6. z \in Seq(Links) /\ Len(z) = k /\ \A t \in 1..k : z[t] = q[t + d]
  <2>. HIDE <1>5
  <2>1. Suffix(q, d, k, n, z)
    BY <1>2, <1>3, <1>4 DEF Suffix
  <2>. QED  BY <2>1, SuffixIs
<1>. HIDE <1>4
<1>7. s \in Chain /\ s.chain = z /\ s.proto = k /\ s.f = None /\ s.used = x.r.used
  <2>1. z \in Seq(Nat \cup {Other})
    BY <1>6 DEF Links
  <2>. QED  BY <1>1, <1>2, <1>5, <2>1 DEF Chain
<1>. QED  BY <1>2, <1>3, <1>6, <1>7 DEF Redirects

\* An internal redirect keeps the protocol filters, and with them every spool.
LEMMA RedirectGood ==
  ASSUME Given, NEW x, Good(x), NEW s, NEW d, Redirects(x, s, d), NEW y, Rewires(x, s, y)
  PROVE  /\ Good(y) /\ y.r.used = x.r.used /\ y.ctx = x.ctx
         /\ \A a, b : Flow(x, a, b) => Flow(y, a, b)
<1>1. /\ x \in World /\ Chained(x.r) /\ Owned(x) /\ Kept(x) /\ \A g \in Filters : Sound(x.ctx[g])
      /\ x.r \in Chain
  BY WorldType DEF Good
<1>2. PICK n \in Nat, k \in Nat, q \in Seq(Links) :
        n = Len(q) /\ k = x.r.proto /\ q = x.r.chain /\ k <= n /\ DOMAIN q = 1..n
  BY <1>1, ChainType DEF Chain, Chained
<1>3. PICK z \in Seq(Links) : z = s.chain /\ Len(z) = k /\ DOMAIN z = 1..k
  BY <1>2, ChainType DEF Redirects
<1>4. /\ s \in Chain /\ s.chain = z /\ s.proto = k /\ s.f = None /\ s.used = x.r.used
      /\ d \in Nat /\ n = d + k
      /\ \A t \in 1..k : z[t] = q[t + d]
  BY <1>2, <1>3 DEF Redirects
<1>5. /\ y \in World /\ y.r = s /\ y.of = x.of /\ y.ctx = x.ctx
      /\ \A g : HasContext(y, g) <=> HasContext(x, g)
      /\ \A g : CtxOf(y, g) = CtxOf(x, g) /\ Seen(y, g) = Seen(x, g)
  BY <1>1, <1>4, Rewired
<1>6. /\ d \in 0..n /\ k = n - d
      /\ \A t \in 1..k : t + d \in 1..n
      /\ \A t \in 1..d : t \in 1..n /\ t <= n - k
      /\ \A t \in 1..k : ~(t <= k - k)
  <2>1. n = d + k /\ d \in Nat
    BY <1>4
  <2>. QED  BY <2>1, SuffixPlace
<1>7. Chained(s)
  <2>0. /\ \A t \in 1..n : q[t] = Other \/ q[t] \in 1..x.r.used
        /\ \A t, u \in 1..n : q[t] = q[u] => t = u
    BY <1>1, <1>2 DEF Chained
  <2>1. ASSUME NEW t \in 1..k PROVE z[t] = Other \/ z[t] \in 1..x.r.used
    <3>1. t + d \in 1..n /\ z[t] = q[t + d]
      BY <1>4, <1>6
    <3>. QED  BY <2>0, <3>1
  <2>2. ASSUME NEW t \in 1..k, NEW u \in 1..k, z[t] = z[u] PROVE t = u
    <3>1. PICK i \in 1..n, j \in 1..n : i = t + d /\ j = u + d
      BY <1>6
    <3>2. q[i] = q[j]
      BY <1>4, <2>2, <3>1
    <3>3. i = j
      BY <2>0, <3>2
    <3>. QED  BY <1>4, <3>1, <3>3
  <2>3. k <= k
    OBVIOUS
  <2>. QED  BY <1>3, <1>4, <2>1, <2>2, <2>3 DEF Chained
<1>8. Owned(y)
  <2>0. \A t, u \in 1..n : HasContext(x, q[t]) /\ HasContext(x, q[u]) /\ x.of[q[t]] = x.of[q[u]] => t = u
    BY <1>1, <1>2 DEF Owned
  <2>1. ASSUME NEW t \in 1..k, NEW u \in 1..k, HasContext(x, z[t]), HasContext(x, z[u]), x.of[z[t]] = x.of[z[u]]
        PROVE  t = u
    <3>1. PICK i \in 1..n, j \in 1..n : i = t + d /\ j = u + d
      BY <1>6
    <3>2. z[t] = q[i] /\ z[u] = q[j]
      BY <1>4, <3>1
    <3>3. i = j
      BY <2>0, <2>1, <3>2
    <3>. QED  BY <1>4, <3>1, <3>3
  <2>2. /\ \A g \in Filters : x.of[g] # 0 => g <= x.r.used /\ x.of[x.of[g]] = x.of[g]
        /\ \A g \in Filters : x.of[g] = 0 => x.ctx[g].status = APR_EINIT
    BY <1>1 DEF Owned
  <2>. QED  BY <1>3, <1>4, <1>5, <2>1, <2>2, SMTT(20) DEF Owned
<1>9. Handled(y)
  BY <1>4, <1>5 DEF Handled
<1>10. Kept(y)
  <2>2. ASSUME k > 0, FirstProto(s) # Other
        PROVE  HasContext(x, FirstProto(s)) /\ CtxOf(x, FirstProto(s)).status # APR_EINIT
    <3>1. k - k + 1 = 1 /\ n - k + 1 = 1 + d /\ 1 \in 1..k
      BY <1>4, <2>2
    <3>2. FirstProto(s) = z[1]
      BY <1>3, <1>4, <3>1 DEF FirstProto
    <3>3. z[1] = q[1 + d]
      BY <1>4, <3>1
    <3>4. FirstProto(x.r) = q[1 + d]
      BY <1>2, <3>1 DEF FirstProto
    <3>. QED  BY <1>1, <1>2, <2>2, <3>2, <3>3, <3>4 DEF Kept
  <2>. QED  BY <1>3, <1>4, <1>5, <1>6, <2>2 DEF Kept
<1>11. Good(y)
  BY <1>1, <1>4, <1>5, <1>7, <1>8, <1>9, <1>10 DEF Good
<1>12. ASSUME NEW a, NEW b, Flow(x, a, b) PROVE Flow(y, a, b)
  <2>1. PICK v \in Seq(Sight), w \in Seq(Sight), size \in Nat, whole \in BOOLEAN :
          v = Sights(x) /\ w = Sights(y) /\ size = Len(content) /\ whole = ~broken
    <3>1. Sights(x) \in Seq(Sight) /\ Sights(y) \in Seq(Sight) /\ Len(content) \in Nat /\ (~broken) \in BOOLEAN
      BY <1>1, <1>5, SightsType DEF Given
    <3>. QED  BY <3>1
  <2>2. /\ Len(v) = n /\ Len(w) = k /\ \A t \in 1..n : v[t] = Seen(x, q[t])
        /\ \A t \in 1..k : w[t] = Seen(y, z[t])
    BY <1>1, <1>2, <1>3, <1>4, <1>5, <2>1, SightsType
  <2>3. PICK e \in 0..Len(v) : e = d
    BY <1>6, <2>2
  <2>4. \A t \in 1..Len(w) : w[t] = v[t + e]
    <3>1. ASSUME NEW t \in 1..k PROVE w[t] = v[t + d]
      BY <1>4, <1>5, <1>6, <2>2
    <3>. QED  BY <2>2, <2>3, <3>1
  <2>5. \A t \in 1..e : v[t].data = <<>>
    <3>1. ASSUME NEW t \in 1..d PROVE Seen(x, q[t]).data = <<>>
      <4>1. t \in 1..n /\ t <= n - k
        BY <1>6
      <4>2. CASE HasContext(x, q[t])
        <5>1. CtxOf(x, q[t]).spool.data = <<>>
          BY <1>1, <1>2, <4>1, <4>2 DEF Kept
        <5>2. Seen(x, q[t]) = SeenOf(CtxOf(x, q[t]))
          BY <4>2, SeenIs
        <5>. QED  BY <5>1, <5>2 DEF SeenOf
      <4>3. CASE ~HasContext(x, q[t])
        BY <4>3, SeenIs DEF Nothing
      <4>. QED  BY <4>2, <4>3
    <3>2. ASSUME NEW t \in 1..d PROVE v[t].data = <<>>
      BY <1>6, <2>2, <3>1
    <3>. QED  BY <2>3, <3>2
  <2>6. PICK p : Stream(v, p, size) /\ Cuts(v, p, a, b, 0, 0, size, whole)
    BY <1>12, <2>1 DEF Flow
  <2>7. Len(w) = Len(v) - e
    BY <1>6, <2>2, <2>3
  <2>8. \E p2 : Stream(w, p2, size) /\ Cuts(w, p2, a, b, 0, 0, size, whole)
    <3>. HIDE <2>1, <2>3
    <3>1. Sheds(v, w, e)
      BY <2>4, <2>5, <2>7 DEF Sheds
    <3>. QED  BY <2>6, <3>1, CutsSuffix
  <2>. QED  BY <2>1, <2>8 DEF Flow
<1>. QED  BY <1>4, <1>5, <1>11, <1>12

\* ap_internal_redirect.
LEMMA RedirectSteady ==
  ASSUME TypeOK, IInv, NEW q \in Requests, ap_internal_redirect(q)
  PROVE  Steady
<1>1. PICK s, y : /\ s = [r EXCEPT !.chain = SubSeq(@, Len(@) - r.proto + 1, Len(@)), !.f = None]
                  /\ Rewires(Now, s, y)
  BY DEF Rewires
<1>2. /\ call = Idle /\ redirects < MaxRedirects /\ redirects' = redirects + 1 /\ r' = s
      /\ request' = [q EXCEPT !.cl = request.cl, !.ct = request.ct] /\ phase' = "hooks"
      /\ content' = content /\ ctxOf' = ctxOf /\ ctx' = ctx /\ net' = net /\ delivered' = delivered
      /\ call' = call /\ found' = found /\ sets' = sets /\ broken' = broken
  BY <1>1 DEF ap_internal_redirect
<1>3. Given /\ Counters /\ Good(Now) /\ r.used <= MaxFilters /\ Now.r = r /\ Now.of = ctxOf /\ Now.ctx = ctx
  BY HoldsNow, NowIs
<1>4. PICK d : Redirects(Now, s, d)
  BY <1>1, <1>3, RedirectIs, Zenon
<1>5. /\ Good(y) /\ y.r.used = r.used /\ y.ctx = ctx /\ \A a, b : Flow(Now, a, b) => Flow(y, a, b)
  <2>. HIDE <1>1
  <2>1. Rewires(Now, s, y)
    BY <1>1
  <2>. QED  BY <1>3, <1>4, <2>1, RedirectGood
<1>6. Become(y)
  <2>1. Now \in World /\ s \in Chain
    BY <1>3, <1>4 DEF Good, Redirects
  <2>2. y.r = s /\ y.of = ctxOf /\ y.ctx = ctx
    BY <1>1, <1>3, <2>1, Rewired
  <2>. QED  BY <1>2, <2>2 DEF Become
<1>7. request' \in Request
  <2>1. q \in Request /\ request \in Request
    BY <1>3, Inputs DEF Given
  <2>. QED  BY <1>2, <2>1 DEF Request
<1>8. Counters'
  <2>1. redirects \in 0..MaxRedirects /\ MaxRedirects \in Nat
    BY <1>3, Sizes DEF Counters
  <2>2. redirects' \in 0..MaxRedirects
    BY <1>2, <2>1
  <2>. QED  BY <1>2, <1>3, <2>2 DEF Counters
<1>9. ASSUME NEW g \in Filters PROVE Moved(ctx[g], y.ctx[g])
  <2>1. PICK c \in Context : c = ctx[g]
    BY <1>3, WorldType DEF Good
  <2>2. Moved(c, c)
    BY <1>3, MovesTrans
  <2>. QED  BY <1>5, <2>1, <2>2
<1>10. CallOn(call', y)
  BY <1>2 DEF CallOn, Idle
<1>11. y.r.used <= MaxFilters
  BY <1>3, <1>5
<1>. QED  BY <1>2, <1>5, <1>6, <1>7, <1>8, <1>9, <1>10, <1>11, MoveSteady

\* What the init function of f may do: the other filters stay in the chain, and nothing is lost.
Stays(y, g) == \E t \in 1..Len(y.r.chain) : y.r.chain[t] = g
Inits(x, f, y) ==
  /\ Good(y) /\ y.of = x.of /\ \A g \in Filters : Mild(x.ctx[g], y.ctx[g])
  /\ \A a, b : Flow(x, a, b) => Flow(y, a, b)
  /\ \A g : g # f /\ Stays(x, g) => Stays(y, g)
LEMMA InitsTrans ==
  ASSUME Given, NEW x, Good(x), NEW f, NEW y, Inits(x, f, y), NEW z, Inits(y, f, z)
  PROVE  Inits(x, f, z)
<1>1. x \in World /\ y \in World /\ z \in World
  BY DEF Inits, Good
<1>2. ASSUME NEW g \in Filters PROVE Mild(x.ctx[g], z.ctx[g])
  <2>1. PICK c \in Context, d \in Context, e \in Context : c = x.ctx[g] /\ d = y.ctx[g] /\ e = z.ctx[g]
    BY <1>1, WorldType
  <2>2. Mild(c, d) /\ Mild(d, e)
    BY <2>1 DEF Inits
  <2>3. Mild(c, e)
    BY <2>2, MovesTrans
  <2>. QED  BY <2>1, <2>3
<1>. QED  BY <1>2 DEF Inits

\* Nothing changes in the contexts.
LEMMA InitsMild ==
  ASSUME Given, NEW x \in World, NEW y, y.ctx = x.ctx
  PROVE  \A g \in Filters : Mild(x.ctx[g], y.ctx[g])
<1>1. ASSUME NEW g \in Filters PROVE Mild(x.ctx[g], x.ctx[g])
  <2>1. PICK c \in Context : c = x.ctx[g]
    BY WorldType
  <2>2. Mild(c, c)
    BY MovesTrans
  <2>. QED  BY <2>1, <2>2
<1>. QED  BY <1>1

\* The handle goes over to another filter, or to none.
Turns(x, f, s) == s \in Chain /\ s.chain = x.r.chain /\ s.proto = x.r.proto /\ s.used = x.r.used /\ s.f = f
LEMMA TurnsIs ==
  ASSUME NEW x \in World, NEW f \in Nat \cup {None}, NEW s, s = [x.r EXCEPT !.f = f]
  PROVE  Turns(x, f, s)
<1>1. x.r \in Chain
  BY WorldType
<1>. QED  BY <1>1 DEF Turns, Chain
LEMMA TurnGood ==
  ASSUME Given, NEW x, Good(x), NEW f, NEW s, Turns(x, f, s), NEW y, Rewires(x, s, y), Handled(y), NEW g
  PROVE  Inits(x, g, y)
<1>1. x \in World /\ Chained(x.r) /\ Owned(x) /\ Kept(x) /\ \A h \in Filters : Sound(x.ctx[h])
  BY DEF Good
<1>2. s \in Chain /\ s.chain = x.r.chain /\ s.proto = x.r.proto /\ s.used = x.r.used
  BY DEF Turns
<1>3. /\ y \in World /\ y.r = s /\ y.of = x.of /\ y.ctx = x.ctx
      /\ \A h : HasContext(y, h) <=> HasContext(x, h)
      /\ \A h : CtxOf(y, h) = CtxOf(x, h) /\ Seen(y, h) = Seen(x, h)
  BY <1>1, <1>2, Rewired
<1>4. Chained(y.r)
  BY <1>1, <1>2, <1>3 DEF Chained
<1>5. Owned(y)
  BY <1>1, <1>2, <1>3 DEF Owned
<1>6. Kept(y)
  <2>1. FirstProto(y.r) = FirstProto(x.r)
    BY <1>2, <1>3 DEF FirstProto
  <2>. QED  BY <1>1, <1>2, <1>3, <2>1 DEF Kept
<1>7. Good(y)
  BY <1>1, <1>3, <1>4, <1>5, <1>6 DEF Good
<1>8. ASSUME NEW a, NEW b, Flow(x, a, b) PROVE Flow(y, a, b)
  <2>1. y.r.chain = x.r.chain
    BY <1>2, <1>3
  <2>2. \A t \in 1..Len(x.r.chain) : Like(Seen(y, x.r.chain[t]), Seen(x, x.r.chain[t]))
    BY <1>3 DEF Like
  <2>. QED  BY <1>1, <1>3, <1>8, <2>1, <2>2, FlowLike
<1>9. \A h : Stays(x, h) => Stays(y, h)
  BY <1>2, <1>3 DEF Stays
<1>10. \A h \in Filters : Mild(x.ctx[h], y.ctx[h])
  BY <1>1, <1>3, InitsMild
<1>. QED  BY <1>3, <1>7, <1>8, <1>9, <1>10 DEF Inits

\* The handle may let go of its filter.
LEMMA ReleaseGood ==
  ASSUME Given, NEW x, Good(x), NEW s, Turns(x, None, s), NEW y, Rewires(x, s, y), NEW g
  PROVE  Inits(x, g, y)
<1>1. y.r.f = None
  <2>1. x \in World /\ s \in Chain /\ s.f = None
    BY DEF Good, Turns
  <2>. QED  BY <2>1, Rewired
<1>2. Handled(y)
  BY <1>1 DEF Handled
<1>. QED  BY <1>2, TurnGood

\* The handle of the request is made.
LEMMA GetInits ==
  ASSUME Given, NEW x, Good(x), NEW y, Handles(x, y), NEW f
  PROVE  Inits(x, f, y) /\ \A g : Stays(x, g) => Stays(y, g)
<1>1. x \in World /\ Good(y) /\ y.of = x.of /\ y.ctx = x.ctx /\ \A a, b : Flow(x, a, b) => Flow(y, a, b)
  BY DEF Handles, Good
<1>2. ASSUME NEW g, Stays(x, g) PROVE Stays(y, g)
  <2>1. CASE x.r.f # None
    BY <1>2, <2>1 DEF Handles
  <2>2. CASE x.r.f = None
    <3>1. PICK n \in Nat : n = Len(x.r.chain)
      BY <1>1, WorldType, ChainType
    <3>2. PICK t \in 1..n : x.r.chain[t] = g
      BY <1>2, <3>1 DEF Stays
    <3>3. Len(y.r.chain) = n + 1 /\ \A v \in 1..(n + 1) : v # 1 => y.r.chain[v] = x.r.chain[v - 1]
      BY <2>2, <3>1 DEF Handles, Puts
    <3>4. t + 1 \in 1..(n + 1) /\ t + 1 # 1 /\ (t + 1) - 1 = t
      OBVIOUS
    <3>5. y.r.chain[t + 1] = g
      BY <3>2, <3>3, <3>4
    <3>. QED  BY <3>3, <3>4, <3>5 DEF Stays
  <2>. QED  BY <2>1, <2>2
<1>3. \A g \in Filters : Mild(x.ctx[g], y.ctx[g])
  BY <1>1, InitsMild
<1>. QED  BY <1>1, <1>2, <1>3 DEF Inits

\* The filter has read nothing.
Fresher(x, f) == f \in Filters /\ (HasContext(x, f) => CtxOf(x, f).status = APR_EINIT)

\* It is on top, and becomes the handle's filter.
LEMMA InitTop ==
  ASSUME Given, NEW x, Good(x), NEW f, Fresher(x, f), 1 \in 1..Len(x.r.chain), x.r.chain[1] = f,
         NEW s, Turns(x, f, s), NEW y, Rewires(x, s, y)
  PROVE  Inits(x, f, y)
<1>1. x \in World /\ Chained(x.r) /\ x.r \in Chain /\ DOMAIN x.r.chain = 1..Len(x.r.chain) /\ Len(x.r.chain) \in Nat
  BY WorldType, ChainType DEF Good
<1>2. /\ s \in Chain /\ s.f = f /\ s.chain = x.r.chain /\ s.used = x.r.used
  BY DEF Turns
<1>3. y.r = s /\ (\A h : HasContext(y, h) <=> HasContext(x, h)) /\ (\A h : CtxOf(y, h) = CtxOf(x, h))
  BY <1>1, <1>2, Rewired
<1>4. f # Other /\ f # None
  BY Nulls, Sizes DEF Fresher, Filters
<1>5. f \in 1..x.r.used
  BY <1>1, <1>4 DEF Chained
<1>6. f \in Range(s.chain)
  BY <1>1, <1>2 DEF Range
<1>7. HasContext(y, f) => CtxOf(y, f).status # INTERRUPT
  <2>1. APR_EINIT # INTERRUPT
    BY DEF APR_EINIT, INTERRUPT
  <2>. QED  BY <1>3, <2>1 DEF Fresher
<1>8. ASSUME NEW t \in 1..Len(x.r.chain), NEW u \in 1..Len(x.r.chain), x.r.chain[u] = f, t < u PROVE FALSE
  <2>1. u = 1
    BY <1>1, <1>8 DEF Chained
  <2>. QED  BY <1>1, <1>8, <2>1
<1>9. Handled(y)
  <2>1. y.r.f = f /\ y.r.chain = x.r.chain /\ y.r.used = x.r.used
    BY <1>2, <1>3
  <2>2. \A t, u \in DOMAIN y.r.chain : y.r.chain[u] = f /\ t < u => y.r.chain[t] = Other
    BY <1>1, <1>8, <2>1
  <2>3. f \in Range(y.r.chain)
    BY <1>2, <1>6, <2>1
  <2>. QED  BY <1>5, <1>7, <2>1, <2>2, <2>3 DEF Handled
<1>. QED  BY <1>9, TurnGood

\* It leaves the chain.
Goes(x, u, y) ==
  /\ y.r \in Chain /\ y.of = x.of /\ y.ctx = x.ctx /\ y.r.f = x.r.f /\ y.r.used = x.r.used
  /\ y.r = ap_remove_input_filter(x.r, x.r.chain[u])
  /\ Len(y.r.chain) = Len(x.r.chain) - 1
  /\ \A t \in 1..Len(y.r.chain) : y.r.chain[t] = x.r.chain[Away(u, t)]
  /\ \A g : Seen(y, g) = Seen(x, g)
LEMMA DropGoes ==
  ASSUME NEW x, Good(x), NEW u \in 1..Len(x.r.chain), x.r.f # x.r.chain[u],
         Len(x.r.chain) - u = x.r.proto - 1 => Ready(x, u + 1),
         NEW y, Rewires(x, ap_remove_input_filter(x.r, x.r.chain[u]), y)
  PROVE  Good(y) /\ Goes(x, u, y)
<1>1. y = [x EXCEPT !.r = ap_remove_input_filter(x.r, x.r.chain[u])]
  BY DEF Rewires
<1>. QED  BY <1>1, DropGood DEF Goes
LEMMA InitDrop ==
  ASSUME Given, NEW x, Good(x), NEW f, Fresher(x, f), NEW u \in 1..Len(x.r.chain), x.r.chain[u] = f, x.r.f # f,
         NEW y, Rewires(x, ap_remove_input_filter(x.r, f), y)
  PROVE  Inits(x, f, y) /\ Goes(x, u, y)
<1>1. x \in World /\ Chained(x.r) /\ x.r \in Chain /\ Kept(x) /\ x.r.proto \in Nat
  BY WorldType, ChainType DEF Good
<1>2. PICK n \in Nat : n = Len(x.r.chain)
  BY <1>1, ChainType
<1>3. f # Other /\ f \in Filters
  <2>1. f \in Filters
    BY DEF Fresher
  <2>2. f \in Nat
    BY <2>1, Sizes DEF Filters
  <2>3. Other \notin Nat
    BY Nulls
  <2>. QED  BY <2>1, <2>2, <2>3
<1>4. ~(Len(x.r.chain) - u = x.r.proto - 1)
  <2>. SUFFICES ASSUME Len(x.r.chain) - u = x.r.proto - 1 PROVE FALSE
    OBVIOUS
  <2>1. x.r.proto > 0 /\ Len(x.r.chain) - x.r.proto + 1 = u
    BY <1>1, <1>2
  <2>2. FirstProto(x.r) = f
    BY <2>1 DEF FirstProto
  <2>. QED  BY <1>1, <1>3, <2>1, <2>2 DEF Kept, Fresher
<1>5. Good(y) /\ Goes(x, u, y)
  BY <1>4, DropGoes
<1>6. Quiet(Seen(x, f))
  BY SeenIdle DEF Fresher
<1>7. ASSUME NEW a, NEW b, Flow(x, a, b) PROVE Flow(y, a, b)
  <2>1. y \in World /\ Len(y.r.chain) = Len(x.r.chain) - 1 /\ Quiet(Seen(x, x.r.chain[u]))
    BY <1>5, <1>6 DEF Good, Goes
  <2>2. \A t \in 1..Len(y.r.chain) : Like(Seen(y, y.r.chain[t]), Seen(x, x.r.chain[Away(u, t)]))
    BY <1>5 DEF Goes, Like
  <2>. QED  BY <1>1, <1>7, <2>1, <2>2, FlowDrop
<1>8. ASSUME NEW g, g # f, Stays(x, g) PROVE Stays(y, g)
  <2>1. PICK v \in 1..n : x.r.chain[v] = g
    BY <1>2, <1>8 DEF Stays
  <2>2. v # u
    BY <1>8, <2>1
  <2>20. PICK u1 \in 1..n : u1 = u
    BY <1>2
  <2>21. \E t \in 1..(n - 1) : Away(u1, t) = v
    <3>1. v # u1
      BY <2>2, <2>20
    <3>2. \A k \in 1..n : k # u1 => \E t \in 1..(n - 1) : Away(u1, t) = k
      <4>. HIDE <1>2, <2>20
      <4>. QED  BY AwayIs
    <3>. QED  BY <3>1, <3>2, Zenon
  <2>3. PICK t \in 1..(n - 1) : Away(u, t) = v
    BY <2>20, <2>21
  <2>4. Len(y.r.chain) = n - 1 /\ y.r.chain[t] = g
    BY <1>2, <1>5, <2>1, <2>3 DEF Goes
  <2>. QED  BY <2>4 DEF Stays
<1>9. \A g \in Filters : Mild(x.ctx[g], y.ctx[g])
  BY <1>1, <1>5, InitsMild DEF Goes
<1>10. y.of = x.of
  BY <1>5 DEF Goes
<1>. QED  BY <1>5, <1>7, <1>8, <1>9, <1>10 DEF Inits

\* It goes above another module's filter that is on top.
LEMMA RewireAgain ==
  ASSUME NEW x \in World, NEW z \in World, z.of = x.of, z.ctx = x.ctx, NEW s, NEW y, Rewires(x, s, y)
  PROVE  Rewires(z, s, y)
<1>1. x = [r |-> x.r, of |-> x.of, ctx |-> x.ctx] /\ z = [r |-> z.r, of |-> z.of, ctx |-> z.ctx]
  BY DEF World
<1>2. y = [r |-> s, of |-> x.of, ctx |-> x.ctx]
  BY <1>1 DEF Rewires
<1>3. [z EXCEPT !.r = s] = [r |-> s, of |-> z.of, ctx |-> z.ctx]
  BY <1>1
<1>. QED  BY <1>2, <1>3 DEF Rewires
\* s is the chain of x with f, its u-th filter, on top, for the handle to use.
Lifts(x, u, f, s) ==
  /\ s \in Chain /\ s.f = f /\ s.used = x.r.used
  /\ Len(s.chain) = Len(x.r.chain) /\ s.chain[1] = f
  /\ \A t \in 1..Len(s.chain) : t # 1 => s.chain[t] = x.r.chain[Away(u, t - 1)]
  /\ s.proto = IF Len(x.r.chain) - u < x.r.proto THEN x.r.proto - 1 ELSE x.r.proto
LEMMA LiftsIs ==
  ASSUME NEW x, Good(x), NEW u \in 1..Len(x.r.chain), NEW f \in Nat, x.r.chain[u] = f, x.r.chain[1] # f,
         NEW s, s = [apreq_filter_relocate(x.r, f) EXCEPT !.f = f]
  PROVE  Lifts(x, u, f, s)
<1>1. x \in World /\ Chained(x.r) /\ x.r \in Chain
  BY WorldType DEF Good
<1>2. PICK n \in Nat : n = Len(x.r.chain) /\ n > 0
  BY <1>1, ChainType
<1>3. Head(x.r.chain) # f
  BY <1>1, <1>2, ChainType
<1>4. PICK w : w = ap_remove_input_filter(x.r, f)
  OBVIOUS
<1>5. PICK z : z = OnTop(w, f)
  OBVIOUS
<1>6. s = [z EXCEPT !.f = f]
  BY <1>3, <1>4, <1>5 DEF apreq_filter_relocate
<1>7. /\ w \in Chain /\ w.used = x.r.used /\ Len(w.chain) = n - 1
      /\ \A t \in 1..(n - 1) : w.chain[t] = x.r.chain[Away(u, t)]
      /\ w.proto = IF n - u < x.r.proto THEN x.r.proto - 1 ELSE x.r.proto
  <2>. HIDE <1>6
  <2>1. w = ap_remove_input_filter(x.r, x.r.chain[u])
    BY <1>4
  <2>. HIDE <1>4
  <2>2. /\ w \in Chain /\ w.used = x.r.used /\ Len(w.chain) = Len(x.r.chain) - 1
        /\ \A t \in 1..Len(w.chain) : w.chain[t] = x.r.chain[IF t < u THEN t ELSE t + 1]
        /\ w.proto = IF Len(x.r.chain) - u < x.r.proto THEN x.r.proto - 1 ELSE x.r.proto
    BY <1>1, <2>1, Removed, Zenon
  <2>. QED  BY <1>2, <2>2 DEF Away
<1>8. /\ z \in Chain /\ z.used = w.used /\ z.proto = w.proto /\ Len(z.chain) = Len(w.chain) + 1 /\ z.chain[1] = f
      /\ \A t \in 1..Len(z.chain) : t # 1 => z.chain[t] = w.chain[t - 1]
  <2>. HIDE <1>4, <1>6
  <2>1. f \in Links
    BY DEF Links
  <2>. QED  BY <1>5, <1>7, <2>1, Pushed
<1>. HIDE <1>4, <1>5
<1>9. s \in Chain /\ s.chain = z.chain /\ s.proto = z.proto /\ s.used = z.used /\ s.f = f
  BY <1>6, <1>8 DEF Chain
<1>. HIDE <1>6
<1>10. Len(s.chain) = n
  BY <1>7, <1>8, <1>9
<1>11. ASSUME NEW t \in 1..n, t # 1 PROVE s.chain[t] = x.r.chain[Away(u, t - 1)]
  <2>1. t - 1 \in 1..(n - 1)
    BY <1>11
  <2>2. s.chain[t] = w.chain[t - 1]
    BY <1>8, <1>9, <1>10, <1>11
  <2>. QED  BY <1>7, <2>1, <2>2
<1>. QED  BY <1>2, <1>7, <1>8, <1>9, <1>10, <1>11 DEF Lifts

\* A filter that is in the chain stays when another is put on top.
LEMMA PutsStays ==
  ASSUME NEW x \in World, NEW y, NEW f, Puts(x, f, y.r), NEW g, Stays(x, g)
  PROVE  Stays(y, g)
<1>1. PICK n \in Nat : n = Len(x.r.chain)
  BY WorldType, ChainType
<1>2. PICK t \in 1..n : x.r.chain[t] = g
  BY <1>1 DEF Stays
<1>3. Len(y.r.chain) = n + 1 /\ \A v \in 1..(n + 1) : v # 1 => y.r.chain[v] = x.r.chain[v - 1]
  BY <1>1 DEF Puts
<1>4. t + 1 \in 1..(n + 1) /\ t + 1 # 1 /\ (t + 1) - 1 = t
  OBVIOUS
<1>5. y.r.chain[t + 1] = g
  BY <1>2, <1>3, <1>4
<1>. QED  BY <1>3, <1>4, <1>5 DEF Stays

\* f, the u-th filter of x, has left z: s puts it on top.
Rest(x, u, z) ==
  \A t \in 1..Len(z.r.chain) : \E v \in 1..Len(x.r.chain) : v # u /\ z.r.chain[t] = x.r.chain[v]
LEMMA LiftPuts ==
  ASSUME NEW x, Good(x), NEW u \in 1..Len(x.r.chain), NEW f, x.r.chain[u] = f, f \in Nat,
         NEW s, Lifts(x, u, f, s), NEW x1 \in World, Turns(x, None, x1.r), NEW z \in World, Goes(x1, u, z)
  PROVE  Puts(z, f, s) /\ Rest(x, u, z)
<1>1. Chained(x.r) /\ x.r \in Chain /\ x.r.used \in Nat
  BY WorldType, ChainType DEF Good
<1>2. PICK n \in Nat : n = Len(x.r.chain) /\ u \in 1..n
  BY <1>1, ChainType
<1>3. x1.r \in Chain /\ x1.r.chain = x.r.chain /\ x1.r.proto = x.r.proto /\ x1.r.used = x.r.used
  BY DEF Turns
<1>4. /\ Len(z.r.chain) = n - 1 /\ z.r.used = x.r.used
      /\ \A t \in 1..(n - 1) : z.r.chain[t] = x.r.chain[Away(u, t)]
  BY <1>2, <1>3 DEF Goes
<1>5. z.r.proto = IF n - u < x.r.proto THEN x.r.proto - 1 ELSE x.r.proto
  <2>1. Chained(x1.r)
    BY <1>1, <1>3 DEF Chained
  <2>2. PICK u1 \in 1..Len(x1.r.chain) : u1 = u
    BY <1>3
  <2>3. z.r = ap_remove_input_filter(x1.r, x1.r.chain[u1])
    BY <2>2 DEF Goes
  <2>4. z.r.proto = IF Len(x1.r.chain) - u1 < x1.r.proto THEN x1.r.proto - 1 ELSE x1.r.proto
    BY <1>3, <2>1, <2>3, Removed, Zenon
  <2>. QED  BY <1>2, <1>3, <2>2, <2>4
<1>6. \A t \in 1..(n - 1) : Away(u, t) \in 1..n /\ Away(u, t) # u
  BY <1>2, AwayIs
<1>7. /\ s \in Chain /\ s.used = x.r.used /\ Len(s.chain) = n /\ s.chain[1] = f /\ s.proto = z.r.proto
      /\ \A t \in 1..n : t # 1 => s.chain[t] = x.r.chain[Away(u, t - 1)]
  BY <1>2, <1>5 DEF Lifts
<1>8. ASSUME NEW t \in 1..n, t # 1 PROVE s.chain[t] = z.r.chain[t - 1]
  <2>1. t - 1 \in 1..(n - 1)
    BY <1>8
  <2>. QED  BY <1>4, <1>7, <1>8, <2>1
<1>9. ASSUME NEW t \in 1..(n - 1) PROVE z.r.chain[t] # f
  <2>1. PICK v \in 1..n : v = Away(u, t) /\ v # u
    BY <1>6
  <2>2. x.r.chain[v] # x.r.chain[u]
    BY <1>1, <1>2, <2>1, ChainType DEF Chained
  <2>. QED  BY <1>4, <2>1, <2>2
<1>10. f \in 1..x.r.used /\ f \in Links
  <2>1. f \in Links /\ f # Other
    BY Nulls DEF Links
  <2>. QED  BY <1>1, <1>2, <2>1, ChainType DEF Chained
<1>11. n = (n - 1) + 1 /\ x.r.used >= x.r.used
  BY <1>1
<1>12. Puts(z, f, s)
  BY <1>4, <1>7, <1>8, <1>9, <1>10, <1>11 DEF Puts
<1>. QED  BY <1>2, <1>4, <1>6, <1>12 DEF Rest

\* apreq_filter_init relocates a filter to the top.
LEMMA InitLift ==
  ASSUME Given, NEW x, Good(x), NEW f, Fresher(x, f), NEW u \in 1..Len(x.r.chain), x.r.chain[u] = f,
         NEW s, Lifts(x, u, f, s), NEW y, Rewires(x, s, y)
  PROVE  Inits(x, f, y)
<1>1. x \in World
  BY DEF Good
<1>2. f \in Nat /\ f # None /\ f # Other
  <2>1. f \in Nat
    BY Sizes DEF Fresher, Filters
  <2>2. None \notin Nat /\ Other \notin Nat
    BY Nulls
  <2>. QED  BY <2>1, <2>2
<1>3. PICK s1, x1 : Turns(x, None, s1) /\ Rewires(x, s1, x1)
  <2>1. Turns(x, None, [x.r EXCEPT !.f = None])
    BY <1>1, TurnsIs
  <2>. QED  BY <2>1 DEF Rewires
<1>4. Inits(x, f, x1)
  BY <1>3, ReleaseGood
<1>5. /\ x1 \in World /\ x1.r = s1 /\ x1.of = x.of /\ x1.ctx = x.ctx /\ s1.chain = x.r.chain /\ s1.f = None
      /\ \A h : HasContext(x1, h) <=> HasContext(x, h)
      /\ \A h : CtxOf(x1, h) = CtxOf(x, h) /\ Seen(x1, h) = Seen(x, h)
  <2>1. s1 \in Chain /\ s1.chain = x.r.chain /\ s1.f = None
    BY <1>3 DEF Turns
  <2>. QED  BY <1>1, <1>3, <2>1, Rewired
<1>6. Good(x1) /\ Fresher(x1, f) /\ x1.r.chain[u] = f /\ x1.r.f # f /\ u \in 1..Len(x1.r.chain)
  BY <1>2, <1>4, <1>5 DEF Inits, Fresher
<1>7. PICK z : Rewires(x1, ap_remove_input_filter(x1.r, f), z)
  BY DEF Rewires
<1>8. Inits(x1, f, z) /\ Goes(x1, u, z)
  BY <1>6, <1>7, InitDrop
<1>. HIDE <1>7
<1>9. Good(z) /\ z \in World /\ z.of = x.of /\ z.ctx = x.ctx
  BY <1>5, <1>8 DEF Inits, Goes, Good
<1>10. Turns(x, None, x1.r)
  BY <1>3, <1>5
<1>11. Puts(z, f, s) /\ Rest(x, u, z)
  <2>1. x1 \in World /\ z \in World /\ f \in Nat /\ Goes(x1, u, z)
    BY <1>2, <1>5, <1>8, <1>9
  <2>. QED  BY <1>10, <2>1, LiftPuts
<1>12. \A t \in 1..Len(z.r.chain) : \E v \in 1..Len(x.r.chain) : v # u /\ z.r.chain[t] = x.r.chain[v]
  BY <1>11 DEF Rest
<1>13. (HasContext(z, f) <=> HasContext(x, f)) /\ CtxOf(z, f) = CtxOf(x, f)
  BY <1>9 DEF HasContext, CtxOf
<1>14. HasContext(z, f) => CtxOf(z, f).status # INTERRUPT /\ CtxOf(z, f).spool.data = <<>>
  <2>1. HasContext(x, f) => Sound(CtxOf(x, f)) /\ CtxOf(x, f).status = APR_EINIT
    BY <1>1, WorldType DEF Good, Fresher
  <2>2. HasContext(x, f) => CtxOf(x, f).spool = NoBrigade
    BY <2>1 DEF Sound
  <2>3. NoBrigade.data = <<>> /\ APR_EINIT # INTERRUPT
    BY DEF NoBrigade, APR_EINIT, INTERRUPT
  <2>. QED  BY <1>13, <2>1, <2>2, <2>3
<1>15. ASSUME HasContext(z, f), NEW t \in 1..Len(z.r.chain), HasContext(z, z.r.chain[t])
       PROVE  z.of[z.r.chain[t]] # z.of[f]
  <2>1. PICK v \in 1..Len(x.r.chain) : v # u /\ z.r.chain[t] = x.r.chain[v]
    BY <1>12
  <2>2. HasContext(x, x.r.chain[v]) /\ HasContext(x, x.r.chain[u])
    BY <1>9, <1>15, <2>1 DEF HasContext
  <2>3. x.of[x.r.chain[v]] # x.of[x.r.chain[u]]
    BY <2>1, <2>2, Apart
  <2>. QED  BY <1>9, <2>1, <2>3
<1>16. s.f = f /\ s \in Chain
  BY DEF Lifts
<1>17. y = [z EXCEPT !.r = s]
  <2>1. Rewires(z, s, y)
    BY <1>1, <1>9, RewireAgain
  <2>. QED  BY <2>1 DEF Rewires
<1>18. Good(y)
  <2>1. Good([z EXCEPT !.r = s])
    BY <1>2, <1>9, <1>11, <1>14, <1>15, <1>16, PushGood
  <2>. QED  BY <1>17, <2>1
<1>19. Quiet(Seen(z, f)) /\ ~Seen(z, f).parsing
  <2>1. HasContext(z, f) => CtxOf(z, f).status = APR_EINIT
    BY <1>13 DEF Fresher
  <2>. QED  BY <1>9, <2>1, SeenIdle
<1>20. ASSUME NEW a, NEW b, Flow(z, a, b) PROVE Flow(y, a, b)
  <2>1. Flow([z EXCEPT !.r = s], a, b)
    BY <1>9, <1>11, <1>19, <1>20, PushFlow
  <2>. QED  BY <1>17, <2>1
<1>21. y.r = s /\ y.of = z.of /\ y.ctx = z.ctx
  <2>1. Rewires(z, s, y)
    BY <1>17 DEF Rewires
  <2>. QED  BY <1>9, <1>16, <2>1, Rewired
<1>22. \A g : Stays(z, g) => Stays(y, g)
  BY <1>9, <1>11, <1>21, PutsStays
<1>23. \A g \in Filters : Mild(z.ctx[g], y.ctx[g])
  BY <1>9, <1>21, InitsMild
<1>24. Inits(z, f, y)
  BY <1>18, <1>20, <1>21, <1>22, <1>23 DEF Inits
<1>25. Inits(x1, f, y)
  BY <1>6, <1>8, <1>24, InitsTrans
<1>. QED  BY <1>4, <1>25, InitsTrans

\* The context of the handle's filter is interrupted, for the next handle to take over.
Interrupts(c, d) == d = [c EXCEPT !.status = IF c.status = APR_INCOMPLETE THEN INTERRUPT ELSE c.status]
LEMMA InterruptsIs ==
  ASSUME Given, NEW c \in Context, Sound(c), c.status # APR_EINIT, NEW d, Interrupts(c, d)
  PROVE  d \in Context /\ Sound(d) /\ Settled(c, d) /\ Mild(c, d) /\ SeenOf(d) = SeenOf(c) /\ d.spool = c.spool
<1>1. PICK st : st = IF c.status = APR_INCOMPLETE THEN INTERRUPT ELSE c.status
  OBVIOUS
<1>2. d = [c EXCEPT !.status = st]
  BY <1>1 DEF Interrupts
<1>3. c.status \in Statuses /\ st \in Statuses
  BY <1>1, ContextType DEF Statuses
<1>4. d \in Context
  BY <1>2, <1>3 DEF Context
<1>5. /\ d.status = st /\ d.spool = c.spool /\ d.parser = c.parser /\ d.body = c.body /\ d.shown = c.shown
      /\ d.filter_error = c.filter_error /\ d.bytes_read = c.bytes_read
  BY <1>2 DEF Context
<1>. HIDE <1>1, <1>2
<1>6. (c.status = APR_INCOMPLETE /\ st = INTERRUPT) \/ (c.status # APR_INCOMPLETE /\ st = c.status)
  BY <1>1
<1>7. CASE c.status = APR_INCOMPLETE /\ st = INTERRUPT
  <2>1. /\ st \notin {APR_EINIT, APR_SUCCESS, GENERAL} /\ c.status \notin {APR_EINIT, APR_SUCCESS, GENERAL}
        /\ c.status \notin Finished
    BY <1>7 DEF Finished, APR_EINIT, APR_INCOMPLETE, APR_SUCCESS, INTERRUPT, GENERAL, OVERLIMIT, NODATA, NOPARSER,
       NOHEADER, BADHEADER
  <2>2. Sound(d)
    BY <1>5, <1>7, <2>1 DEF Sound
  <2>3. Settled(c, d)
    BY <1>5, <2>1 DEF Settled
  <2>4. Mild(c, d)
    BY <1>5, <1>7 DEF Mild, Lazy, Shows, APR_INCOMPLETE, INTERRUPT
  <2>5. SeenOf(d) = SeenOf(c)
    <3>1. d.status \in {APR_INCOMPLETE, INTERRUPT} <=> c.status \in {APR_INCOMPLETE, INTERRUPT}
      BY <1>5, <1>7
    <3>. QED  BY <1>5, <3>1 DEF SeenOf
  <2>. QED  BY <1>4, <1>5, <2>2, <2>3, <2>4, <2>5
<1>8. CASE st = c.status
  <2>1. Sound(d)
    BY <1>5, <1>8 DEF Sound
  <2>2. Settled(c, d)
    BY <1>5, <1>8 DEF Settled
  <2>3. Mild(c, d)
    BY <1>5, <1>8 DEF Mild, Lazy, Shows
  <2>4. SeenOf(d) = SeenOf(c)
    BY <1>5, <1>8 DEF SeenOf
  <2>. QED  BY <1>4, <1>5, <2>1, <2>2, <2>3, <2>4
<1>. QED  BY <1>6, <1>7, <1>8

\* apreq_filter_init interrupts a stale protocol filter.
LEMMA InitInterrupt ==
  ASSUME Given, NEW x, Good(x), NEW f, HasContext(x, f), CtxOf(x, f).status # APR_EINIT,
         NEW s, Turns(x, None, s), NEW x1, Rewires(x, s, x1),
         NEW d, Interrupts(CtxOf(x, f), d), NEW y, Updates(x1, x.of[f], d, y)
  PROVE  Inits(x, f, y)
<1>1. Inits(x, f, x1)
  BY ReleaseGood
<1>2. /\ x \in World /\ x1 \in World /\ x1.r.f = None /\ x1.of = x.of /\ x1.ctx = x.ctx
      /\ \A h : HasContext(x1, h) <=> HasContext(x, h)
      /\ \A h : CtxOf(x1, h) = CtxOf(x, h) /\ Seen(x1, h) = Seen(x, h)
  <2>1. x \in World /\ s \in Chain /\ s.f = None
    BY DEF Turns, Good
  <2>. QED  BY <2>1, Rewired
<1>3. PICK o \in Filters, c \in Context : o = x.of[f] /\ c = x1.ctx[o] /\ c = CtxOf(x, f)
  BY <1>2, WorldType
<1>4. Good(x1) /\ x1.of[o] = o /\ Sound(c)
  <2>1. Owned(x) /\ f \in Filters /\ x.of[f] # 0
    BY DEF Good, HasContext
  <2>2. x.of[o] = o
    BY <1>3, <2>1 DEF Owned
  <2>. QED  BY <1>1, <1>2, <1>3, <2>2 DEF Inits, Good
<1>5. d \in Context /\ Sound(d) /\ Settled(c, d) /\ Mild(c, d) /\ SeenOf(d) = SeenOf(c) /\ d.spool = c.spool
  <2>1. Interrupts(c, d) /\ c.status # APR_EINIT
    BY <1>3
  <2>. QED  BY <1>4, <2>1, InterruptsIs
<1>6. Updates(x1, o, d, y)
  BY <1>3
<1>7. /\ y \in World /\ y.r = x1.r /\ y.of = x1.of /\ y.ctx[o] = d
      /\ \A g \in Filters : g # o => y.ctx[g] = x1.ctx[g]
      /\ \A g : HasContext(y, g) <=> HasContext(x1, g)
      /\ \A g : HasContext(x1, g) => CtxOf(y, g) = IF x1.of[g] = o THEN d ELSE CtxOf(x1, g)
  BY <1>2, <1>5, <1>6, UpdateIs
<1>8. Good(y)
  <2>1. Holds(x1, o, d)
    BY <1>3, <1>5 DEF Holds
  <2>2. Good([x1 EXCEPT !.ctx[o] = d])
    BY <1>2, <1>3, <1>4, <1>5, <2>1, UpdateGood
  <2>. QED  BY <1>6, <2>2 DEF Updates
<1>9. ASSUME NEW g \in Filters PROVE Mild(x1.ctx[g], y.ctx[g])
  <2>1. CASE g # o
    <3>1. PICK e \in Context : e = x1.ctx[g]
      BY <1>2, WorldType
    <3>2. Mild(e, e)
      BY MovesTrans
    <3>. QED  BY <1>7, <2>1, <3>1, <3>2
  <2>2. CASE g = o
    BY <1>3, <1>5, <1>7, <2>2
  <2>. QED  BY <2>1, <2>2
<1>10. ASSUME NEW g PROVE Like(Seen(y, g), Seen(x1, g))
  <2>1. CASE ~HasContext(x1, g)
    BY <1>7, <2>1, SeenIs DEF Like
  <2>2. CASE HasContext(x1, g) /\ x1.of[g] # o
    BY <1>7, <2>2, SeenIs DEF Like
  <2>3. CASE HasContext(x1, g) /\ x1.of[g] = o
    <3>0. CtxOf(y, g) = d /\ CtxOf(x1, g) = c /\ HasContext(y, g)
      <4>1. CtxOf(y, g) = d /\ HasContext(y, g)
        BY <1>7, <2>3
      <4>2. CtxOf(x1, g) = c
        BY <1>3, <2>3 DEF CtxOf
      <4>. QED  BY <4>1, <4>2
    <3>1. Seen(y, g) = SeenOf(d) /\ Seen(x1, g) = SeenOf(c)
      BY <2>3, <3>0, SeenIs
    <3>. QED  BY <1>5, <3>1 DEF Like
  <2>. QED  BY <2>1, <2>2, <2>3
<1>11. ASSUME NEW a, NEW b, Flow(x1, a, b) PROVE Flow(y, a, b)
  <2>1. y.r.chain = x1.r.chain /\ x1 \in World /\ y \in World
    BY <1>2, <1>7
  <2>. QED  BY <1>10, <1>11, <2>1, FlowLike
<1>12. \A g : Stays(x1, g) => Stays(y, g)
  BY <1>7 DEF Stays
<1>13. Inits(x1, f, y)
  BY <1>7, <1>8, <1>9, <1>11, <1>12 DEF Inits
<1>. QED  BY <1>1, <1>13, InitsTrans

\* The init function of f.
LEMMA InitOne ==
  ASSUME Given, NEW x, Good(x), NEW f, f = Other \/ f \in Filters, Stays(x, f), NEW y, y = apreq_filter_init(x, f)
  PROVE  Inits(x, f, y)
<1>1. CASE f = Other
  <2>1. y = x
    BY <1>1 DEF apreq_filter_init
  <2>2. x \in World /\ x.ctx = x.ctx
    BY DEF Good
  <2>3. \A g \in Filters : Mild(x.ctx[g], x.ctx[g])
    BY <2>2, InitsMild
  <2>4. Inits(x, f, x)
    BY <2>3 DEF Inits
  <2>. QED  BY <2>1, <2>4
<1>2. CASE f # Other
  <2>1. f \in Filters
    BY <1>2
  <2>2. PICK x1 : x1 = [x EXCEPT !.r = get_apreq_filter(x.r)]
    OBVIOUS
  <2>3. Handles(x, x1)
    BY <2>2, GetGood
  <2>4. Inits(x, f, x1) /\ Stays(x1, f) /\ Good(x1) /\ x1 \in World
    BY <2>3, GetInits DEF Handles, Good
  <2>5. PICK n \in Nat, q \in Seq(Links) : q = x1.r.chain /\ n = Len(q) /\ DOMAIN q = 1..n /\ Chained(x1.r)
    BY <2>4, WorldType, ChainType DEF Good
  <2>6. PICK u \in 1..n : q[u] = f
    BY <2>4, <2>5 DEF Stays
  <2>7. Head(q) = q[1] /\ 1 \in 1..n
    BY <2>5
  <2>8. PICK st : st = IF x1.of[f] = 0 THEN APR_EINIT ELSE CtxOf(x1, f).status
    OBVIOUS
  <2>9. HasContext(x1, f) <=> x1.of[f] # 0
    BY <2>1 DEF HasContext
  <2>10. CASE request.method = "GET"
    <3>1. y = x1
      BY <1>2, <2>2, <2>10 DEF apreq_filter_init
    <3>. QED  BY <2>4, <3>1
  <2>11. CASE request.method # "GET" /\ st = APR_EINIT
    <3>1. Fresher(x1, f)
      BY <2>1, <2>8, <2>9, <2>11 DEF Fresher
    <3>2. y = IF f = Head(x1.r.chain) THEN [x1 EXCEPT !.r.f = f]
              ELSE IF Head(x1.r.chain) # Other
              THEN [x1 EXCEPT !.r = ap_remove_input_filter([x1.r EXCEPT !.f = IF @ = f THEN Head(x1.r.chain) ELSE @], f)]
              ELSE [x1 EXCEPT !.r = [apreq_filter_relocate(x1.r, f) EXCEPT !.f = f]]
      <4>. HIDE <2>3
      <4>. QED  BY <1>2, <2>2, <2>8, <2>11 DEF apreq_filter_init
    <3>. HIDE <2>2, <2>8
    <3>3. CASE f = q[1]
      <4>1. PICK s : s = [x1.r EXCEPT !.f = f]
        OBVIOUS
      <4>2. Rewires(x1, s, y)
        BY <2>5, <2>7, <3>2, <3>3, <4>1 DEF Rewires
      <4>3. Turns(x1, f, s)
        <5>1. f \in Nat \cup {None}
          BY <2>1, Sizes DEF Filters
        <5>. QED  BY <2>4, <4>1, <5>1, TurnsIs
      <4>. HIDE <3>2, <4>1
      <4>4. Inits(x1, f, y)
        BY <2>4, <2>5, <2>7, <3>1, <3>3, <4>2, <4>3, InitTop
      <4>. QED  BY <2>4, <4>4, InitsTrans
    <3>4. CASE f # q[1] /\ q[1] # Other
      <4>1. x1.r.f # f
        <5>. SUFFICES ASSUME x1.r.f = f PROVE FALSE
          OBVIOUS
        <5>1. f # None /\ Handled(x1)
          <6>1. f \in Nat
            BY <2>1, Sizes DEF Filters
          <6>. QED  BY <2>4, <6>1, Nulls DEF Good
        <5>2. 1 < u
          BY <2>6, <3>4
        <5>. QED  BY <2>5, <2>6, <2>7, <3>4, <5>1, <5>2 DEF Handled
      <4>2. [x1.r EXCEPT !.f = IF @ = f THEN Head(x1.r.chain) ELSE @] = x1.r
        <5>1. x1.r \in Chain
          BY <2>4, WorldType
        <5>2. x1.r = [chain |-> x1.r.chain, proto |-> x1.r.proto, f |-> x1.r.f, used |-> x1.r.used]
          BY <5>1 DEF Chain
        <5>3. [x1.r EXCEPT !.f = x1.r.f] = x1.r
          BY <5>2
        <5>. QED  BY <4>1, <5>3
      <4>3. Rewires(x1, ap_remove_input_filter(x1.r, f), y)
        BY <2>5, <2>7, <3>2, <3>4, <4>2 DEF Rewires
      <4>. HIDE <3>2, <4>2
      <4>4. Inits(x1, f, y)
        BY <2>4, <2>5, <2>6, <3>1, <4>1, <4>3, InitDrop
      <4>. QED  BY <2>4, <4>4, InitsTrans
    <3>5. CASE f # q[1] /\ q[1] = Other
      <4>1. PICK s : s = [apreq_filter_relocate(x1.r, f) EXCEPT !.f = f]
        OBVIOUS
      <4>2. Rewires(x1, s, y)
        BY <2>5, <2>7, <3>2, <3>5, <4>1 DEF Rewires
      <4>. HIDE <3>2
      <4>3. Lifts(x1, u, f, s)
        <5>1. f \in Nat
          BY <2>1, Sizes DEF Filters
        <5>. QED  BY <2>4, <2>5, <2>6, <3>5, <4>1, <5>1, LiftsIs
      <4>. HIDE <4>1
      <4>4. Inits(x1, f, y)
        BY <2>4, <2>5, <2>6, <3>1, <4>2, <4>3, InitLift
      <4>. QED  BY <2>4, <4>4, InitsTrans
    <3>. QED  BY <3>3, <3>4, <3>5
  <2>12. CASE request.method # "GET" /\ st # APR_EINIT
    <3>1. HasContext(x1, f) /\ CtxOf(x1, f).status # APR_EINIT
      BY <2>8, <2>9, <2>12
    <3>2. y = IF x1.r.f # f THEN x1
              ELSE [x1 EXCEPT !.r.f = None,
                      !.ctx[x1.of[f]].status = IF @ = APR_INCOMPLETE THEN INTERRUPT ELSE @]
      <4>. HIDE <2>3
      <4>. QED  BY <1>2, <2>2, <2>8, <2>12 DEF apreq_filter_init
    <3>. HIDE <2>2, <2>8
    <3>3. CASE x1.r.f # f
      <4>1. y = x1
        BY <3>2, <3>3
      <4>. QED  BY <2>4, <4>1
    <3>4. CASE x1.r.f = f
      <4>1. PICK s, x2, o, c, d : /\ s = [x1.r EXCEPT !.f = None] /\ x2 = [x1 EXCEPT !.r = s]
                                  /\ o = x1.of[f] /\ c = x1.ctx[o]
                                  /\ d = [c EXCEPT !.status = IF c.status = APR_INCOMPLETE THEN INTERRUPT ELSE c.status]
        OBVIOUS
      <4>2. CtxOf(x1, f) = c /\ o \in Filters
        BY <2>4, <3>1, <4>1, WorldType
      <4>3. y = [x2 EXCEPT !.ctx[o] = d]
        BY <3>2, <3>4, <4>1, Zenon
      <4>4. Rewires(x1, s, x2) /\ Interrupts(CtxOf(x1, f), d) /\ Updates(x2, x1.of[f], d, y)
        BY <4>1, <4>2, <4>3 DEF Rewires, Interrupts, Updates
      <4>5. Turns(x1, None, s)
        BY <2>4, <4>1, TurnsIs
      <4>. HIDE <3>2, <4>1, <4>2, <4>3
      <4>6. Inits(x1, f, y)
        BY <2>4, <3>1, <4>4, <4>5, InitInterrupt
      <4>. QED  BY <2>4, <4>6, InitsTrans
    <3>. QED  BY <3>3, <3>4
  <2>. QED  BY <2>10, <2>11, <2>12
<1>. QED  BY <1>1, <1>2

\* The init functions of all filters of x, in turn.
Inited(x, y) ==
  /\ Good(y) /\ y.of = x.of /\ \A g \in Filters : Mild(x.ctx[g], y.ctx[g])
  /\ \A a, b : Flow(x, a, b) => Flow(y, a, b)
LEMMA InitedOn ==
  ASSUME Given, NEW x, Good(x), NEW y, Inited(x, y), NEW f, NEW z, Inits(y, f, z)
  PROVE  Inited(x, z)
<1>1. x \in World /\ y \in World /\ z \in World
  BY DEF Inits, Inited, Good
<1>2. ASSUME NEW g \in Filters PROVE Mild(x.ctx[g], z.ctx[g])
  <2>1. PICK c \in Context, d \in Context, e \in Context : c = x.ctx[g] /\ d = y.ctx[g] /\ e = z.ctx[g]
    BY <1>1, WorldType
  <2>2. Mild(c, d) /\ Mild(d, e)
    BY <2>1 DEF Inits, Inited
  <2>3. Mild(c, e)
    BY <2>2, MovesTrans
  <2>. QED  BY <2>1, <2>3
<1>. QED  BY <1>2 DEF Inits, Inited

\* ap_invoke_filter_init on every filter of the chain.
LEMMA InitAll ==
  ASSUME Given, NEW x, Good(x), x.r.used <= MaxFilters
  PROVE  Inited(x, InitFilters(x))
<1>. DEFINE N == Len(x.r.chain)
            step(h) == [n \in 0..N |-> IF n = 0 THEN x ELSE apreq_filter_init(h[n - 1], x.r.chain[n])]
            f == CHOOSE h : h = step(h)
            G == [n \in 0..N |-> {y \in World : Inited(x, y) /\ \A t \in (n + 1)..N : Stays(y, x.r.chain[t])}]
            op == [p \in World \X (1..N) |-> apreq_filter_init(p[1], x.r.chain[p[2]])]
<1>1. InitFilters(x) = f[N]
  BY DEF InitFilters
<1>2. N \in Nat /\ x \in World /\ Chained(x.r) /\ DOMAIN x.r.chain = 1..N /\ x.r.used \in Nat
  BY WorldType, ChainType DEF Good
<1>3. x \in G[0]
  <2>1. 0 \in 0..N /\ 0 + 1 = 1
    BY <1>2
  <2>2. Inited(x, x)
    <3>1. \A g \in Filters : Mild(x.ctx[g], x.ctx[g])
      BY <1>2, InitsMild
    <3>. QED  BY <3>1 DEF Inited
  <2>3. \A t \in 1..N : Stays(x, x.r.chain[t])
    BY DEF Stays
  <2>. QED  BY <1>2, <2>1, <2>2, <2>3
<1>4. ASSUME NEW n \in 1..N, NEW y \in G[n - 1]
      PROVE  apreq_filter_init(y, x.r.chain[n]) \in G[n] /\ y \in World
  <2>1. n - 1 \in 0..N /\ n \in 0..N /\ (n - 1) + 1 = n /\ n \in n..N
    BY <1>2
  <2>2. y \in World /\ Inited(x, y) /\ \A t \in n..N : Stays(y, x.r.chain[t])
    BY <2>1
  <2>. HIDE DEF N
  <2>3. PICK z, g : g = x.r.chain[n] /\ z = apreq_filter_init(y, g)
    OBVIOUS
  <2>4. g = Other \/ g \in Filters
    <3>1. g = Other \/ g \in 1..x.r.used
      BY <1>2, <2>3 DEF Chained
    <3>2. \A h \in 1..x.r.used : h \in 1..MaxFilters
      BY <1>2, Sizes
    <3>. QED  BY <3>1, <3>2 DEF Filters
  <2>5. Inits(y, g, z)
    <3>1. Good(y) /\ Stays(y, g)
      BY <2>1, <2>2, <2>3 DEF Inited
    <3>. QED  BY <2>3, <2>4, <3>1, InitOne
  <2>6. Inited(x, z) /\ z \in World
    BY <2>2, <2>5, InitedOn DEF Inits, Good
  <2>7. ASSUME NEW t \in (n + 1)..N PROVE Stays(z, x.r.chain[t])
    <3>1. t \in 1..N /\ t # n /\ t \in n..N
      BY <1>2
    <3>2. x.r.chain[t] # g
      BY <1>2, <2>3, <3>1 DEF Chained
    <3>. QED  BY <2>2, <2>5, <3>1, <3>2 DEF Inits
  <2>8. z \in G[n]
    BY <2>1, <2>6, <2>7
  <2>. QED  BY <2>2, <2>3, <2>8
<1>5. f = step(f)
  <2>1. \E h : h = step(h)
    <3>1. \A n \in 0..N : G[n] \subseteq World
      OBVIOUS
    <3>2. ASSUME NEW n \in 1..N, NEW y \in G[n - 1] PROVE op[<<y, n>>] \in G[n]
      <4>1. op[<<y, n>>] = apreq_filter_init(y, x.r.chain[n])
        BY <1>4
      <4>. QED  BY <1>4, <4>1
    <3>. HIDE DEF G, N, op
    <3>6. Leads(N, World, G, op)
      BY <3>1, <3>2 DEF Leads
    <3>7. PICK g \in [0..N -> World] : Traces(g, N, x, G, op)
      BY <1>2, <1>3, <3>6, Iterates
    <3>3. g[0] = x /\ \A n \in 1..N : g[n - 1] \in G[n - 1] /\ g[n] = op[<<g[n - 1], n>>]
      BY <3>7 DEF Traces
    <3>4. ASSUME NEW n \in 0..N PROVE g[n] = IF n = 0 THEN x ELSE apreq_filter_init(g[n - 1], x.r.chain[n])
      <4>1. CASE n = 0
        BY <3>3, <4>1
      <4>2. CASE n # 0
        <5>1. n \in 1..N
          BY <1>2, <4>2
        <5>2. g[n - 1] \in World /\ g[n] = op[<<g[n - 1], n>>]
          BY <1>4, <3>3, <5>1
        <5>. QED  BY <4>2, <5>1, <5>2 DEF op
      <4>. QED  BY <4>1, <4>2
    <3>5. g = step(g)
      <4>1. g = [n \in 0..N |-> g[n]]
        BY Zenon
      <4>2. [n \in 0..N |-> g[n]] = [n \in 0..N |-> IF n = 0 THEN x ELSE apreq_filter_init(g[n - 1], x.r.chain[n])]
        BY <3>4, Zenon
      <4>. QED  BY <4>1, <4>2, Zenon
    <3>. QED  BY <3>5
  <2>. HIDE DEF step
  <2>. QED  BY <2>1
<1>6. f[0] = x /\ \A n \in 1..N : f[n] = apreq_filter_init(f[n - 1], x.r.chain[n])
  <2>. HIDE DEF f
  <2>1. \A n \in 0..N : f[n] = IF n = 0 THEN x ELSE apreq_filter_init(f[n - 1], x.r.chain[n])
    BY <1>5
  <2>2. 0 \in 0..N /\ \A n \in 1..N : n \in 0..N /\ n # 0
    BY <1>2
  <2>. QED  BY <2>1, <2>2
<1>. HIDE DEF f, op, step
<1>7. f[N] \in G[N]
  <2>2. N \in 0..N
    BY <1>2
  <2>. HIDE DEF G, N
  <2>1. ASSUME NEW n \in 1..N, f[n - 1] \in G[n - 1] PROVE f[n] \in G[n]
    <3>1. apreq_filter_init(f[n - 1], x.r.chain[n]) \in G[n]
      BY <1>4, <2>1
    <3>. QED  BY <1>6, <3>1
  <2>. QED  BY <1>2, <1>3, <1>6, <2>1, <2>2, Follows
<1>8. ASSUME NEW y \in G[N] PROVE Inited(x, y)
  <2>1. N \in 0..N
    BY <1>2
  <2>2. G[N] = {z \in World : Inited(x, z) /\ \A t \in (N + 1)..N : Stays(z, x.r.chain[t])}
    BY <2>1
  <2>. HIDE DEF G
  <2>. QED  BY <2>2
<1>. QED  BY <1>1, <1>7, <1>8

\* The chain is made ready for the content handler.
LEMMA InvokeSteady ==
  ASSUME TypeOK, IInv, NEW other \in BOOLEAN, NEW setinput \in BOOLEAN, ap_invoke_handler(other, setinput)
  PROVE  Steady
<1>1. Given /\ Counters /\ Good(Now) /\ r.used <= MaxFilters /\ Now.r = r /\ Now.of = ctxOf /\ Now.ctx = ctx
  BY HoldsNow, NowIs
<1>2. PICK q1, q2, x1, x2, y :
        /\ q1 = IF other /\ Other \notin Range(r.chain) THEN OnTop(r, Other) ELSE r
        /\ q2 = IF ~setinput THEN q1
                ELSE [q1 EXCEPT !.chain = Append(@, q1.used + 1), !.used = @ + 1,
                                !.proto = IF @ > 0 THEN @ + 1 ELSE 0]
        /\ x1 = [Now EXCEPT !.r = q1] /\ x2 = [Now EXCEPT !.r = q2] /\ y = InitFilters(x2)
  BY Zenon
<1>3. /\ call = Idle /\ q2.used <= MaxFilters /\ y.r.used <= MaxFilters /\ Become(y) /\ phase' = "handler"
      /\ content' = content /\ request' = request /\ net' = net /\ delivered' = delivered /\ call' = call
      /\ found' = found /\ redirects' = redirects /\ sets' = sets /\ broken' = broken
  BY <1>2 DEF ap_invoke_handler
<1>4. Now \in World /\ Now = [Now EXCEPT !.r = r]
  <2>1. Now \in World
    BY <1>1 DEF Good
  <2>. QED  BY <2>1 DEF Now
<1>5. /\ Good(x1) /\ x1.of = ctxOf /\ x1.ctx = ctx /\ x1.r = q1 /\ \A a, b : Flow(Now, a, b) => Flow(x1, a, b)
  <2>1. CASE other /\ Other \notin Range(r.chain)
    <3>1. Rewires(Now, OnTop(Now.r, Other), x1) /\ Other \notin Range(Now.r.chain)
      BY <1>1, <1>2, <2>1 DEF Rewires
    <3>2. OnTop(r, Other) = q1 /\ x1 = [Now EXCEPT !.r = q1]
      BY <1>2, <2>1
    <3>3. x1.r = q1
      BY <3>2 DEF Now
    <3>. HIDE <1>2
    <3>. QED  BY <1>1, <3>1, <3>3, OtherGood
  <2>2. CASE ~(other /\ Other \notin Range(r.chain))
    <3>1. q1 = r /\ x1 = Now
      BY <1>2, <1>4, <2>2
    <3>. QED  BY <1>1, <3>1
  <2>. QED  BY <2>1, <2>2
<1>6. x2 = [x1 EXCEPT !.r = q2]
  BY <1>2 DEF Now
<1>7. Good(x2) /\ x2.of = ctxOf /\ x2.ctx = ctx /\ x2.r = q2 /\ \A a, b : Flow(Now, a, b) => Flow(x2, a, b)
  <2>1. CASE ~setinput
    <3>1. q2 = q1 /\ x2 = x1
      BY <1>2, <2>1
    <3>. QED  BY <1>5, <3>1
  <2>2. CASE setinput
    <3>1. Under(x1.r, q2)
      BY <1>2, <1>5, <2>2 DEF Under
    <3>2. Rewires(x1, q2, x2)
      BY <1>6 DEF Rewires
    <3>. HIDE <1>2, <1>6
    <3>3. x1 \in World
      BY <1>5 DEF Good
    <3>4. Lies(x1, x1.r.used + 1, q2)
      BY <3>1, <3>3, UnderIs
    <3>5. PICK f : Lies(x1, f, q2)
      BY <3>4
    <3>6. Good(x2) /\ x2.r = q2 /\ x2.ctx = x1.ctx /\ x2.of = x1.of /\ \A a, b : Flow(x1, a, b) => Flow(x2, a, b)
      BY <1>1, <1>5, <3>2, <3>5, UnderGood
    <3>. QED  BY <1>5, <3>6
  <2>. QED  BY <2>1, <2>2
<1>8. Inited(x2, y)
  <2>1. y = InitFilters(x2)
    BY <1>2
  <2>. HIDE <1>2, <1>6
  <2>. QED  BY <1>1, <1>3, <1>7, <2>1, InitAll
<1>. HIDE <1>2, <1>6
<1>9. /\ Good(y) /\ \A g \in Filters : Mild(ctx[g], y.ctx[g])
      /\ \A a, b : Flow(Now, a, b) => Flow(y, a, b)
  BY <1>7, <1>8 DEF Inited
<1>10. ASSUME NEW g \in Filters PROVE Moved(ctx[g], y.ctx[g])
  <2>1. PICK c \in Context, d \in Context : c = ctx[g] /\ d = y.ctx[g]
    BY <1>1, <1>4, <1>9, WorldType DEF Good
  <2>2. Moved(c, d)
    BY <1>1, <1>9, <2>1, MovesTrans
  <2>. QED  BY <2>1, <2>2
<1>11. Counters'
  BY <1>1, <1>3 DEF Counters
<1>12. CallOn(call', y)
  BY <1>3 DEF CallOn, Idle
<1>13. request' \in Request
  BY <1>1, <1>3 DEF Given
<1>. QED  BY <1>3, <1>9, <1>10, <1>11, <1>12, <1>13, MoveSteady

-----------------------------------------------------------------------------
(* The invariants.                                                         *)

\* The contexts before any filter is made.
LEMMA FirstContext ==
  ASSUME Given, NEW d, d = NewContext(NoLimit)
  PROVE  d \in Context /\ Sound(d) /\ d.status = APR_EINIT /\ d.body = <<>>
<1>1. NoLimit \in Nat
  BY Sizes
<1>2. /\ d.status = APR_EINIT /\ d.spool = NoBrigade /\ d.parser = None /\ d.hook_queue = <<>> /\ d.body = <<>>
      /\ d.filter_error = FALSE /\ d.bytes_read = 0 /\ d.shown = <<>>
  BY DEF NewContext
<1>3. NoBrigade \in Brigades
  BY DEF NoBrigade, Brigades
<1>4. d \in Context
  BY <1>1, <1>3 DEF Context, NewContext, Statuses
<1>5. Sound(d)
  BY <1>2 DEF Sound, Consecutive, APR_EINIT, APR_INCOMPLETE, INTERRUPT, APR_SUCCESS
<1>. QED  BY <1>2, <1>4, <1>5

\* The invariant holds in the beginning.
LEMMA InitHolds ==
  ASSUME Init
  PROVE  TypeOK /\ IInv
<1>1. /\ content \in Bodies /\ request \in Requests /\ phase = "hooks" /\ delivered = NoBrigade
      /\ call = Idle /\ found = None /\ redirects = 0 /\ sets = 0 /\ broken = FALSE
      /\ r = [chain |-> <<>>, proto |-> 0, f |-> None, used |-> 0] /\ ctxOf = [f \in Filters |-> 0]
      /\ ctx = [f \in Filters |-> NewContext(NoLimit)] /\ net = [i \in 1..Len(content) |-> i]
  BY DEF Init
<1>2. Given
  BY <1>1, Inputs DEF Given
<1>3. /\ r \in Chain /\ r.chain = <<>> /\ r.proto = 0 /\ r.f = None /\ r.used = 0
  BY <1>1 DEF Chain
<1>4. \A f \in Filters : ctxOf[f] = 0 /\ ctx[f] \in Context /\ Sound(ctx[f]) /\ ctx[f].status = APR_EINIT
  BY <1>1, <1>2, FirstContext
<1>5. ctxOf \in [Filters -> {0} \cup Filters] /\ ctx \in [Filters -> Context]
  <2>1. NewContext(NoLimit) \in Context
    BY <1>2, FirstContext
  <2>. QED  BY <1>1, <2>1
<1>6. Now \in World
  BY <1>3, <1>5 DEF Now, World
<1>7. PICK size \in Nat : size = Len(content)
  BY <1>2 DEF Given
<1>8. net \in Seq(Places) /\ Len(net) = size /\ net = Positions(0, size)
  <2>1. net = [i \in 1..size |-> i]
    BY <1>1, <1>7
  <2>2. net \in Seq(1..size) /\ Len(net) = size
    BY <2>1
  <2>3. net = Positions(0, size)
    BY <2>1 DEF Positions
  <2>. QED  BY <1>7, <2>2, <2>3 DEF Places
<1>9. delivered \in Brigades /\ delivered.data = <<>> /\ delivered.eos = FALSE
  BY <1>1 DEF NoBrigade, Brigades
<1>10. TypeOK
  <2>1. request \in Request /\ r.used <= MaxFilters /\ 0 \in 0..MaxRedirects /\ 0 \in 0..MaxSettings
    BY <1>1, <1>3, Inputs, Sizes
  <2>2. Idle \in [op : {"idle", "body", "first", "look", "scan", "leave"}, name : Names \cup {None}]
    BY DEF Idle
  <2>. QED  BY <1>1, <1>6, <1>8, <1>9, <2>1, <2>2 DEF TypeOK
<1>11. Chained(r)
  BY <1>3 DEF Chained
<1>12. Owned(Now) /\ Handled(Now) /\ Kept(Now)
  BY <1>3, <1>4, NowIs DEF Owned, Handled, Kept, HasContext
<1>13. CallInv
  BY <1>1 DEF CallInv, Idle
<1>14. StreamInv
  <2>1. PICK p \in [1..1 -> 0..size] : p[1] = 0
    <3>1. [t \in 1..1 |-> 0] \in [1..1 -> 0..size] /\ [t \in 1..1 |-> 0][1] = 0
      OBVIOUS
    <3>. QED  BY <3>1
  <2>2. Sights(Now) \in Seq(Sight) /\ Len(Sights(Now)) = 0
    BY <1>2, <1>3, <1>6, NowIs, SightsType
  <2>3. Above(p, 0, 0, 1) = 0
    BY <2>1 DEF Above
  <2>4. Cuts(Sights(Now), p, 0, 0, 0, 0, size, ~broken)
    BY <2>1, <2>2, <2>3 DEF Cuts
  <2>5. Len(Now.r.chain) + 1 = 1 /\ Len(delivered.data) = 0 /\ size - Len(net) = 0 /\ Len(net) <= size
    BY <1>3, <1>8, <1>9, NowIs
  <2>6. Flows(Now, Len(delivered.data), Len(content) - Len(net), 0, 0)
    BY <1>7, <2>1, <2>4, <2>5 DEF Flows
  <2>7. Positions(0, 0) = <<>>
    BY DEF Positions
  <2>8. delivered.data = Positions(0, Len(delivered.data))
    BY <1>9, <2>5, <2>7
  <2>9. net = Positions(Len(content) - Len(net), Len(net)) /\ Len(net) <= Len(content)
    BY <1>7, <1>8, <2>5
  <2>. QED  BY <1>9, <2>6, <2>8, <2>9 DEF StreamInv
<1>. QED  BY <1>4, <1>10, <1>11, <1>12, <1>13, <1>14 DEF IInv

\* Nothing happens.
LEMMA StutterSteady ==
  ASSUME TypeOK, IInv, UNCHANGED vars
  PROVE  Steady
<1>1. UNCHANGED <<r, ctxOf, ctx, rest, sets>> /\ call' = call /\ found' = found
  BY DEF vars, rest
<1>2. CallOn(call, Now) /\ found \in Param \cup {None}
  BY HoldsNow DEF Counters
<1>3. CallOn(call', Now) /\ found' \in Param \cup {None}
  BY <1>1, <1>2
<1>. QED  BY <1>1, <1>3, CallSteady

\* Every step keeps the invariant and moves each context as LazyBody and the limit allow.
LEMMA NextSteady ==
  ASSUME TypeOK, IInv, [Next]_vars
  PROVE  Steady
<1>1. CASE Call
  BY <1>1, HandleSteady, BodySteady, GetSteady DEF Call
<1>2. CASE Work
  BY <1>2, BodyLoopSteady, GetFirstSteady, GetLookSteady, GetScanSteady, GetLeaveSteady DEF Work
<1>3. CASE Configure
  BY <1>3, ParserSetSteady, SpoolSettingSteady, HookAddSteady, LimitSetSteady DEF Configure
<1>4. CASE Server
  BY <1>4, InvokeSteady, ReadSteady, RedirectSteady DEF Server
<1>5. CASE UNCHANGED vars
  BY <1>5, StutterSteady
<1>. QED  BY <1>1, <1>2, <1>3, <1>4, <1>5 DEF Next

(* The inductive invariant of the filter: the types, the chain and its     *)
(* contexts, the running call, and the stream cut into the spools, for any *)
(* number of filters, redirects and settings (filter.c, handle.c).         *)
THEOREM StateCorrect == Spec => [](TypeOK /\ IInv)
<1>1. Init => TypeOK /\ IInv
  BY InitHolds
<1>2. TypeOK /\ IInv /\ [Next]_vars => (TypeOK /\ IInv)'
  BY NextSteady DEF Steady
<1>. QED  BY <1>1, <1>2, PTL DEF Spec

\* Whatever the spools are cut into, they join what was read to what is to come.
LEMMA StateDownstream == TypeOK /\ IInv => DownstreamExact
<1>. SUFFICES ASSUME TypeOK, IInv, ~broken PROVE DownstreamExact
  BY DEF DownstreamExact
<1>1. Given /\ Good(Now) /\ Left(net) /\ Gave(delivered, broken) /\ Flow(Now, Len(delivered.data), Len(content) - Len(net))
  BY HoldsNow
<1>2. PICK a \in Nat, k \in Nat, size \in Nat, b \in Nat, v \in Seq(Sight) :
        /\ a = Len(delivered.data) /\ k = Len(net) /\ size = Len(content) /\ b = size - k /\ v = Sights(Now) /\ k <= size
  <2>1. Len(delivered.data) \in Nat
    BY <1>1 DEF Gave, Brigades
  <2>2. Len(net) \in Nat /\ Len(content) \in Nat /\ Len(net) <= Len(content)
    BY <1>1 DEF Left, Given
  <2>3. Sights(Now) \in Seq(Sight)
    BY <1>1, SightsType DEF Good
  <2>4. Len(content) - Len(net) \in Nat
    BY <2>2
  <2>. QED  BY <2>1, <2>2, <2>3, <2>4
<1>3. PICK p : Stream(v, p, size) /\ Cuts(v, p, a, b, 0, 0, size, TRUE)
  <2>1. (~broken) = TRUE
    OBVIOUS
  <2>. QED  BY <1>1, <1>2, <2>1 DEF Flow
<1>4. r \in Chain /\ Len(v) = Len(r.chain) /\ \A t \in 1..Len(r.chain) : v[t] = Seen(Now, r.chain[t])
  BY <1>1, <1>2, NowIs, SightsType, WorldType DEF Good
<1>5. PICK n \in Nat : n = Len(r.chain) /\ DOMAIN r.chain = 1..n
  BY <1>4, ChainType
<1>6. PICK s : s = [i \in DOMAIN r.chain |-> SpoolOf(r.chain[i])]
  OBVIOUS
<1>7. \A f : SpoolOf(f) = Seen(Now, f).data
  BY SeenIs DEF SpoolOf, SeenOf, Nothing
<1>8. ASSUME NEW t \in 1..n PROVE s[t] = v[t].data /\ s[t] \in Seq(Nat)
  <2>1. s[t] = v[t].data
    BY <1>4, <1>5, <1>6, <1>7
  <2>2. v[t] \in Sight
    BY <1>2, <1>4, <1>5
  <2>. QED  BY <2>1, <2>2 DEF Sight
<1>9. s \in Seq(Seq(Nat)) /\ Len(s) = n
  <2>1. s = [t \in 1..n |-> s[t]]
    <3>1. s = [t \in 1..n |-> SpoolOf(r.chain[t])]
      BY <1>5, <1>6
    <3>2. \A t \in 1..n : s[t] = SpoolOf(r.chain[t])
      BY <3>1
    <3>. HIDE <1>6
    <3>. QED  BY <3>1, <3>2, Zenon
  <2>2. \A t \in 1..n : s[t] \in Seq(Nat)
    BY <1>8
  <2>. HIDE <1>6
  <2>. QED  BY <2>1, <2>2, SMTT(20)
<1>10. a <= b /\ FlattenSeq(s) = Positions(a, b - a)
  <2>. HIDE <1>2, <1>6
  <2>1. Datas(v, s)
    BY <1>4, <1>5, <1>8, <1>9 DEF Datas
  <2>. QED  BY <1>3, <1>9, <2>1, CutsWhole
<1>11. delivered.data = Positions(0, a) /\ net = Positions(b, k) /\ (delivered.eos => Len(delivered.data) = Len(content))
  BY <1>1, <1>2 DEF Gave, Left
<1>12. Positions(0, a) \o Positions(a, b - a) \o Positions(b, k) = Positions(0, size)
  <2>. HIDE <1>2, <1>11
  <2>1. PICK c \in Nat : c = b - a /\ a + c = b
    BY <1>10
  <2>2. Positions(0, a) \o Positions(0 + a, c) = Positions(0, a + c)
    BY PositionsJoin
  <2>3. Positions(0, b) \o Positions(0 + b, k) = Positions(0, b + k)
    BY PositionsJoin
  <2>4. 0 + a = a /\ 0 + b = b
    OBVIOUS
  <2>5. b + k = size
    BY <1>2
  <2>. QED  BY <2>1, <2>2, <2>3, <2>4, <2>5
<1>13. delivered.data \o FlattenSeq(s) \o net = Positions(0, Len(content))
  BY <1>2, <1>10, <1>11, <1>12
<1>. QED  BY <1>6, <1>11, <1>13 DEF DownstreamExact

(* DownstreamExact: the content handlers read the client's body, in order, *)
(* once and to its end, whatever is parsed, prefetched, interrupted, taken *)
(* over or redirected (filter.c:284, 297-307, 361-371, 485-505).            *)
THEOREM DownstreamExactCorrect == Spec => []DownstreamExact
BY StateCorrect, StateDownstream, PTL

(* ParserContiguous: a parser is given consecutive blocks, up to the last  *)
(* of the body when it calls the body complete (filter.c:321, 400).        *)
THEOREM ParserContiguousCorrect == Spec => []ParserContiguous
<1>1. TypeOK /\ IInv => ParserContiguous
  <2>1. SUFFICES ASSUME TypeOK, IInv, NEW f \in Filters, NEW c, c = ctx[f], c.shown # <<>>
                 PROVE  /\ c.shown = Positions(c.shown[1] - 1, Len(c.shown))
                        /\ c.status = APR_SUCCESS => SawTheEnd(c.shown)
    BY DEF ParserContiguous, SawTheEnd
  <2>2. Sound(c)
    BY <2>1 DEF IInv
  <2>. QED  BY <2>1, <2>2 DEF Sound, Consecutive
<1>. QED  BY <1>1, StateCorrect, PTL

(* ReadLimitKept: no parser is shown more blocks than the read limit its   *)
(* context then has, whoever reads them (filter.c:312, 391).               *)
THEOREM ReadLimitKeptCorrect == Spec => ReadLimitKept
<1>1. TypeOK /\ IInv /\ [Next]_vars =>
        [\A f \in Filters : ctx'[f].shown # ctx[f].shown => Len(ctx'[f].shown) <= ctx'[f].read_limit]_vars
  BY NextSteady DEF Steady, Moved
<1>. QED  BY <1>1, StateCorrect, PTL DEF Spec, ReadLimitKept

(* KeepsPromise: every context keeps the promise of LazyBody, in whichever *)
(* filter it is, also across an interruption (filter.c:247, 487).          *)
THEOREM KeepsPromiseCorrect == Spec => KeepsPromise
<1>1. ASSUME Init PROVE \A f \in Filters : Lazily(f)!Init
  <2>1. Given
    BY <1>1, InitHolds, HoldsNow
  <2>2. ASSUME NEW f \in Filters PROVE View(f) = APR_EINIT /\ ctx[f].body = <<>>
    <3>1. ctx[f].status = APR_EINIT /\ ctx[f].body = <<>>
      BY <1>1, <2>1, FirstContext DEF Init
    <3>. QED  BY <3>1 DEF View, APR_EINIT, INTERRUPT
  <2>. QED  BY <2>2 DEF Lazily!Init, APR_EINIT
<1>2. ASSUME TypeOK, IInv, [Next]_vars
      PROVE  \A f \in Filters : Lazily(f)!Next \/ UNCHANGED <<View(f), ctx[f].body>>
  <2>1. ASSUME NEW f \in Filters, Lazy(ctx[f], ctx'[f])
        PROVE  Lazily(f)!Next \/ UNCHANGED <<View(f), ctx[f].body>>
    <3>1. View(f) = Shows(ctx[f]) /\ View(f)' = Shows(ctx'[f])
      BY DEF View, Shows
    <3>. QED  BY <2>1, <3>1 DEF Lazy, Lazily!Next, Lazily!Start, Lazily!Parse, Grows, Refusals, APR_EINIT, APR_INCOMPLETE
  <2>2. \A f \in Filters : Lazy(ctx[f], ctx'[f])
    BY <1>2, NextSteady DEF Steady, Moved
  <2>. QED  BY <2>1, <2>2
<1>. QED  BY <1>1, <1>2, StateCorrect, PTL DEF Spec, KeepsPromise
=============================================================================
