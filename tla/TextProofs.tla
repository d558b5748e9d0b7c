------------------------------ MODULE TextProofs ------------------------------
(***************************************************************************)
(* Texts that come back, for texts of any length: the encoders of          *)
(* core/http.cpp and their decoders, on top of them the forms of           *)
(* FormPages, for any number of fields, a file that is sent, and the way   *)
(* of a request to a reactor and its files.                                *)
(***************************************************************************)
EXTENDS RequestText, FormPages, SequenceTheorems, WellFoundedInduction, TLAPS

-----------------------------------------------------------------------------
(* Numbers, and folds as runs of their steps. *)

\* A set of numbers that has one has a least one.
LEMMA LeastNumber ==
  ASSUME NEW T \in SUBSET Nat, T # {}
  PROVE  \E x \in T : \A y \in T : x <= y
  <1>1. PICK R : R = OpToRel(<, Nat)
    OBVIOUS
  <1>2. IsWellFoundedOn(R, Nat)
    BY <1>1, NatLessThanWellFounded
  <1>3. PICK x \in T : \A y \in T : <<y, x>> \notin R
    BY <1>2, WFMin
  <1>4. \A y \in T : ~(y < x)
    BY <1>1, <1>3 DEF OpToRel
  <1>5. \A y \in T : x <= y
    BY <1>4
  <1>6. QED
    BY <1>5

\* One that is bounded has a greatest one.
LEMMA GreatestNumber ==
  ASSUME NEW bound \in Nat, NEW T \in SUBSET (0 .. bound), T # {}
  PROVE  \E x \in T : \A y \in T : y <= x
  <1>1. PICK D : D = {d \in Nat : bound - d \in T}
    OBVIOUS
  <1>2. \A y \in T : bound - y \in D
    <2>1. ASSUME NEW y \in T PROVE bound - y \in Nat /\ bound - (bound - y) = y
      OBVIOUS
    <2>2. QED
      BY <1>1, <2>1
  <1>3. D \in SUBSET Nat /\ D # {}
    BY <1>1, <1>2
  <1>4. PICK d \in D : \A e \in D : d <= e
    BY <1>3, LeastNumber
  <1>5. ASSUME NEW y \in T PROVE y <= bound - d
    <2>1. d <= bound - y
      BY <1>2, <1>4
    <2>2. d \in Nat /\ y \in Nat
      BY <1>1
    <2>3. QED
      BY <2>1, <2>2
  <1>6. QED
    BY <1>1, <1>4, <1>5

\* A set of numbers with zero and what follows each of its members has them all.
LEMMA AllNumbers ==
  ASSUME NEW T \in SUBSET Nat, 0 \in T, \A n \in T : n + 1 \in T
  PROVE  \A n \in Nat : n \in T
  <1>1. SUFFICES ASSUME Nat \ T # {} PROVE FALSE
    OBVIOUS
  <1>2. PICK n \in Nat \ T : \A m \in Nat \ T : n <= m
    BY <1>1, LeastNumber
  <1>3. n - 1 \in Nat
    BY <1>2
  <1>4. n - 1 \in T
    BY <1>2, <1>3
  <1>5. (n - 1) + 1 \in T
    BY <1>4
  <1>6. QED
    BY <1>2, <1>5

\* What is done again and again to something has a result after each time.
LEMMA Iterates ==
  ASSUME NEW S, NEW start \in S, NEW F \in [S -> S]
  PROVE  \E h \in [Nat -> S] : h[0] = start /\ \A n \in Nat : h[n + 1] = F[h[n]]
  <1> DEFINE Upto(g, n) == /\ g \in [0 .. n -> S] /\ g[0] = start
                           /\ \A i \in 0 .. n - 1 : g[i + 1] = F[g[i]]
             Some == {n \in Nat : \E g : Upto(g, n)}
  <1>1. 0 \in Some
    <2>1. Upto([i \in 0 .. 0 |-> start], 0)
      OBVIOUS
    <2>2. QED
      BY <2>1
  <1>2. ASSUME NEW n \in Some PROVE n + 1 \in Some
    <2>1. PICK g : Upto(g, n)
      OBVIOUS
    <2>2. n \in Nat
      OBVIOUS
    <2>3. PICK more : more = [i \in 0 .. n + 1 |-> IF i <= n THEN g[i] ELSE F[g[n]]]
      OBVIOUS
    <2>4. more \in [0 .. n + 1 -> S] /\ more[0] = start
      BY <2>1, <2>2, <2>3
    <2>5. ASSUME NEW i \in 0 .. (n + 1) - 1 PROVE more[i + 1] = F[more[i]]
      <3>1. CASE i + 1 <= n
        <4>1. i \in 0 .. n - 1 /\ i <= n
          BY <2>2, <3>1
        <4>2. QED
          BY <2>1, <2>2, <2>3, <3>1, <4>1
      <3>2. CASE ~(i + 1 <= n)
        <4>1. i = n
          BY <2>2, <3>2
        <4>2. QED
          BY <2>2, <2>3, <4>1
      <3>3. QED
        BY <3>1, <3>2
    <2>6. Upto(more, n + 1)
      BY <2>4, <2>5
    <2>7. QED
      BY <2>2, <2>6
  <1>3. \A n \in Nat : n \in Some
    <2> HIDE DEF Some
    <2>1. Some \in SUBSET Nat
      BY DEF Some
    <2>2. QED
      BY <1>1, <1>2, <2>1, AllNumbers
  <1>4. ASSUME NEW n \in Nat, NEW m \in Nat, NEW g, NEW other, Upto(g, n), Upto(other, m)
        PROVE  \A i \in Nat : i <= n /\ i <= m => g[i] = other[i]
    <2> DEFINE Same == {i \in Nat : i <= n /\ i <= m => g[i] = other[i]}
    <2>1. 0 \in Same
      BY <1>4
    <2>2. ASSUME NEW i \in Same PROVE i + 1 \in Same
      <3>1. SUFFICES ASSUME i + 1 <= n, i + 1 <= m PROVE g[i + 1] = other[i + 1]
        OBVIOUS
      <3>2. i \in 0 .. n - 1 /\ i \in 0 .. m - 1 /\ g[i] = other[i]
        BY <3>1
      <3>3. QED
        BY <1>4, <3>2
    <2>3. \A i \in Nat : i \in Same
      <3> HIDE DEF Same
      <3>1. Same \in SUBSET Nat
        BY DEF Same
      <3>2. QED
        BY <2>1, <2>2, <3>1, AllNumbers
    <2>4. QED
      BY <2>3
  <1>5. PICK G : G = [n \in Nat |-> CHOOSE g : Upto(g, n)]
    OBVIOUS
  <1>6. \A n \in Nat : Upto(G[n], n)
    BY <1>3, <1>5
  <1>7. PICK h : h = [n \in Nat |-> G[n][n]]
    OBVIOUS
  <1>8. ASSUME NEW n \in Nat PROVE h[n] \in S /\ h[n + 1] = F[h[n]]
    <2>1. h[n] = G[n][n] /\ h[n + 1] = G[n + 1][n + 1]
      BY <1>7
    <2>2. Upto(G[n], n) /\ Upto(G[n + 1], n + 1)
      BY <1>6
    <2>3. G[n][n] = G[n + 1][n]
      <3> HIDE DEF Upto
      <3>1. \A i \in Nat : i <= n /\ i <= n + 1 => G[n][i] = G[n + 1][i]
        BY <1>4, <2>2
      <3>2. QED
        BY <3>1
    <2>4. QED
      BY <2>1, <2>2, <2>3
  <1>9. h[0] = start
    BY <1>6, <1>7
  <1>10. QED
    BY <1>7, <1>8, <1>9

\* What Max picks.
LEMMA GreatestIs ==
  ASSUME NEW n \in Nat, NEW s \in SUBSET (1 .. n), s # {}
  PROVE  Max(s) \in s /\ \A x \in s : x <= Max(s)
  <1>1. s \in SUBSET (0 .. n)
    OBVIOUS
  <1>2. \E x \in s : \A y \in s : y <= x
    BY <1>1, GreatestNumber
  <1>3. \E x \in s : \A y \in s : x >= y
    BY <1>2
  <1>4. QED
    BY <1>3 DEF Max

\* g has a result for each of the sets of indexes that a fold, which takes the last element
\* first, passes.
IsFold(g, S, base, n, F) ==
  /\ g \in [SUBSET (1 .. n) -> S] /\ g[{}] = base
  /\ \A s \in SUBSET (1 .. n) : s # {} => g[s] = F[<<Max(s), g[s \ {Max(s)}]>>]

\* A fold over indexes does one step for each, the last one first.
LEMMA FoldIterates ==
  ASSUME NEW S, NEW base \in S, NEW n \in Nat, NEW F,
         \A i \in 1 .. n, x \in S : F[<<i, x>>] \in S
  PROVE  \E g : IsFold(g, S, base, n, F)
  <1> DEFINE D == SUBSET (1 .. n)
             Once(g) == [s \in D |-> IF s = {} THEN base ELSE F[<<Max(s), g[s \ {Max(s)}]>>]]
  <1>1. ASSUME NEW g \in [D -> S] PROVE Once(g) \in [D -> S]
    <2>1. ASSUME NEW s \in D, s # {} PROVE F[<<Max(s), g[s \ {Max(s)}]>>] \in S
      <3>1. Max(s) \in 1 .. n
        BY <2>1, GreatestIs
      <3>2. s \ {Max(s)} \in D
        OBVIOUS
      <3>3. g[s \ {Max(s)}] \in S
        BY <3>1, <3>2
      <3>4. QED
        BY <3>1, <3>3
    <2>2. QED
      BY <2>1
  <1>2. PICK Fns : Fns = [D -> S]
    OBVIOUS
  <1>3. PICK G : G = [g \in Fns |-> Once(g)]
    OBVIOUS
  <1>4. G \in [Fns -> Fns]
    BY <1>1, <1>2, <1>3
  <1>5. PICK start : start = [s \in D |-> base]
    OBVIOUS
  <1>6. PICK h : h \in [Nat -> Fns] /\ h[0] = start /\ \A m \in Nat : h[m + 1] = G[h[m]]
    <2>1. start \in Fns
      BY <1>2, <1>5
    <2>2. \E f \in [Nat -> Fns] : f[0] = start /\ \A m \in Nat : f[m + 1] = G[f[m]]
      BY <1>4, <2>1, Iterates, SMTT(30)
    <2>3. QED
      BY <2>2
  <1>7. ASSUME NEW m \in Nat, NEW s \in D
        PROVE  h[m + 1][s] = IF s = {} THEN base ELSE F[<<Max(s), h[m][s \ {Max(s)}]>>]
    <2>1. h[m + 1] = Once(h[m])
      BY <1>2, <1>3, <1>6
    <2>2. QED
      BY <2>1
  <1>8. ASSUME NEW m \in Nat PROVE h[m][{}] = base
    <2>1. {} \in D
      OBVIOUS
    <2>2. CASE m = 0
      BY <1>5, <1>6, <2>1, <2>2
    <2>3. CASE m # 0
      <3>1. m - 1 \in Nat /\ (m - 1) + 1 = m
        BY <2>3
      <3>2. QED
        BY <1>7, <2>1, <3>1
    <2>4. QED
      BY <2>2, <2>3
  <1> DEFINE Done == {k \in Nat : \A m \in Nat : k <= m =>
                        \A s \in SUBSET (1 .. k) : s \in D => h[m][s] = h[k][s]}
  <1>9. 0 \in Done
    <2>1. ASSUME NEW s \in SUBSET (1 .. 0) PROVE s = {}
      OBVIOUS
    <2>2. QED
      BY <1>8, <2>1
  <1>10. ASSUME NEW k \in Done PROVE k + 1 \in Done
    <2>1. k \in Nat
      OBVIOUS
    <2>2. SUFFICES ASSUME NEW m \in Nat, k + 1 <= m, NEW s \in SUBSET (1 .. k + 1), s \in D
                   PROVE  h[m][s] = h[k + 1][s]
      BY <2>1
    <2>3. CASE s = {}
      BY <1>8, <2>1, <2>3
    <2>4. CASE s # {}
      <3>1. m - 1 \in Nat /\ (m - 1) + 1 = m /\ k <= m - 1
        BY <2>1, <2>2
      <3>2. PICK less : less = s \ {Max(s)}
        OBVIOUS
      <3>3. less \in SUBSET (1 .. k) /\ less \in D
        <4>1. Max(s) \in s /\ \A x \in s : x <= Max(s)
          BY <2>2, <2>4, GreatestIs
        <4>2. ASSUME NEW x \in less PROVE x \in 1 .. k
          <5>1. x \in 1 .. k + 1 /\ Max(s) \in 1 .. k + 1 /\ x <= Max(s) /\ x # Max(s)
            BY <2>2, <3>2, <4>1
          <5>2. QED
            BY <2>1, <5>1
        <4>3. QED
          BY <2>2, <3>2, <4>2
      <3>4. h[m - 1][less] = h[k][less]
        BY <3>1, <3>3
      <3>5. h[m][s] = F[<<Max(s), h[m - 1][less]>>]
        <4>1. PICK p \in Nat : p = m - 1
          BY <3>1
        <4>2. h[p + 1][s] = F[<<Max(s), h[p][less]>>]
          BY <1>7, <2>2, <2>4, <3>2
        <4>3. p + 1 = m
          BY <4>1
        <4>4. QED
          BY <4>1, <4>2, <4>3
      <3>6. h[k + 1][s] = F[<<Max(s), h[k][less]>>]
        BY <1>7, <2>1, <2>2, <2>4, <3>2
      <3>7. QED
        BY <3>4, <3>5, <3>6
    <2>5. QED
      BY <2>3, <2>4
  <1>11. n \in Done
    <2> HIDE DEF Done
    <2>1. Done \in SUBSET Nat
      BY DEF Done
    <2>2. QED
      BY <1>9, <1>10, <2>1, AllNumbers
  <1>12. h[n + 1] = h[n]
    <2>1. h[n] \in [D -> S] /\ h[n + 1] \in [D -> S]
      <3>1. n \in Nat /\ n + 1 \in Nat
        OBVIOUS
      <3>2. QED
        BY <1>2, <1>6, <3>1
    <2>2. \A s \in D : h[n + 1][s] = h[n][s]
      BY <1>11
    <2>3. QED
      BY <2>1, <2>2
  <1>13. h[n] = Once(h[n])
    BY <1>2, <1>3, <1>6, <1>12
  <1>14. PICK g \in [D -> S] : g = Once(g)
    BY <1>2, <1>6, <1>13
  <1>15. g[{}] = base
    BY <1>14
  <1>16. ASSUME NEW s \in D, s # {} PROVE g[s] = F[<<Max(s), g[s \ {Max(s)}]>>]
    BY <1>14, <1>16
  <1>17. QED
    BY <1>15, <1>16 DEF IsFold

\* What is so of zero and with every number of the next is so of all up to a bound.
LEMMA UpTo ==
  ASSUME NEW n \in Nat, NEW T, 0 \in T, \A i \in 1 .. n : i - 1 \in T => i \in T
  PROVE  \A i \in 0 .. n : i \in T
  <1> DEFINE U == {k \in Nat : k <= n => k \in T}
  <1>1. 0 \in U
    OBVIOUS
  <1>2. ASSUME NEW k \in U PROVE k + 1 \in U
    <2>1. SUFFICES ASSUME k + 1 <= n PROVE k + 1 \in T
      OBVIOUS
    <2>2. k + 1 \in 1 .. n /\ (k + 1) - 1 = k /\ k \in T
      BY <2>1
    <2>3. QED
      BY <2>2
  <1>3. \A k \in Nat : k \in U
    <2> HIDE DEF U
    <2>1. U \in SUBSET Nat
      BY DEF U
    <2>2. QED
      BY <1>1, <1>2, <2>1, AllNumbers
  <1>4. QED
    BY <1>3

\* r has what a fold of n elements has come to after each of them.
IsRun(r, S, base, n, F) ==
  /\ r \in [0 .. n -> S] /\ r[0] = base
  /\ \A i \in 1 .. n : r[i] = F[<<i, r[i - 1]>>]

\* n elements bring a fold from base to end.
ComesTo(S, base, n, F, end) == \E r : IsRun(r, S, base, n, F) /\ r[n] = end

\* it has a fold's results for sets of indexes, of whatever type those are.
IsIter(it, base, n, F) ==
  /\ it[{}] = base
  /\ \A s \in SUBSET (1 .. n) : s # {} => it[s] = F[<<Max(s), it[s \ {Max(s)}]>>]

\* Whatever has a fold's results for sets of indexes has its results one after the other.
LEMMA FoldRuns ==
  ASSUME NEW S, NEW base \in S, NEW n \in Nat, NEW F,
         \A i \in 1 .. n, x \in S : F[<<i, x>>] \in S,
         NEW it, IsIter(it, base, n, F)
  PROVE  ComesTo(S, base, n, F, it[1 .. n])
  <1>1. PICK r : r = [i \in 0 .. n |-> it[1 .. i]]
    OBVIOUS
  <1>2. r[0] = base /\ r[n] = it[1 .. n]
    <2>1. 1 .. 0 = {}
      OBVIOUS
    <2>2. QED
      BY <1>1, <2>1 DEF IsIter
  <1>3. ASSUME NEW i \in 1 .. n PROVE r[i] = F[<<i, r[i - 1]>>]
    <2>1. i \in 1 .. i /\ 1 .. i \in SUBSET (1 .. n)
      <3>1. \A j \in 1 .. i : j \in 1 .. n
        OBVIOUS
      <3>2. QED
        BY <3>1
    <2>2. Max(1 .. i) = i
      <3>1. 1 .. i # {}
        BY <2>1
      <3>2. Max(1 .. i) \in 1 .. i /\ i <= Max(1 .. i)
        BY <2>1, <3>1, GreatestIs
      <3>3. QED
        BY <3>2
    <2>3. (1 .. i) \ {i} = 1 .. i - 1
      OBVIOUS
    <2>4. it[1 .. i] = F[<<Max(1 .. i), it[(1 .. i) \ {Max(1 .. i)}]>>]
      BY <2>1 DEF IsIter
    <2>5. it[1 .. i] = F[<<i, it[1 .. i - 1]>>]
      BY <2>2, <2>3, <2>4
    <2>6. r[i] = it[1 .. i] /\ r[i - 1] = it[1 .. i - 1]
      BY <1>1
    <2>7. QED
      BY <2>5, <2>6
  <1>4. \A i \in 0 .. n : r[i] \in S
    <2> DEFINE T == {i \in 0 .. n : r[i] \in S}
    <2>1. 0 \in T
      BY <1>2
    <2>2. ASSUME NEW i \in 1 .. n, i - 1 \in T PROVE i \in T
      <3>1. i \in 0 .. n /\ r[i - 1] \in S
        BY <2>2
      <3>2. QED
        BY <1>3, <3>1
    <2>3. \A i \in 0 .. n : i \in T
      <3> HIDE DEF T
      <3>1. QED
        BY <2>1, <2>2, UpTo
    <2>4. QED
      BY <2>3
  <1>5. QED
    BY <1>1, <1>2, <1>3, <1>4 DEF IsRun, ComesTo

\* Two runs over elements of which the one has all that the other has are the same so far.
LEMMA SameRun ==
  ASSUME NEW S, NEW base, NEW n \in Nat, NEW more \in Nat, n <= more, NEW F, NEW r, NEW q,
         IsRun(r, S, base, n, F), IsRun(q, S, base, more, F)
  PROVE  r[n] = q[n]
  <1> DEFINE T == {i \in 0 .. n : r[i] = q[i]}
  <1>1. 0 \in T
    BY DEF IsRun
  <1>2. ASSUME NEW i \in 1 .. n, i - 1 \in T PROVE i \in T
    <2>1. r[i - 1] = q[i - 1] /\ r[i - 1] \in S
      BY <1>2 DEF IsRun
    <2>2. i \in 1 .. more
      OBVIOUS
    <2>3. r[i] = F[<<i, r[i - 1]>>] /\ q[i] = F[<<i, q[i - 1]>>]
      BY <2>2 DEF IsRun
    <2>4. QED
      BY <2>1, <2>3
  <1>3. \A i \in 0 .. n : i \in T
    <2> HIDE DEF T
    <2>1. QED
      BY <1>1, <1>2, UpTo
  <1>4. QED
    BY <1>3

\* What n elements do to a base they do.
LEMMA RunExists ==
  ASSUME NEW S, NEW base \in S, NEW n \in Nat, NEW F,
         \A i \in 1 .. n, x \in S : F[<<i, x>>] \in S
  PROVE  \E r : IsRun(r, S, base, n, F)
  <1>1. PICK g : IsFold(g, S, base, n, F)
    BY FoldIterates
  <1>2. IsIter(g, base, n, F)
    BY <1>1 DEF IsFold, IsIter
  <1>3. ComesTo(S, base, n, F, g[1 .. n])
    BY <1>2, FoldRuns
  <1>4. QED
    BY <1>3 DEF ComesTo

-----------------------------------------------------------------------------
(* Texts put together from a text for each character. *)

\* Joined runs over the sequences, each put behind what there is.
LEMMA FlattenRuns ==
  ASSUME NEW A, NEW seqs \in Seq(Seq(A)), NEW n \in Nat, n = Len(seqs), NEW F,
         \A i \in 1 .. n, x \in Seq(A) : F[<<i, x>>] = x \o seqs[i]
  PROVE  ComesTo(Seq(A), <<>>, n, F, FlattenSeq(seqs))
  <1> DEFINE joined == CHOOSE f : f = [i \in 1 .. Len(seqs) |->
                         IF i = 1 THEN seqs[i] ELSE f[i - 1] \o seqs[i]]
  <1>1. <<>> \in Seq(A) /\ \A i \in 1 .. n : seqs[i] \in Seq(A)
    <2>1. <<>> \in Seq(A)
      OBVIOUS
    <2>2. QED
      BY <2>1
  <1>2. \A i \in 1 .. n, x \in Seq(A) : F[<<i, x>>] \in Seq(A)
    <2>1. ASSUME NEW i \in 1 .. n, NEW x \in Seq(A) PROVE x \o seqs[i] \in Seq(A)
      <3>1. seqs[i] \in Seq(A)
        BY <1>1
      <3>2. QED
        BY <3>1
    <2>2. QED
      BY <2>1
  <1>3. PICK r : IsRun(r, Seq(A), <<>>, n, F)
    <2>1. PICK S : S = Seq(A)
      OBVIOUS
    <2>2. PICK base \in S : base = <<>>
      BY <1>1, <2>1
    <2>3. \A i \in 1 .. n, x \in S : F[<<i, x>>] \in S
      BY <1>2, <2>1
    <2>4. \E f : IsRun(f, S, base, n, F)
      BY <2>3, RunExists
    <2>5. QED
      BY <2>1, <2>2, <2>4
  <1>4. CASE n = 0
    <2>1. FlattenSeq(seqs) = <<>>
      <3>1. seqs = <<>> /\ Len(seqs) = 0
        BY <1>4, EmptySeq
      <3>2. FlattenSeq(seqs) = seqs
        BY <3>1 DEF FlattenSeq
      <3>3. QED
        BY <3>1, <3>2
    <2>2. QED
      BY <1>3, <1>4, <2>1 DEF ComesTo, IsRun
  <1>5. CASE n # 0
    <2>1. PICK f : f = [i \in 1 .. n |-> r[i]]
      OBVIOUS
    <2>2. ASSUME NEW i \in 1 .. n PROVE f[i] = IF i = 1 THEN seqs[i] ELSE f[i - 1] \o seqs[i]
      <3>1. r[i - 1] \in Seq(A) /\ r[i] = r[i - 1] \o seqs[i] /\ r[0] = <<>>
        <4>1. i - 1 \in 0 .. n
          OBVIOUS
        <4>2. QED
          BY <1>3, <4>1 DEF IsRun
      <3>2. CASE i = 1
        <4>1. PICK p \in Seq(A) : p = seqs[i]
          BY <1>1
        <4>2. <<>> \o p = p
          BY <4>1
        <4>3. r[i] = p
          <5>1. i - 1 = 0
            BY <3>2
          <5>2. r[i] = <<>> \o seqs[i]
            BY <3>1, <5>1
          <5>3. QED
            BY <4>1, <4>2, <5>2
        <4>4. QED
          BY <2>1, <3>2, <4>1, <4>3
      <3>3. CASE i # 1
        <4>1. i - 1 \in 1 .. n
          BY <3>3
        <4>2. QED
          BY <2>1, <3>1, <3>3, <4>1
      <3>4. QED
        BY <3>2, <3>3
    <2>3. f = [i \in 1 .. Len(seqs) |-> IF i = 1 THEN seqs[i] ELSE f[i - 1] \o seqs[i]]
      BY <2>1, <2>2
    <2>4. joined = [i \in 1 .. Len(seqs) |->
                      IF i = 1 THEN seqs[i] ELSE joined[i - 1] \o seqs[i]]
      BY <2>3
    <2>5. FlattenSeq(seqs) = joined[n]
      BY <1>5 DEF FlattenSeq
    <2> HIDE DEF joined
    <2> DEFINE T == {0} \cup {i \in 1 .. n : joined[i] = r[i]}
    <2>6. 0 \in T
      OBVIOUS
    <2>7. ASSUME NEW i \in 1 .. n, i - 1 \in T PROVE i \in T
      <3>1. f[i] = r[i]
        BY <2>1
      <3>2. CASE i = 1
        BY <2>2, <2>4, <3>1, <3>2
      <3>3. CASE i # 1
        <4>1. i - 1 \in 1 .. n /\ joined[i - 1] = r[i - 1]
          BY <2>7, <3>3
        <4>2. f[i - 1] = r[i - 1]
          BY <2>1, <4>1
        <4>3. f[i] = f[i - 1] \o seqs[i] /\ joined[i] = joined[i - 1] \o seqs[i]
          BY <2>2, <2>4, <3>3
        <4>4. QED
          BY <3>1, <4>1, <4>2, <4>3
      <3>4. QED
        BY <3>2, <3>3
    <2>8. \A i \in 0 .. n : i \in T
      <3> HIDE DEF T
      <3>1. QED
        BY <2>6, <2>7, UpTo
    <2>9. joined[n] = r[n]
      BY <1>5, <2>8
    <2>10. QED
      BY <1>3, <2>5, <2>9 DEF ComesTo
  <1>6. QED
    BY <1>4, <1>5

\* FlattenSeq puts the last of its sequences behind what it makes of the others.
LEMMA FlattenAppend ==
  ASSUME NEW A, NEW seqs \in Seq(Seq(A)), NEW c \in Seq(A)
  PROVE  /\ FlattenSeq(seqs) \in Seq(A)
         /\ FlattenSeq(Append(seqs, c)) = FlattenSeq(seqs) \o c
  <1>1. PICK n \in Nat : n = Len(seqs)
    OBVIOUS
  <1>2. PICK B : B = Seq(A)
    OBVIOUS
  <1>3. Append(seqs, c) \in Seq(B)
    BY <1>2
  <1>4. PICK t \in Seq(B) : t = Append(seqs, c)
    BY <1>3
  <1>5. n + 1 = Len(t) /\ t[n + 1] = c /\ \A i \in 1 .. n : t[i] = seqs[i]
    BY <1>1, <1>2, <1>4
  <1>6. PICK m \in Nat : m = n + 1 /\ m = Len(t)
    BY <1>5
  <1>7. PICK F : F = [p \in (1 .. m) \X B |-> p[2] \o t[p[1]]]
    OBVIOUS
  <1>8. \A i \in 1 .. m, x \in B : F[<<i, x>>] = x \o t[i]
    BY <1>7
  <1>9. \A i \in 1 .. n, x \in B : F[<<i, x>>] = x \o seqs[i]
    <2>1. \A i \in 1 .. n : i \in 1 .. m
      BY <1>6
    <2>2. QED
      BY <1>5, <1>8, <2>1
  <1>10. PICK r : IsRun(r, B, <<>>, n, F) /\ FlattenSeq(seqs) = r[n]
    <2>1. ComesTo(Seq(A), <<>>, n, F, FlattenSeq(seqs))
      BY <1>1, <1>2, <1>9, FlattenRuns
    <2>2. QED
      BY <1>2, <2>1 DEF ComesTo
  <1>11. PICK q : IsRun(q, B, <<>>, m, F) /\ FlattenSeq(t) = q[m]
    <2>1. ComesTo(Seq(A), <<>>, m, F, FlattenSeq(t))
      BY <1>2, <1>6, <1>8, FlattenRuns
    <2>2. QED
      BY <1>2, <2>1 DEF ComesTo
  <1>12. r[n] = q[n]
    BY <1>6, <1>10, <1>11, SameRun
  <1>13. r[n] \in B /\ q[m - 1] \in B /\ q[m] = F[<<m, q[m - 1]>>]
    BY <1>6, <1>10, <1>11 DEF IsRun
  <1>14. m \in 1 .. m /\ m - 1 = n /\ t[m] = c
    BY <1>5, <1>6
  <1>15. q[m] = q[n] \o c
    BY <1>8, <1>13, <1>14
  <1>16. QED
    BY <1>2, <1>4, <1>10, <1>11, <1>12, <1>13, <1>15

\* Nothing put together is nothing.
LEMMA FlattenNone == FlattenSeq(<<>>) = <<>>
  BY DEF FlattenSeq

\* A text with something in the place of each of its elements.
Coded(G, t) == FlattenSeq([i \in DOMAIN t |-> G[t[i]]])

IsCode(G, C, A) == \A c \in C : G[c] \in Seq(A)

\* A coding goes on with the code of each new character.
LEMMA CodedAppend ==
  ASSUME NEW C, NEW A, NEW G, IsCode(G, C, A), NEW t \in Seq(C), NEW c \in C
  PROVE  /\ Coded(G, t) \in Seq(A) /\ Coded(G, <<>>) = <<>>
         /\ Coded(G, Append(t, c)) = Coded(G, t) \o G[c]
  <1>1. PICK B : B = Seq(A)
    OBVIOUS
  <1>2. PICK u : u = [i \in DOMAIN t |-> G[t[i]]]
    OBVIOUS
  <1>3. u \in Seq(B) /\ Len(u) = Len(t)
    <2>1. \A i \in 1 .. Len(t) : G[t[i]] \in B
      BY <1>1 DEF IsCode
    <2>2. QED
      BY <1>2, <2>1
  <1>4. PICK d \in B : d = G[c]
    BY <1>1 DEF IsCode
  <1>5. PICK v : v = [i \in DOMAIN Append(t, c) |-> G[Append(t, c)[i]]]
    OBVIOUS
  <1>6. v = Append(u, d)
    <2>1. Append(t, c) \in Seq(C) /\ Len(Append(t, c)) = Len(t) + 1
      OBVIOUS
    <2>2. DOMAIN Append(t, c) = 1 .. Len(t) + 1
      BY <2>1
    <2>3. Append(u, d) \in Seq(B) /\ Len(Append(u, d)) = Len(t) + 1
      BY <1>3
    <2>4. DOMAIN Append(u, d) = 1 .. Len(t) + 1
      BY <2>3
    <2>5. ASSUME NEW i \in 1 .. Len(t) + 1 PROVE v[i] = Append(u, d)[i]
      <3>1. CASE i = Len(t) + 1
        <4>1. Append(t, c)[i] = c /\ Append(u, d)[i] = d
          BY <1>3, <3>1
        <4>2. QED
          BY <1>4, <1>5, <2>2, <4>1
      <3>2. CASE i # Len(t) + 1
        <4>1. i \in 1 .. Len(t)
          BY <3>2
        <4>2. Append(t, c)[i] = t[i] /\ Append(u, d)[i] = u[i]
          BY <1>3, <4>1
        <4>3. QED
          BY <1>2, <1>5, <2>2, <4>1, <4>2
      <3>3. QED
        BY <3>1, <3>2
    <2>6. v = [i \in 1 .. Len(t) + 1 |-> v[i]]
      BY <1>5, <2>2
    <2>7. Append(u, d) = [i \in 1 .. Len(t) + 1 |-> Append(u, d)[i]]
      <3>1. PICK w \in Seq(B) : w = Append(u, d) /\ Len(w) = Len(t) + 1
        BY <2>3
      <3>2. w = [i \in 1 .. Len(t) + 1 |-> w[i]]
        BY <3>1, LenProperties
      <3>3. QED
        BY <3>1, <3>2
    <2>8. QED
      BY <2>5, <2>6, <2>7
  <1>7. FlattenSeq(u) \in B /\ FlattenSeq(Append(u, d)) = FlattenSeq(u) \o d
    <2>1. u \in Seq(Seq(A)) /\ d \in Seq(A)
      BY <1>1, <1>3
    <2>2. QED
      BY <1>1, <2>1, FlattenAppend
  <1>8. Coded(G, <<>>) = <<>>
    <2>1. [i \in DOMAIN <<>> |-> G[<<>>[i]]] = <<>>
      OBVIOUS
    <2>2. QED
      BY <2>1, FlattenNone DEF Coded
  <1>9. QED
    BY <1>1, <1>2, <1>4, <1>5, <1>6, <1>7, <1>8 DEF Coded

\* What holds of the empty text and of a text with what follows it holds of all.
LEMMA AllTexts ==
  ASSUME NEW C, NEW T, <<>> \in T, \A t \in Seq(C), c \in C : t \in T => Append(t, c) \in T
  PROVE  \A t \in Seq(C) : t \in T
  <1> DEFINE U == {n \in Nat : \A t \in Seq(C) : Len(t) = n => t \in T}
  <1>1. 0 \in U
    BY EmptySeq
  <1>2. ASSUME NEW n \in U PROVE n + 1 \in U
    <2>1. SUFFICES ASSUME NEW t \in Seq(C), Len(t) = n + 1 PROVE t \in T
      OBVIOUS
    <2>2. PICK f : f = SubSeq(t, 1, n)
      OBVIOUS
    <2>3. f \in Seq(C) /\ Len(f) = n
      BY <2>1, <2>2
    <2>4. t[n + 1] \in C
      BY <2>1
    <2>5. t = Append(f, t[n + 1])
      BY <2>1, <2>2, <2>3
    <2>6. QED
      BY <2>3, <2>4, <2>5
  <1>3. \A n \in Nat : n \in U
    <2> HIDE DEF U
    <2>1. U \in SUBSET Nat
      BY DEF U
    <2>2. QED
      BY <1>1, <1>2, <2>1, AllNumbers
  <1>4. QED
    BY <1>3

-----------------------------------------------------------------------------
(* html_quote_encode and html_quote_decode. *)

\* Texts of a few characters, one character at a time.
LEMMA Text2 ==
  ASSUME NEW a \in Nat, NEW b \in Nat
  PROVE  <<a, b>> \in Seq(Nat) /\ Append(<<a>>, b) = <<a, b>>
  <1>1. <<a>> \in Seq(Nat) /\ <<a, b>> \in Seq(Nat) /\ Len(<<a>>) = 1
        /\ Len(<<a, b>>) = 2
    OBVIOUS
  <1>2. Append(<<a>>, b) \in Seq(Nat) /\ Len(Append(<<a>>, b)) = 2
    BY <1>1
  <1>3. \A i \in 1 .. 2 : Append(<<a>>, b)[i] = <<a, b>>[i]
    BY <1>1
  <1>4. QED
    BY <1>1, <1>2, <1>3, SeqEqual

\* The same of three, four and five.
LEMMA Text3 ==
  ASSUME NEW a \in Nat, NEW b \in Nat, NEW c \in Nat
  PROVE  <<a, b, c>> \in Seq(Nat) /\ Append(<<a, b>>, c) = <<a, b, c>>
  <1>1. <<a, b>> \in Seq(Nat) /\ <<a, b, c>> \in Seq(Nat) /\ Len(<<a, b>>) = 2
        /\ Len(<<a, b, c>>) = 3
    OBVIOUS
  <1>2. Append(<<a, b>>, c) \in Seq(Nat) /\ Len(Append(<<a, b>>, c)) = 3
    BY <1>1
  <1>3. \A i \in 1 .. 3 : Append(<<a, b>>, c)[i] = <<a, b, c>>[i]
    BY <1>1
  <1>4. QED
    BY <1>1, <1>2, <1>3, SeqEqual

\* Four characters, and five.
LEMMA Text4 ==
  ASSUME NEW a \in Nat, NEW b \in Nat, NEW c \in Nat, NEW d \in Nat
  PROVE  <<a, b, c, d>> \in Seq(Nat) /\ Append(<<a, b, c>>, d) = <<a, b, c, d>>
  <1>1. <<a, b, c>> \in Seq(Nat) /\ <<a, b, c, d>> \in Seq(Nat) /\ Len(<<a, b, c>>) = 3
        /\ Len(<<a, b, c, d>>) = 4
    OBVIOUS
  <1>2. Append(<<a, b, c>>, d) \in Seq(Nat) /\ Len(Append(<<a, b, c>>, d)) = 4
    BY <1>1
  <1>3. \A i \in 1 .. 4 : Append(<<a, b, c>>, d)[i] = <<a, b, c, d>>[i]
    BY <1>1
  <1>4. QED
    BY <1>1, <1>2, <1>3, SeqEqual

LEMMA Text5 ==
  ASSUME NEW a \in Nat, NEW b \in Nat, NEW c \in Nat, NEW d \in Nat, NEW e \in Nat
  PROVE  <<a, b, c, d, e>> \in Seq(Nat) /\ Append(<<a, b, c, d>>, e) = <<a, b, c, d, e>>
  <1>1. <<a, b, c, d>> \in Seq(Nat) /\ <<a, b, c, d, e>> \in Seq(Nat) /\ Len(<<a, b, c, d>>) = 4
        /\ Len(<<a, b, c, d, e>>) = 5
    OBVIOUS
  <1>2. Append(<<a, b, c, d>>, e) \in Seq(Nat) /\ Len(Append(<<a, b, c, d>>, e)) = 5
    BY <1>1
  <1>3. \A i \in 1 .. 5 : Append(<<a, b, c, d>>, e)[i] = <<a, b, c, d, e>>[i]
    BY <1>1
  <1>4. QED
    BY <1>1, <1>2, <1>3, SeqEqual

\* One character of a quoted text, as html_quote_decode takes it.
QuoteStep(st, c) ==
  LET buf == Append(st.buf, c)
      are == {q \in {Quote, Amp, Less, Greater} : Entity(q) = buf} IN
  CASE c = Amp -> [st EXCEPT !.buf = buf]
    [] c = Semicolon -> [out |-> st.out \o (IF are = {} THEN buf
                                            ELSE <<CHOOSE q \in are : TRUE>>),
                         buf |-> <<>>]
    [] OTHER -> IF st.buf # <<>> THEN [st EXCEPT !.buf = buf]
                ELSE [st EXCEPT !.out = Append(@, c)]

QuoteStates == [out : Seq(Nat), buf : Seq(Nat)]

\* The decoder's state stays one.
LEMMA QuoteStepped ==
  ASSUME NEW st \in QuoteStates, NEW c \in Nat
  PROVE  QuoteStep(st, c) \in QuoteStates
  <1> USE DEF QuoteStates
  <1>0. Append(st.buf, c) \in Seq(Nat) /\ Append(st.out, c) \in Seq(Nat)
    OBVIOUS
  <1>1. PICK buf \in Seq(Nat) : buf = Append(st.buf, c)
    BY <1>0
  <1>2. PICK are : are = {q \in {Quote, Amp, Less, Greater} : Entity(q) = buf}
    OBVIOUS
  <1>3. are \in SUBSET Nat
    BY <1>2 DEF Quote, Amp, Less, Greater
  <1>4. (IF are = {} THEN buf ELSE <<CHOOSE q \in are : TRUE>>) \in Seq(Nat)
    <2>1. CASE are = {}
      BY <2>1
    <2>2. CASE are # {}
      <3>1. PICK x : x = CHOOSE q \in are : TRUE
        OBVIOUS
      <3>2. x \in are
        BY <2>2, <3>1
      <3>3. x \in Nat
        BY <1>3, <3>2
      <3>4. QED
        BY <2>2, <3>1, <3>3
    <2>3. QED
      BY <2>1, <2>2
  <1>5. PICK more \in Seq(Nat) : more = IF are = {} THEN buf ELSE <<CHOOSE q \in are : TRUE>>
    BY <1>4
  <1>6. <<>> \in Seq(Nat) /\ st.out \o more \in Seq(Nat) /\ Append(st.out, c) \in Seq(Nat)
    OBVIOUS
  <1>7. QuoteStep(st, c) = CASE c = Amp -> [st EXCEPT !.buf = buf]
    [] c = Semicolon -> [out |-> st.out \o more, buf |-> <<>>]
    [] OTHER -> IF st.buf # <<>> THEN [st EXCEPT !.buf = buf]
                ELSE [st EXCEPT !.out = Append(@, c)]
    BY <1>1, <1>2, <1>5 DEF QuoteStep
  <1>8. /\ [st EXCEPT !.buf = buf] \in QuoteStates
        /\ [out |-> st.out \o more, buf |-> <<>>] \in QuoteStates
    BY <1>6
  <1>9. [st EXCEPT !.out = Append(@, c)] \in QuoteStates
    BY <1>0
  <1>10. QED
    BY <1>7, <1>8, <1>9 DEF Semicolon, Amp

\* A fold of QuoteStep passes from one character to the next.
LEMMA QuoteFold ==
  ASSUME NEW base \in QuoteStates, NEW s \in Seq(Nat), NEW n \in Nat, n = Len(s), NEW H,
         \A i \in 1 .. n, x \in QuoteStates : H[<<i, x>>] = QuoteStep(x, s[i])
  PROVE  ComesTo(QuoteStates, base, n, H, FoldLeft(QuoteStep, base, s))
  <1> DEFINE it == CHOOSE g : g = [d \in SUBSET (DOMAIN s) |->
                     IF d = {} THEN base ELSE QuoteStep(g[d \ {Max(d)}], s[Max(d)])]
  <1>1. DOMAIN s = 1 .. n /\ \A i \in 1 .. n : s[i] \in Nat
    OBVIOUS
  <1>2. FoldLeft(QuoteStep, base, s) = it[DOMAIN s]
    BY DEF FoldLeft, MapThenFoldSet
  <1>3. PICK S : S = QuoteStates
    OBVIOUS
  <1>3a. PICK F : F = [p \in (1 .. n) \X S |-> QuoteStep(p[2], s[p[1]])]
    OBVIOUS
  <1>4. \A i \in 1 .. n, x \in S : F[<<i, x>>] = QuoteStep(x, s[i]) /\ F[<<i, x>>] \in S
    <2>1. ASSUME NEW i \in 1 .. n, NEW x \in S PROVE QuoteStep(x, s[i]) \in S
      BY <1>1, <1>3, QuoteStepped
    <2>2. QED
      BY <1>3a, <2>1
  <1>5. PICK g : IsFold(g, S, base, n, F)
    BY <1>3, <1>4, FoldIterates
  <1>6. g = [d \in SUBSET (DOMAIN s) |->
               IF d = {} THEN base ELSE QuoteStep(g[d \ {Max(d)}], s[Max(d)])]
    <2>1. ASSUME NEW d \in SUBSET (1 .. n), d # {}
          PROVE  g[d] = QuoteStep(g[d \ {Max(d)}], s[Max(d)])
      <3>1. Max(d) \in 1 .. n
        BY <2>1, GreatestIs
      <3>2. g[d \ {Max(d)}] \in S
        BY <1>5 DEF IsFold
      <3>3. g[d] = F[<<Max(d), g[d \ {Max(d)}]>>]
        BY <1>5, <2>1 DEF IsFold
      <3>4. QED
        BY <1>4, <3>1, <3>2, <3>3
    <2>2. g = [d \in SUBSET (1 .. n) |-> g[d]] /\ g[{}] = base
      BY <1>5 DEF IsFold
    <2>3. QED
      BY <1>1, <2>1, <2>2
  <1>7. it = [d \in SUBSET (DOMAIN s) |->
                IF d = {} THEN base ELSE QuoteStep(it[d \ {Max(d)}], s[Max(d)])]
    BY <1>6
  <1> HIDE DEF it
  <1>8. PICK T : T = S \cup {it[d] : d \in SUBSET (1 .. n)}
    OBVIOUS
  <1>9. PICK G : G = [p \in (1 .. n) \X T |-> QuoteStep(p[2], s[p[1]])]
    OBVIOUS
  <1>10. ASSUME NEW i \in 1 .. n, NEW x \in S
         PROVE  G[<<i, x>>] = QuoteStep(x, s[i]) /\ G[<<i, x>>] \in S
    BY <1>4, <1>8, <1>9
  <1>11. it[{}] = base
    BY <1>7
  <1>12. ASSUME NEW d \in SUBSET (1 .. n), d # {}
         PROVE  it[d] = G[<<Max(d), it[d \ {Max(d)}]>>]
    <2>1. Max(d) \in 1 .. n
      BY <1>12, GreatestIs
    <2>2. it[d \ {Max(d)}] \in T
      BY <1>8
    <2>3. it[d] = QuoteStep(it[d \ {Max(d)}], s[Max(d)])
      BY <1>1, <1>7, <1>12
    <2>4. QED
      BY <1>9, <2>1, <2>2, <2>3
  <1>13. PICK r : IsRun(r, S, base, n, G) /\ r[n] = it[1 .. n]
    <2>1. base \in S /\ \A i \in 1 .. n, x \in S : G[<<i, x>>] \in S
      BY <1>3, <1>10
    <2>2. IsIter(it, base, n, G)
      BY <1>11, <1>12 DEF IsIter
    <2>3. ComesTo(S, base, n, G, it[1 .. n])
      BY <2>1, <2>2, FoldRuns
    <2>4. QED
      BY <2>3 DEF ComesTo
  <1>14. IsRun(r, QuoteStates, base, n, H)
    <2>1. ASSUME NEW i \in 1 .. n PROVE r[i] = H[<<i, r[i - 1]>>]
      <3>0. i - 1 \in 0 .. n
        OBVIOUS
      <3>1. r[i - 1] \in S /\ r[i] = G[<<i, r[i - 1]>>]
        BY <1>13, <3>0 DEF IsRun
      <3>2. QED
        BY <1>3, <1>10, <3>1
    <2>2. QED
      BY <1>3, <1>13, <2>1 DEF IsRun
  <1>15. QED
    BY <1>1, <1>2, <1>13, <1>14 DEF ComesTo

\* The decoder has read nothing, or one character more.
LEMMA QuoteFoldEmpty ==
  ASSUME NEW base \in QuoteStates
  PROVE  FoldLeft(QuoteStep, base, <<>>) = base
  <1>0. <<>> \in Seq(Nat)
    OBVIOUS
  <1>1. PICK s \in Seq(Nat) : s = <<>>
    BY <1>0
  <1>2. PICK n \in Nat : n = Len(s) /\ n = 0
    BY <1>1
  <1>3. PICK F : F = <<>>
    OBVIOUS
  <1>4. \A i \in 1 .. n, x \in QuoteStates : F[<<i, x>>] = QuoteStep(x, s[i])
    BY <1>2
  <1>5. PICK r : IsRun(r, QuoteStates, base, n, F) /\ FoldLeft(QuoteStep, base, s) = r[n]
    <2>1. ComesTo(QuoteStates, base, n, F, FoldLeft(QuoteStep, base, s))
      BY <1>2, <1>4, QuoteFold
    <2>2. QED
      BY <2>1 DEF ComesTo
  <1>6. QED
    BY <1>1, <1>2, <1>5 DEF IsRun

\* One character more is one step more.
LEMMA QuoteFoldAppend ==
  ASSUME NEW base \in QuoteStates, NEW s \in Seq(Nat), NEW c \in Nat
  PROVE  /\ FoldLeft(QuoteStep, base, s) \in QuoteStates
         /\ FoldLeft(QuoteStep, base, Append(s, c)) = QuoteStep(FoldLeft(QuoteStep, base, s), c)
  <1>1. PICK n \in Nat : n = Len(s)
    OBVIOUS
  <1>0. Append(s, c) \in Seq(Nat)
    OBVIOUS
  <1>2. PICK t \in Seq(Nat) : t = Append(s, c)
    BY <1>0
  <1>3. n + 1 = Len(t) /\ t[n + 1] = c /\ \A i \in 1 .. n : t[i] = s[i]
    BY <1>1, <1>2
  <1>4. PICK m \in Nat : m = n + 1 /\ m = Len(t)
    BY <1>3
  <1>5. PICK F : F = [p \in (1 .. m) \X QuoteStates |-> QuoteStep(p[2], t[p[1]])]
    OBVIOUS
  <1>6. \A i \in 1 .. m, x \in QuoteStates : F[<<i, x>>] = QuoteStep(x, t[i])
    BY <1>5
  <1>7. \A i \in 1 .. n, x \in QuoteStates : F[<<i, x>>] = QuoteStep(x, s[i])
    <2>1. \A i \in 1 .. n : i \in 1 .. m
      BY <1>4
    <2>2. QED
      BY <1>3, <1>6, <2>1
  <1>8. PICK r : IsRun(r, QuoteStates, base, n, F) /\ FoldLeft(QuoteStep, base, s) = r[n]
    <2>1. ComesTo(QuoteStates, base, n, F, FoldLeft(QuoteStep, base, s))
      BY <1>1, <1>7, QuoteFold
    <2>2. QED
      BY <2>1 DEF ComesTo
  <1>9. PICK q : IsRun(q, QuoteStates, base, m, F) /\ FoldLeft(QuoteStep, base, t) = q[m]
    <2>1. ComesTo(QuoteStates, base, m, F, FoldLeft(QuoteStep, base, t))
      BY <1>4, <1>6, QuoteFold
    <2>2. QED
      BY <2>1 DEF ComesTo
  <1>10. r[n] = q[n]
    BY <1>4, <1>8, <1>9, SameRun
  <1>11. r[n] \in QuoteStates /\ q[m - 1] \in QuoteStates /\ q[m] = F[<<m, q[m - 1]>>]
    BY <1>4, <1>8, <1>9 DEF IsRun
  <1>12. m \in 1 .. m /\ m - 1 = n /\ t[m] = c
    BY <1>3, <1>4
  <1>13. q[m] = QuoteStep(q[n], c)
    BY <1>6, <1>11, <1>12
  <1>14. QED
    BY <1>2, <1>8, <1>9, <1>10, <1>11, <1>13

Unquoted(s) == FoldLeft(QuoteStep, [out |-> <<>>, buf |-> <<>>], s)

\* QuoteDecode is that fold.
LEMMA QuoteFolded ==
  ASSUME NEW s
  PROVE  QuoteDecode(s) = Unquoted(s).out \o Unquoted(s).buf
  BY DEF QuoteDecode, Unquoted, QuoteStep, FoldLeft, MapThenFoldSet

\* What is left of the reading of a text after whole entities: nothing.
Open(out) == [out |-> out, buf |-> <<>>]

\* One character more.
LEMMA UnquotedOn ==
  ASSUME NEW s \in Seq(Nat), NEW c \in Nat
  PROVE  /\ Unquoted(s) \in QuoteStates
         /\ Unquoted(<<>>) = Open(<<>>)
         /\ Unquoted(Append(s, c)) = QuoteStep(Unquoted(s), c)
  <1>1. PICK base \in QuoteStates : base = [out |-> <<>>, buf |-> <<>>]
    <2>1. <<>> \in Seq(Nat)
      OBVIOUS
    <2>2. QED
      BY <2>1 DEF QuoteStates
  <1>2. FoldLeft(QuoteStep, base, s) \in QuoteStates
        /\ FoldLeft(QuoteStep, base, Append(s, c)) = QuoteStep(FoldLeft(QuoteStep, base, s), c)
    BY QuoteFoldAppend
  <1>3. FoldLeft(QuoteStep, base, <<>>) = base
    BY QuoteFoldEmpty
  <1>4. QED
    BY <1>1, <1>2, <1>3 DEF Unquoted, Open

\* A character outside an entity is written.
LEMMA PlainStep ==
  ASSUME NEW st, NEW c, c # Semicolon
  PROVE  /\ c = Amp \/ st.buf # <<>> => QuoteStep(st, c) = [st EXCEPT !.buf = Append(st.buf, c)]
         /\ c # Amp /\ st.buf = <<>> => QuoteStep(st, c) = [st EXCEPT !.out = Append(st.out, c)]
  <1>1. PICK buf : buf = Append(st.buf, c)
    OBVIOUS
  <1>2. PICK l : l = [out |-> st.out \o (IF {q \in {Quote, Amp, Less, Greater} : Entity(q) = buf} = {} THEN buf
                         ELSE <<CHOOSE q \in {q \in {Quote, Amp, Less, Greater} : Entity(q) = buf} : TRUE>>),
                      buf |-> <<>>]
    OBVIOUS
  <1>3. QuoteStep(st, c) =
          CASE c = Amp -> [st EXCEPT !.buf = buf]
            [] c = Semicolon -> l
            [] OTHER -> IF st.buf # <<>> THEN [st EXCEPT !.buf = buf]
                        ELSE [st EXCEPT !.out = Append(@, c)]
    BY <1>1, <1>2, Zenon DEF QuoteStep
  <1>4. QED
    BY <1>1, <1>3

\* After s, of which out was read, the part e of an entity is in the buffer.
Held(s, out, e) ==
  e \in Seq(Nat) /\ e # <<>> /\ Unquoted(s \o e) = [out |-> out, buf |-> e]

\* A '&' begins to hold what may be an entity.
LEMMA EntityBegins ==
  ASSUME NEW s \in Seq(Nat), NEW out \in Seq(Nat), Unquoted(s) = Open(out)
  PROVE  Held(s, out, <<Amp>>)
  <1>1. PICK a \in Nat : a = Amp
    BY DEF Amp
  <1>2. <<a>> \in Seq(Nat) /\ <<a>> # <<>> /\ Append(<<>>, a) = <<a>> /\ s \o <<a>> = Append(s, a)
    OBVIOUS
  <1>3. PICK st : st = Open(out)
    OBVIOUS
  <1>4. st.buf = <<>> /\ st.out = out /\ [st EXCEPT !.buf = <<a>>] = [out |-> out, buf |-> <<a>>]
    BY <1>3 DEF Open
  <1>5. QuoteStep(st, a) = [st EXCEPT !.buf = Append(st.buf, a)]
    BY <1>1, PlainStep DEF Amp, Semicolon
  <1>6. Unquoted(Append(s, a)) = QuoteStep(st, a)
    BY <1>3, UnquotedOn
  <1>7. QED
    BY <1>1, <1>2, <1>4, <1>5, <1>6 DEF Held

\* What follows it is held, too.
LEMMA EntityPart ==
  ASSUME NEW s \in Seq(Nat), NEW out \in Seq(Nat), NEW e, Held(s, out, e),
         NEW d \in Nat, d # Amp, d # Semicolon
  PROVE  Held(s, out, Append(e, d))
  <1>1. e \in Seq(Nat) /\ e # <<>>
    BY DEF Held
  <1>2. PICK m \in Seq(Nat) : m = e
    BY <1>1
  <1>3. s \o m \in Seq(Nat) /\ s \o Append(m, d) = Append(s \o m, d)
    BY SMTT(30)
  <1>4. PICK u \in Seq(Nat) : u = s \o m
    BY <1>3
  <1>5. Append(m, d) \in Seq(Nat) /\ Append(m, d) # <<>>
    <2>1. PICK S : S = Nat
      OBVIOUS
    <2>2. m \in Seq(S) /\ d \in S
      BY <2>1
    <2>3. Append(m, d) # <<>>
      BY <2>2, AppendProperties
    <2>4. QED
      BY <2>3
  <1>6. PICK st : st = Unquoted(u)
    OBVIOUS
  <1>7. st = [out |-> out, buf |-> m]
    BY <1>2, <1>4, <1>6 DEF Held
  <1>8. QuoteStep(st, d) = [st EXCEPT !.buf = Append(st.buf, d)]
    <2>1. st.buf # <<>>
      BY <1>1, <1>2, <1>7
    <2>2. QED
      BY <2>1, PlainStep
  <1>9. Unquoted(Append(u, d)) = QuoteStep(st, d)
    BY <1>6, UnquotedOn
  <1>10. [st EXCEPT !.buf = Append(st.buf, d)] = [out |-> out, buf |-> Append(m, d)]
    <2>1. st.buf = m
      BY <1>7
    <2>2. PICK l : l = Append(m, d)
      OBVIOUS
    <2>3. [st EXCEPT !.buf = l] = [out |-> out, buf |-> l]
      BY <1>7
    <2>4. QED
      BY <2>1, <2>2, <2>3
  <1>11. QED
    BY <1>2, <1>3, <1>4, <1>5, <1>8, <1>9, <1>10 DEF Held

Special == {Quote, Amp, Less, Greater}

Ends(e, q) == Append(e, Semicolon) = Entity(q)

\* A ';' behind the rest of an entity writes its character.
LEMMA EntityEnds ==
  ASSUME NEW s \in Seq(Nat), NEW out \in Seq(Nat), NEW e, Held(s, out, e),
         NEW q \in Special, Ends(e, q)
  PROVE  Unquoted(s \o Entity(q)) = Open(Append(out, q))
  <1>1. PICK m \in Seq(Nat) : m = e
    BY DEF Held
  <1>1a. Append(e, Semicolon) = Entity(q)
    BY DEF Ends
  <1>2. PICK z \in Nat : z = Semicolon
    BY DEF Semicolon
  <1>3. s \o m \in Seq(Nat) /\ s \o Append(m, z) = Append(s \o m, z)
    OBVIOUS
  <1>4. PICK u \in Seq(Nat) : u = s \o m
    BY <1>3
  <1>5. PICK st : st = Unquoted(u)
    OBVIOUS
  <1>6. st = [out |-> out, buf |-> m]
    BY <1>1, <1>4, <1>5 DEF Held
  <1>7. PICK are : are = {x \in {Quote, Amp, Less, Greater} : Entity(x) = Append(m, z)}
    OBVIOUS
  <1>8. are = {q}
    <2> USE DEF Special
    <2>1. ASSUME NEW x \in {Quote, Amp, Less, Greater}, Entity(x) = Entity(q) PROVE x = q
      <3>1. /\ Entity(Quote)[2] = 113 /\ Entity(Amp)[2] = 97
            /\ Entity(Less)[2] = 108 /\ Entity(Greater)[2] = 103
        BY DEF Entity, Quote, Amp, Less, Greater
      <3>2. QED
        BY <2>1, <3>1
    <2>2. QED
      BY <1>1, <1>1a, <1>2, <1>7, <2>1
  <1>9. (CHOOSE x \in are : TRUE) = q
    BY <1>8
  <1>10. st.out = out /\ st.buf = m /\ z # Amp
    BY <1>2, <1>6 DEF Amp, Semicolon
  <1>11. QuoteStep(st, z) = [out |-> out \o <<q>>, buf |-> <<>>]
    <2>1. QuoteStep(st, z) = [out |-> out \o (IF are = {} THEN Append(m, z) ELSE <<CHOOSE x \in are : TRUE>>),
                              buf |-> <<>>]
      BY <1>2, <1>7, <1>10 DEF QuoteStep
    <2>2. are # {}
      BY <1>8
    <2>3. QED
      BY <1>9, <2>1, <2>2
  <1>12. q \in Nat /\ out \o <<q>> = Append(out, q)
    BY DEF Special, Quote, Amp, Less, Greater
  <1>13. Unquoted(Append(u, z)) = QuoteStep(st, z)
    BY <1>5, UnquotedOn
  <1>14. QED
    BY <1>1, <1>1a, <1>2, <1>3, <1>4, <1>11, <1>12, <1>13 DEF Open

\* An entity is read as the character it stands for.
LEMMA EntityRead ==
  ASSUME NEW s \in Seq(Nat), NEW out \in Seq(Nat), NEW c \in Nat, Unquoted(s) = Open(out)
  PROVE  /\ Entity(c) \in Seq(Nat)
         /\ Unquoted(s \o Entity(c)) = Open(Append(out, c))
  <1>1. Amp \in Nat /\ Semicolon \in Nat
    BY DEF Amp, Semicolon
  <1>2. Held(s, out, <<Amp>>)
    BY EntityBegins
  <1>3. \A d \in {97, 103, 108, 109, 111, 112, 113, 116, 117} : d \in Nat /\ d # Amp /\ d # Semicolon
    BY DEF Amp, Semicolon
  <1>4. CASE c = Less
    <2>1. PICK a \in Nat : a = 108
      OBVIOUS
    <2>2. PICK b \in Nat : b = 116
      OBVIOUS
    <2>3. PICK x \in Nat : x = Amp
      BY <1>1
    <2>4. PICK z \in Nat : z = Semicolon
      BY <1>1
    <2>5. PICK e1 : e1 = <<x>> /\ Held(s, out, e1)
      BY <1>2, <2>3
    <2>6. PICK e2 : e2 = Append(e1, a) /\ Held(s, out, e2)
      BY <1>3, <2>5, <2>1, EntityPart, ZenonT(30)
    <2>7. e2 = <<x, a>> /\ Held(s, out, e2)
      <3>1. Append(<<x>>, a) = <<x, a>>
        BY Text2
      <3>2. QED
        BY <2>5, <2>6, <3>1
    <2>8. PICK e3 : e3 = Append(e2, b) /\ Held(s, out, e3)
      BY <1>3, <2>7, <2>2, EntityPart, ZenonT(30)
    <2>9. e3 = <<x, a, b>> /\ Held(s, out, e3)
      <3>1. Append(<<x, a>>, b) = <<x, a, b>>
        BY Text3
      <3>2. QED
        BY <2>7, <2>8, <3>1
    <2>10. Append(<<x, a, b>>, z) = <<x, a, b, z>> /\ <<x, a, b, z>> \in Seq(Nat)
      <3>1. <<x, a, b>> \in Seq(Nat) /\ <<x, a, b, z>> \in Seq(Nat) /\ Len(<<x, a, b>>) = 3 /\ Len(<<x, a, b, z>>) = 4
        OBVIOUS
      <3>2. Append(<<x, a, b>>, z) \in Seq(Nat) /\ Len(Append(<<x, a, b>>, z)) = 4
        BY <3>1
      <3>3. \A i \in 1 .. 4 : Append(<<x, a, b>>, z)[i] = <<x, a, b, z>>[i]
        BY <3>1
      <3>4. QED
        BY <3>1, <3>2, <3>3, SeqEqual
    <2>11. Entity(c) = <<x, a, b, z>>
      BY <1>4, <2>1, <2>2, <2>3, <2>4 DEF Entity, Less, Greater, Quote, Amp
    <2>12. Ends(e3, c) /\ Entity(c) \in Seq(Nat)
      BY <2>9, <2>10, <2>11, <2>4 DEF Ends
    <2>13. c \in Special
      BY <1>4 DEF Special
    <2>14. Unquoted(s \o Entity(c)) = Open(Append(out, c))
      BY <2>9, <2>12, <2>13, EntityEnds
    <2>15. QED
      BY <2>12, <2>14
  <1>5. CASE c = Greater
    <2>1. PICK a \in Nat : a = 103
      OBVIOUS
    <2>2. PICK b \in Nat : b = 116
      OBVIOUS
    <2>3. PICK x \in Nat : x = Amp
      BY <1>1
    <2>4. PICK z \in Nat : z = Semicolon
      BY <1>1
    <2>5. PICK e1 : e1 = <<x>> /\ Held(s, out, e1)
      BY <1>2, <2>3
    <2>6. PICK e2 : e2 = Append(e1, a) /\ Held(s, out, e2)
      BY <1>3, <2>5, <2>1, EntityPart, ZenonT(30)
    <2>7. e2 = <<x, a>> /\ Held(s, out, e2)
      <3>1. Append(<<x>>, a) = <<x, a>>
        BY Text2
      <3>2. QED
        BY <2>5, <2>6, <3>1
    <2>8. PICK e3 : e3 = Append(e2, b) /\ Held(s, out, e3)
      BY <1>3, <2>7, <2>2, EntityPart, ZenonT(30)
    <2>9. e3 = <<x, a, b>> /\ Held(s, out, e3)
      <3>1. Append(<<x, a>>, b) = <<x, a, b>>
        BY Text3
      <3>2. QED
        BY <2>7, <2>8, <3>1
    <2>10. Append(<<x, a, b>>, z) = <<x, a, b, z>> /\ <<x, a, b, z>> \in Seq(Nat)
      <3>1. <<x, a, b>> \in Seq(Nat) /\ <<x, a, b, z>> \in Seq(Nat) /\ Len(<<x, a, b>>) = 3 /\ Len(<<x, a, b, z>>) = 4
        OBVIOUS
      <3>2. Append(<<x, a, b>>, z) \in Seq(Nat) /\ Len(Append(<<x, a, b>>, z)) = 4
        BY <3>1
      <3>3. \A i \in 1 .. 4 : Append(<<x, a, b>>, z)[i] = <<x, a, b, z>>[i]
        BY <3>1
      <3>4. QED
        BY <3>1, <3>2, <3>3, SeqEqual
    <2>11. Entity(c) = <<x, a, b, z>>
      BY <1>5, <2>1, <2>2, <2>3, <2>4 DEF Entity, Less, Greater, Quote, Amp
    <2>12. Ends(e3, c) /\ Entity(c) \in Seq(Nat)
      BY <2>9, <2>10, <2>11, <2>4 DEF Ends
    <2>13. c \in Special
      BY <1>5 DEF Special
    <2>14. Unquoted(s \o Entity(c)) = Open(Append(out, c))
      BY <2>9, <2>12, <2>13, EntityEnds
    <2>15. QED
      BY <2>12, <2>14
  <1>6. CASE c = Amp
    <2>1. PICK a \in Nat : a = 97
      OBVIOUS
    <2>2. PICK b \in Nat : b = 109
      OBVIOUS
    <2>3. PICK d \in Nat : d = 112
      OBVIOUS
    <2>4. PICK x \in Nat : x = Amp
      BY <1>1
    <2>5. PICK z \in Nat : z = Semicolon
      BY <1>1
    <2>6. PICK e1 : e1 = <<x>> /\ Held(s, out, e1)
      BY <1>2, <2>4
    <2>7. PICK e2 : e2 = Append(e1, a) /\ Held(s, out, e2)
      BY <1>3, <2>6, <2>1, EntityPart, ZenonT(30)
    <2>8. e2 = <<x, a>> /\ Held(s, out, e2)
      <3>1. Append(<<x>>, a) = <<x, a>>
        BY Text2
      <3>2. QED
        BY <2>6, <2>7, <3>1
    <2>9. PICK e3 : e3 = Append(e2, b) /\ Held(s, out, e3)
      BY <1>3, <2>8, <2>2, EntityPart, ZenonT(30)
    <2>10. e3 = <<x, a, b>> /\ Held(s, out, e3)
      <3>1. Append(<<x, a>>, b) = <<x, a, b>>
        BY Text3
      <3>2. QED
        BY <2>8, <2>9, <3>1
    <2>11. PICK e4 : e4 = Append(e3, d) /\ Held(s, out, e4)
      BY <1>3, <2>10, <2>3, EntityPart, ZenonT(30)
    <2>12. e4 = <<x, a, b, d>> /\ Held(s, out, e4)
      <3>1. Append(<<x, a, b>>, d) = <<x, a, b, d>>
        BY Text4
      <3>2. QED
        BY <2>10, <2>11, <3>1
    <2>13. Append(<<x, a, b, d>>, z) = <<x, a, b, d, z>> /\ <<x, a, b, d, z>> \in Seq(Nat)
      <3>1. <<x, a, b, d>> \in Seq(Nat) /\ <<x, a, b, d, z>> \in Seq(Nat) /\ Len(<<x, a, b, d>>) = 4 /\ Len(<<x, a, b, d, z>>) = 5
        OBVIOUS
      <3>2. Append(<<x, a, b, d>>, z) \in Seq(Nat) /\ Len(Append(<<x, a, b, d>>, z)) = 5
        BY <3>1
      <3>3. \A i \in 1 .. 5 : Append(<<x, a, b, d>>, z)[i] = <<x, a, b, d, z>>[i]
        BY <3>1
      <3>4. QED
        BY <3>1, <3>2, <3>3, SeqEqual
    <2>14. Entity(c) = <<x, a, b, d, z>>
      BY <1>6, <2>1, <2>2, <2>3, <2>4, <2>5 DEF Entity, Less, Greater, Quote, Amp
    <2>15. Ends(e4, c) /\ Entity(c) \in Seq(Nat)
      BY <2>12, <2>13, <2>14, <2>5 DEF Ends
    <2>16. c \in Special
      BY <1>6 DEF Special
    <2>17. Unquoted(s \o Entity(c)) = Open(Append(out, c))
      BY <2>12, <2>15, <2>16, EntityEnds
    <2>18. QED
      BY <2>15, <2>17
  <1>7. CASE c = Quote
    <2>1. PICK a \in Nat : a = 113
      OBVIOUS
    <2>2. PICK b \in Nat : b = 117
      OBVIOUS
    <2>3. PICK d \in Nat : d = 111
      OBVIOUS
    <2>4. PICK e \in Nat : e = 116
      OBVIOUS
    <2>5. PICK x \in Nat : x = Amp
      BY <1>1
    <2>6. PICK z \in Nat : z = Semicolon
      BY <1>1
    <2>7. PICK e1 : e1 = <<x>> /\ Held(s, out, e1)
      BY <1>2, <2>5
    <2>8. PICK e2 : e2 = Append(e1, a) /\ Held(s, out, e2)
      BY <1>3, <2>7, <2>1, EntityPart, ZenonT(30)
    <2>9. e2 = <<x, a>> /\ Held(s, out, e2)
      <3>1. Append(<<x>>, a) = <<x, a>>
        BY Text2
      <3>2. QED
        BY <2>7, <2>8, <3>1
    <2>10. PICK e3 : e3 = Append(e2, b) /\ Held(s, out, e3)
      BY <1>3, <2>9, <2>2, EntityPart, ZenonT(30)
    <2>11. e3 = <<x, a, b>> /\ Held(s, out, e3)
      <3>1. Append(<<x, a>>, b) = <<x, a, b>>
        BY Text3
      <3>2. QED
        BY <2>9, <2>10, <3>1
    <2>12. PICK e4 : e4 = Append(e3, d) /\ Held(s, out, e4)
      BY <1>3, <2>11, <2>3, EntityPart, ZenonT(30)
    <2>13. e4 = <<x, a, b, d>> /\ Held(s, out, e4)
      <3>1. Append(<<x, a, b>>, d) = <<x, a, b, d>>
        BY Text4
      <3>2. QED
        BY <2>11, <2>12, <3>1
    <2>14. PICK e5 : e5 = Append(e4, e) /\ Held(s, out, e5)
      BY <1>3, <2>13, <2>4, EntityPart, ZenonT(30)
    <2>15. e5 = <<x, a, b, d, e>> /\ Held(s, out, e5)
      <3>1. Append(<<x, a, b, d>>, e) = <<x, a, b, d, e>>
        BY Text5, SMTT(30)
      <3>2. QED
        BY <2>13, <2>14, <3>1
    <2>16. Append(<<x, a, b, d, e>>, z) = <<x, a, b, d, e, z>> /\ <<x, a, b, d, e, z>> \in Seq(Nat)
      <3>1. <<x, a, b, d, e>> \in Seq(Nat) /\ <<x, a, b, d, e, z>> \in Seq(Nat) /\ Len(<<x, a, b, d, e>>) = 5 /\ Len(<<x, a, b, d, e, z>>) = 6
        OBVIOUS
      <3>2. Append(<<x, a, b, d, e>>, z) \in Seq(Nat) /\ Len(Append(<<x, a, b, d, e>>, z)) = 6
        BY <3>1
      <3>3. \A i \in 1 .. 6 : Append(<<x, a, b, d, e>>, z)[i] = <<x, a, b, d, e, z>>[i]
        BY <3>1
      <3>4. QED
        BY <3>1, <3>2, <3>3, SeqEqual
    <2>17. Entity(c) = <<x, a, b, d, e, z>>
      BY <1>7, <2>1, <2>2, <2>3, <2>4, <2>5, <2>6 DEF Entity, Less, Greater, Quote, Amp
    <2>18. Ends(e5, c) /\ Entity(c) \in Seq(Nat)
      BY <2>15, <2>16, <2>17, <2>6 DEF Ends
    <2>19. c \in Special
      BY <1>7 DEF Special
    <2>20. Unquoted(s \o Entity(c)) = Open(Append(out, c))
      BY <2>15, <2>18, <2>19, EntityEnds
    <2>21. QED
      BY <2>18, <2>20
  <1>8. CASE c \notin {Quote, Amp, Less, Greater}
    <2>1. Entity(c) = <<c>> /\ s \o <<c>> = Append(s, c) /\ <<c>> \in Seq(Nat)
      BY <1>8 DEF Entity
    <2>2. PICK st : st = Open(out)
      OBVIOUS
    <2>3. st.buf = <<>> /\ st.out = out /\ [st EXCEPT !.out = Append(st.out, c)] = Open(Append(out, c))
      <3>1. st.buf = <<>> /\ st.out = out
        BY <2>2 DEF Open
      <3>2. PICK l : l = Append(out, c)
        OBVIOUS
      <3>3. [st EXCEPT !.out = l] = Open(l)
        BY <2>2 DEF Open
      <3>4. QED
        BY <3>1, <3>2, <3>3
    <2>4. QuoteStep(st, c) = Open(Append(out, c))
      <3>1. CASE c = Semicolon
        <4>1. Append(<<>>, c) = <<c>> /\ out \o <<c>> = Append(out, c)
          OBVIOUS
        <4>2. {q \in {Quote, Amp, Less, Greater} : Entity(q) = <<c>>} = {}
          <5>1. ASSUME NEW q \in {Quote, Amp, Less, Greater} PROVE Entity(q)[1] = Amp
            BY DEF Entity, Quote, Amp, Less, Greater
          <5>2. <<c>>[1] # Amp
            BY <1>8
          <5>3. QED
            BY <5>1, <5>2
        <4>3. c # Amp
          BY <1>8
        <4>4. QED
          BY <2>3, <3>1, <4>1, <4>2, <4>3 DEF QuoteStep, Open
      <3>2. CASE c # Semicolon
        <4>1. QuoteStep(st, c) = [st EXCEPT !.out = Append(st.out, c)]
          BY <1>8, <2>3, <3>2, PlainStep
        <4>2. QED
          BY <2>3, <4>1
      <3>3. QED
        BY <3>1, <3>2
    <2>5. QED
      BY <2>1, <2>2, <2>4, UnquotedOn
  <1>9. QED
    BY <1>4, <1>5, <1>6, <1>7, <1>8

\* Any other character stands for itself.
LEMMA EntityPlain ==
  ASSUME NEW c \in Nat
  PROVE  Entity(c) \in Seq(Nat \ {Quote, Less, Greater})
  <1>1. \A d \in {97, 103, 108, 109, 111, 112, 113, 116, 117, Amp, Semicolon} :
          d \in Nat \ {Quote, Less, Greater}
    BY DEF Amp, Semicolon, Quote, Less, Greater
  <1>2. PICK S : S = Nat \ {Quote, Less, Greater}
    OBVIOUS
  <1>3. \A d \in {97, 103, 108, 109, 111, 112, 113, 116, 117, Amp, Semicolon} : d \in S
    BY <1>1, <1>2
  <1>4. CASE c \notin {Quote, Amp, Less, Greater}
    <2>1. Entity(c) = <<c>> /\ c \in S
      BY <1>2, <1>4 DEF Entity
    <2>2. QED
      BY <1>2, <2>1
  <1>5. CASE c \in {Less, Greater}
    <2>1. Entity(c) = <<Amp, IF c = Less THEN 108 ELSE 103, 116, Semicolon>>
      BY <1>5 DEF Entity, Quote, Amp, Less, Greater
    <2>2. QED
      BY <1>2, <1>3, <2>1
  <1>6. CASE c = Quote
    <2>1. Entity(c) = <<Amp, 113, 117, 111, 116, Semicolon>>
      BY <1>6 DEF Entity, Quote, Amp, Less, Greater
    <2>2. QED
      BY <1>2, <1>3, <2>1
  <1>7. CASE c = Amp
    <2>1. Entity(c) = <<Amp, 97, 109, 112, Semicolon>>
      BY <1>7 DEF Entity, Quote, Amp, Less, Greater
    <2>2. QED
      BY <1>2, <1>3, <2>1
  <1>8. QED
    BY <1>4, <1>5, <1>6, <1>7

\* html_quote_encode goes on with the entity of each new character.
LEMMA QuoteEncodeAppend ==
  ASSUME NEW t \in Seq(Nat), NEW c \in Nat
  PROVE  /\ QuoteEncode(t) \in Seq(Nat \ {Quote, Less, Greater}) /\ QuoteEncode(<<>>) = <<>>
         /\ QuoteEncode(Append(t, c)) = QuoteEncode(t) \o Entity(c)
  <1>1. PICK G : G = [d \in Nat |-> Entity(d)]
    OBVIOUS
  <1>2. \A d \in Nat : G[d] \in Seq(Nat \ {Quote, Less, Greater})
    BY <1>1, EntityPlain
  <1>3. ASSUME NEW s \in Seq(Nat) PROVE QuoteEncode(s) = Coded(G, s)
    <2>1. \A i \in DOMAIN s : s[i] \in Nat
      OBVIOUS
    <2>2. [i \in DOMAIN s |-> Entity(s[i])] = [i \in DOMAIN s |-> G[s[i]]]
      BY <1>1, <2>1
    <2>3. QED
      BY <2>2 DEF QuoteEncode, Coded
  <1>4. <<>> \in Seq(Nat) /\ Append(t, c) \in Seq(Nat)
    OBVIOUS
  <1>5. /\ Coded(G, t) \in Seq(Nat \ {Quote, Less, Greater}) /\ Coded(G, <<>>) = <<>>
        /\ Coded(G, Append(t, c)) = Coded(G, t) \o G[c]
    <2>1. PICK C : C = Nat
      OBVIOUS
    <2>2. PICK A : A = Nat \ {Quote, Less, Greater}
      OBVIOUS
    <2>3. t \in Seq(C) /\ c \in C /\ IsCode(G, C, A)
      BY <1>2, <2>1, <2>2 DEF IsCode
    <2>4. /\ Coded(G, t) \in Seq(A) /\ Coded(G, <<>>) = <<>>
          /\ Coded(G, Append(t, c)) = Coded(G, t) \o G[c]
      BY <2>3, CodedAppend
    <2>5. QED
      BY <2>2, <2>4
  <1>6. QED
    BY <1>1, <1>3, <1>4, <1>5

\* What is encoded holds nothing that ends an attribute or a tag, and is decoded to what it was.
LEMMA QuotedReturns ==
  ASSUME NEW t \in Seq(Nat)
  PROVE  /\ QuoteDecode(QuoteEncode(t)) = t
         /\ ToSet(QuoteEncode(t)) \cap {Quote, Less, Greater} = {}
  <1> DEFINE Back(s) == Unquoted(QuoteEncode(s)) = Open(s)
             T == {s \in Seq(Nat) : Back(s)}
  <1>1. <<>> \in T
    <2>1. 0 \in Nat /\ <<>> \in Seq(Nat)
      OBVIOUS
    <2>2. QuoteEncode(<<>>) = <<>>
      BY <2>1, QuoteEncodeAppend
    <2>3. Unquoted(<<>>) = Open(<<>>)
      BY <2>1, UnquotedOn
    <2>4. QED
      BY <2>1, <2>2, <2>3
  <1>2. ASSUME NEW s \in Seq(Nat), NEW c \in Nat, s \in T PROVE Append(s, c) \in T
    <2>1. Append(s, c) \in Seq(Nat)
      OBVIOUS
    <2>2. QuoteEncode(s) \in Seq(Nat \ {Quote, Less, Greater})
          /\ QuoteEncode(Append(s, c)) = QuoteEncode(s) \o Entity(c)
      BY QuoteEncodeAppend
    <2>3. PICK u \in Seq(Nat) : u = QuoteEncode(s)
      BY <2>2
    <2>4. Unquoted(u) = Open(s)
      BY <1>2, <2>3
    <2>5. Unquoted(u \o Entity(c)) = Open(Append(s, c))
      BY <2>4, EntityRead
    <2>6. QED
      BY <2>1, <2>2, <2>3, <2>5
  <1>3. t \in T
    <2> HIDE DEF T
    <2>1. \A s \in Seq(Nat), c \in Nat : s \in T => Append(s, c) \in T
      BY <1>2
    <2>2. QED
      BY <1>1, <2>1, AllTexts
  <1>4. QuoteDecode(QuoteEncode(t)) = t
    <2>1. Unquoted(QuoteEncode(t)) = Open(t)
      BY <1>3
    <2>2. QuoteDecode(QuoteEncode(t)) = Open(t).out \o Open(t).buf
      BY <2>1, QuoteFolded
    <2>3. Open(t).out = t /\ Open(t).buf = <<>> /\ t \o <<>> = t
      BY DEF Open
    <2>4. QED
      BY <2>2, <2>3
  <1>5. ToSet(QuoteEncode(t)) \cap {Quote, Less, Greater} = {}
    <2>1. 0 \in Nat
      OBVIOUS
    <2>2. PICK u \in Seq(Nat \ {Quote, Less, Greater}) : u = QuoteEncode(t)
      BY <2>1, QuoteEncodeAppend
    <2>3. \A i \in DOMAIN u : u[i] \in Nat \ {Quote, Less, Greater}
      OBVIOUS
    <2>4. QED
      BY <2>2, <2>3 DEF ToSet
  <1>6. QED
    BY <1>4, <1>5

\* Whatever holds a text of the program holds it encoded.
LEMMA CarriersQuoted ==
  ASSUME NEW held \in Carriers
  PROVE  held = QuoteEncode(text)
  <1> USE DEF LinkTo, ButtonTo, SubmitButton, ImageHrec, LinkHrec, ButtonHrec,
              FormHrec, HiddenHrec, Input
  <1>1. LinkTo(text, <<>>).body = QuoteEncode(text)
    OBVIOUS
  <1>2. ButtonTo(text, <<>>).button.value = QuoteEncode(text)
    OBVIOUS
  <1>3. ImageHrec(text).src = QuoteEncode(text)
    OBVIOUS
  <1>4. LinkHrec(text, <<>>).href = QuoteEncode(text)
    OBVIOUS
  <1>5. LinkHrec(<<>>, text).body = QuoteEncode(text)
    OBVIOUS
  <1>6. ButtonHrec("button", text).value = QuoteEncode(text)
    OBVIOUS
  <1>7. FormHrec(text, "post", <<>>).action = QuoteEncode(text)
    OBVIOUS
  <1>8. AddHidden(FormHrec(<<>>, "get", <<>>), <<65>>, text).hiddens[1].value = QuoteEncode(text)
    <2>1. PICK h : h = HiddenHrec(<<65>>, text)
      OBVIOUS
    <2>2. h.value = QuoteEncode(text)
      BY <2>1
    <2>3. PICK f : f = FormHrec(<<>>, "get", <<>>)
      OBVIOUS
    <2>4. f.hiddens = <<>> /\ "hiddens" \in DOMAIN f
      BY <2>3
    <2>5. Append(<<>>, h)[1] = h
      OBVIOUS
    <2>6. [f EXCEPT !.hiddens = Append(f.hiddens, h)].hiddens = Append(f.hiddens, h)
      BY <2>4
    <2>7. AddHidden(f, <<65>>, text).hiddens = Append(f.hiddens, h)
      BY <2>1, <2>6 DEF AddHidden
    <2>8. QED
      BY <2>2, <2>3, <2>4, <2>5, <2>7
  <1>9. QED
    BY <1>1, <1>2, <1>3, <1>4, <1>5, <1>6, <1>7, <1>8 DEF Carriers

\* A text that is encoded so can be had back, and ends nothing.
LEMMA TextQuoted ==
  ASSUME text \in Seq(Nat)
  PROVE  QuotesReturn
  BY CarriersQuoted, QuotedReturns DEF QuotesReturn

Chars == [code : Nat, escape : Seq(Nat)]
Entries == [name : Seq(Nat), value : Seq(Nat)]
FormStates == [isName : BOOLEAN, name : Seq(Nat), value : Seq(Nat), fields : Seq(Entries)]

\* The form decoder's state stays one.
LEMMA FormStepped ==
  ASSUME NEW st \in FormStates, NEW c \in Chars
  PROVE  FormStep(st, c) \in FormStates
  <1>1. c.code \in Nat
    BY DEF Chars
  <1>2. ASSUME NEW f \in Seq(Entries), NEW name \in Seq(Nat), NEW value \in Seq(Nat)
        PROVE  Insert(f, name, value) \in Seq(Entries)
    <2>1. [name |-> name, value |-> value] \in Entries
      BY DEF Entries
    <2>2. QED
      BY <2>1 DEF Insert
  <1> USE DEF FormStates
  <1>3. Insert(st.fields, st.name, st.value) \in Seq(Entries)
    BY <1>2
  <1>4. <<>> \in Seq(Nat)
    OBVIOUS
  <1>5. Append(st.name, c.code) \in Seq(Nat) /\ Append(st.value, c.code) \in Seq(Nat)
    BY <1>1
  <1>6. QED
    BY <1>3, <1>4, <1>5 DEF FormStep

-----------------------------------------------------------------------------
(* url_encode, and what the decoders read of it. *)

\* What url_encode makes of a character, and what the decoders read there.
UrlCode(c, form) ==
  IF c = Space /\ form THEN <<Plus>>
  ELSE IF c \in Alnum \/ (c = 46 /\ ~form) THEN <<c>>
  ELSE <<Percent, HexChar(c \div 16), HexChar(c % 16)>>
UrlChar(c, form) ==
  [code |-> c,
   escape |-> IF (c = Space /\ form) \/ c \in Alnum \/ (c = 46 /\ ~form) THEN <<>>
              ELSE <<HexChar(c \div 16), HexChar(c % 16)>>]

\* The two hexadecimal digits that url_encode writes are read as the code.
LEMMA HexRead ==
  ASSUME NEW c \in Codes
  PROVE  /\ HexChar(c \div 16) \in Digits \cup LowerHex /\ HexChar(c % 16) \in Digits \cup LowerHex
         /\ HexValue(HexChar(c \div 16), HexChar(c % 16)) = c
  <1>1. PICK a \in 0 .. 15 : a = c \div 16
    BY DEF Codes
  <1>2. PICK b \in 0 .. 15 : b = c % 16
    BY DEF Codes
  <1>3. 16 * a + b = c
    BY <1>1, <1>2 DEF Codes
  <1>4. ASSUME NEW d \in 0 .. 15
        PROVE  HexChar(d) \in Digits \cup LowerHex /\ HexDigit(HexChar(d)) = d
    <2>1. CASE d < 10
      <3>1. HexChar(d) = 48 + d
        BY <2>1 DEF HexChar
      <3>2. HexChar(d) \in Digits
        BY <2>1, <3>1 DEF Digits
      <3>3. QED
        BY <3>1, <3>2 DEF HexDigit, Digits, UpperHex, LowerHex
    <2>2. CASE ~(d < 10)
      <3>1. HexChar(d) = 87 + d
        BY <2>2 DEF HexChar
      <3>2. HexChar(d) \in LowerHex
        BY <2>2, <3>1 DEF LowerHex
      <3>3. HexChar(d) \notin Digits /\ HexChar(d) \notin UpperHex
        BY <2>2, <3>1 DEF Digits, UpperHex
      <3>4. QED
        BY <3>1, <3>2, <3>3 DEF HexDigit
    <2>3. QED
      BY <2>1, <2>2
  <1>5. IsHex(HexChar(a)) /\ IsHex(HexChar(b))
    BY <1>4 DEF IsHex
  <1>6. HexValue(HexChar(a), HexChar(b)) = 16 * HexDigit(HexChar(a)) + HexDigit(HexChar(b))
    <2>1. PICK x : x = HexChar(a)
      OBVIOUS
    <2>2. PICK y : y = HexChar(b)
      OBVIOUS
    <2>3. IsHex(x) /\ IsHex(y) /\ x \notin {Space, Plus}
      BY <1>4, <1>5, <2>1, <2>2 DEF Digits, LowerHex, Space, Plus
    <2>4. HexValue(x, y) = 16 * HexDigit(x) + HexDigit(y)
      BY <2>3 DEF HexValue
    <2>5. QED
      BY <2>1, <2>2, <2>4
  <1>7. QED
    BY <1>1, <1>2, <1>3, <1>4, <1>6

\* Both are what a text consists of.
LEMMA UrlCoded ==
  ASSUME NEW c \in Codes, NEW form \in BOOLEAN
  PROVE  UrlCode(c, form) \in Seq(Nat) /\ UrlChar(c, form) \in Chars
  <1>1. c \in Nat /\ Percent \in Nat /\ Plus \in Nat
    BY DEF Codes, Percent, Plus
  <1>2. HexChar(c \div 16) \in Nat /\ HexChar(c % 16) \in Nat
    BY HexRead DEF Digits, LowerHex
  <1>3. <<>> \in Seq(Nat)
    OBVIOUS
  <1>4. QED
    BY <1>1, <1>2, <1>3 DEF UrlCode, UrlChar, Chars

\* url_encode goes on with the code of each new character.
LEMMA UrlEncodeAppend ==
  ASSUME NEW form \in BOOLEAN, NEW t \in Seq(Codes), NEW c \in Codes
  PROVE  /\ UrlEncode(t, form) \in Seq(Nat) /\ UrlEncode(<<>>, form) = <<>>
         /\ UrlEncode(Append(t, c), form) = UrlEncode(t, form) \o UrlCode(c, form)
  <1>1. PICK G : G = [d \in Codes |-> UrlCode(d, form)]
    OBVIOUS
  <1>2. \A d \in Codes : G[d] \in Seq(Nat)
    BY <1>1, UrlCoded
  <1>3. ASSUME NEW s \in Seq(Codes) PROVE UrlEncode(s, form) = Coded(G, s)
    <2>1. \A i \in DOMAIN s : s[i] \in Codes
      OBVIOUS
    <2>2. [i \in DOMAIN s |-> UrlCode(s[i], form)] = [i \in DOMAIN s |-> G[s[i]]]
      BY <1>1, <2>1
    <2>3. UrlEncode(s, form) = FlattenSeq([i \in DOMAIN s |-> UrlCode(s[i], form)])
      BY DEF UrlEncode, UrlCode
    <2>4. QED
      BY <2>2, <2>3 DEF Coded
  <1>4. <<>> \in Seq(Codes) /\ Append(t, c) \in Seq(Codes)
    OBVIOUS
  <1>5. /\ Coded(G, t) \in Seq(Nat) /\ Coded(G, <<>>) = <<>>
        /\ Coded(G, Append(t, c)) = Coded(G, t) \o G[c]
    <2>1. PICK C : C = Codes
      OBVIOUS
    <2>2. PICK A : A = Nat
      OBVIOUS
    <2>3. t \in Seq(C) /\ c \in C /\ IsCode(G, C, A)
      BY <1>2, <2>1, <2>2 DEF IsCode
    <2>4. /\ Coded(G, t) \in Seq(A) /\ Coded(G, <<>>) = <<>>
          /\ Coded(G, Append(t, c)) = Coded(G, t) \o G[c]
      BY <2>3, CodedAppend
    <2>5. QED
      BY <2>2, <2>4
  <1>6. QED
    BY <1>1, <1>3, <1>4, <1>5

\* The character that is read at a place of a text, and where the next one is.
CharAt(s, i) ==
  IF s[i] = Percent
  THEN [code |-> HexValue(s[i + 1], s[i + 2]), escape |-> <<s[i + 1], s[i + 2]>>]
  ELSE [code |-> IF s[i] = Plus THEN Space ELSE s[i], escape |-> <<>>]
NextAt(s, i) == IF s[i] = Percent THEN i + 3 ELSE i + 1

\* f has what is read from each place on.
IsReading(f, s) ==
  \A i \in 1 .. Len(s) + 3 :
    f[i] = IF i > Len(s) THEN <<>> ELSE <<CharAt(s, i)>> \o f[NextAt(s, i)]

\* There is such a function: its values are built from the end of the text on.
LEMMA ReadingExists ==
  ASSUME NEW s, NEW n \in Nat, n = Len(s)
  PROVE  \E f : f = [i \in 1 .. n + 3 |-> f[i]] /\ IsReading(f, s)
  <1>1. PICK C : C = Seq({CharAt(s, i) : i \in 1 .. n})
    OBVIOUS
  <1>2. <<>> \in C /\ \A i \in 1 .. n, x \in C : <<CharAt(s, i)>> \o x \in C
    <2>1. PICK D : D = {CharAt(s, i) : i \in 1 .. n}
      OBVIOUS
    <2>2. <<>> \in Seq(D)
      OBVIOUS
    <2>3. ASSUME NEW i \in 1 .. n, NEW x \in Seq(D) PROVE <<CharAt(s, i)>> \o x \in Seq(D)
      <3>1. PICK c \in D : c = CharAt(s, i)
        BY <2>1
      <3>2. <<c>> \o x \in Seq(D)
        OBVIOUS
      <3>3. QED
        BY <3>1, <3>2
    <2>4. QED
      BY <1>1, <2>1, <2>2, <2>3
  <1>3. PICK S : S = C \X C \X C
    OBVIOUS
  <1>4. PICK base \in S : base = << <<>>, <<>>, <<>> >>
    BY <1>2, <1>3
  <1> DEFINE Read(k, x) ==
        << <<CharAt(s, n + 1 - k)>> \o (IF s[n + 1 - k] = Percent THEN x[3] ELSE x[1]),
           x[1], x[2] >>
  <1>5. PICK F : F = [p \in (1 .. n) \X S |-> Read(p[1], p[2])]
    OBVIOUS
  <1>6. ASSUME NEW k \in 1 .. n, NEW x \in S PROVE F[<<k, x>>] = Read(k, x) /\ F[<<k, x>>] \in S
    <2>1. n + 1 - k \in 1 .. n
      OBVIOUS
    <2>2. x[1] \in C /\ x[2] \in C /\ x[3] \in C
      BY <1>3
    <2>3. Read(k, x) \in S
      BY <1>2, <1>3, <2>1, <2>2
    <2>4. F[<<k, x>>] = Read(k, x)
      BY <1>5
    <2>5. QED
      BY <2>3, <2>4
  <1>7. \A k \in 1 .. n, x \in S : F[<<k, x>>] \in S
    BY <1>6
  <1>8. PICK r : IsRun(r, S, base, n, F)
    BY <1>7, RunExists
  <1>9. ASSUME NEW k \in 1 .. n
        PROVE  /\ r[k][1] = <<CharAt(s, n + 1 - k)>>
                              \o (IF s[n + 1 - k] = Percent THEN r[k - 1][3] ELSE r[k - 1][1])
               /\ r[k][2] = r[k - 1][1] /\ r[k][3] = r[k - 1][2]
    <2>1. r[k - 1] \in S /\ r[k] = F[<<k, r[k - 1]>>]
      <3>1. k - 1 \in 0 .. n
        OBVIOUS
      <3>2. QED
        BY <1>8, <3>1 DEF IsRun
    <2>2. PICK x \in S : x = r[k - 1] /\ r[k] = F[<<k, x>>]
      BY <2>1
    <2>3. F[<<k, x>>] = Read(k, x)
      BY <1>6
    <2>4. PICK a : a = <<CharAt(s, n + 1 - k)>> \o (IF s[n + 1 - k] = Percent THEN x[3] ELSE x[1])
      OBVIOUS
    <2>5. r[k] = <<a, x[1], x[2]>>
      BY <2>2, <2>3, <2>4
    <2>6. r[k][1] = a /\ r[k][2] = x[1] /\ r[k][3] = x[2]
      BY <2>5
    <2>7. QED
      BY <2>2, <2>4, <2>6
  <1>10. r[0][1] = <<>> /\ r[0][2] = <<>> /\ r[0][3] = <<>>
    BY <1>4, <1>8 DEF IsRun
  <1>11. PICK f : f = [i \in 1 .. n + 3 |-> IF i > n THEN <<>> ELSE r[n + 1 - i][1]]
    OBVIOUS
  <1>12. \A j \in 0 .. n : f[n + 1 - j] = r[j][1]
    <2>1. SUFFICES ASSUME NEW j \in 0 .. n PROVE f[n + 1 - j] = r[j][1]
      OBVIOUS
    <2>2. PICK i \in 1 .. n + 1 : i = n + 1 - j
      OBVIOUS
    <2>3. i \in 1 .. n + 3 /\ n + 1 - i = j
      BY <2>2
    <2>4. CASE i > n
      <3>1. j = 0
        BY <2>2, <2>4
      <3>2. QED
        BY <1>10, <1>11, <2>2, <2>3, <2>4, <3>1
    <2>5. CASE ~(i > n)
      BY <1>11, <2>2, <2>3, <2>5
    <2>6. QED
      BY <2>4, <2>5
  <1>13. ASSUME NEW i \in 1 .. n PROVE f[i] = <<CharAt(s, i)>> \o f[NextAt(s, i)]
    <2>1. PICK k \in 1 .. n : k = n + 1 - i
      BY SMTT(30)
    <2>2. n + 1 - k = i /\ k - 1 \in 0 .. n /\ n + 1 - (k - 1) = i + 1
      BY <2>1
    <2>3. f[i] = r[k][1] /\ f[i + 1] = r[k - 1][1]
      <3>1. k \in 0 .. n
        OBVIOUS
      <3>2. QED
        BY <1>12, <2>2, <3>1
    <2>4. f[i] = <<CharAt(s, i)>> \o (IF s[i] = Percent THEN r[k - 1][3] ELSE f[i + 1])
      BY <1>9, <2>2, <2>3
    <2>5. r[k - 1][3] = f[i + 3]
      <3>1. CASE k >= 3
        <4>1. k - 1 \in 1 .. n /\ k - 2 \in 1 .. n /\ k - 3 \in 0 .. n
          BY <3>1
        <4>2. r[k - 1][3] = r[(k - 1) - 1][2]
          BY <1>9, <4>1
        <4>3. (k - 1) - 1 = k - 2 /\ (k - 2) - 1 = k - 3
          OBVIOUS
        <4>4. r[k - 2][2] = r[(k - 2) - 1][1]
          BY <1>9, <4>1
        <4>5. n + 1 - (k - 3) = i + 3
          BY <2>1
        <4>6. r[k - 3][1] = f[i + 3]
          BY <1>12, <4>1, <4>5
        <4>7. QED
          BY <4>2, <4>3, <4>4, <4>6
      <3>2. CASE k = 2
        <4>1. k - 1 \in 1 .. n /\ (k - 1) - 1 = 0
          BY <3>2
        <4>2. r[k - 1][3] = r[0][2]
          BY <1>9, <4>1
        <4>3. i + 3 > n /\ i + 3 \in 1 .. n + 3
          BY <2>1, <3>2
        <4>4. QED
          BY <1>10, <1>11, <4>2, <4>3
      <3>3. CASE k = 1
        <4>1. k - 1 = 0
          BY <3>3
        <4>2. i + 3 > n /\ i + 3 \in 1 .. n + 3
          BY <2>1, <3>3
        <4>3. QED
          BY <1>10, <1>11, <4>1, <4>2
      <3>4. QED
        BY <3>1, <3>2, <3>3
    <2>6. QED
      BY <2>4, <2>5 DEF NextAt
  <1>14. ASSUME NEW i \in 1 .. n + 3, i > n PROVE f[i] = <<>>
    BY <1>11, <1>14
  <1>15. ASSUME NEW i \in 1 .. n + 3
         PROVE  f[i] = IF i > n THEN <<>> ELSE <<CharAt(s, i)>> \o f[NextAt(s, i)]
    <2>1. CASE i > n
      BY <1>14, <2>1
    <2>2. CASE ~(i > n)
      <3>1. i \in 1 .. n
        BY <2>2
      <3>2. QED
        BY <1>13, <2>2, <3>1
    <2>3. QED
      BY <2>1, <2>2
  <1>16. f = [i \in 1 .. n + 3 |-> f[i]]
    BY <1>11
  <1>17. IsReading(f, s)
    BY <1>15 DEF IsReading
  <1>18. QED
    BY <1>16, <1>17

\* Characters has its values.
LEMMA CharactersRead ==
  ASSUME NEW s, Len(s) \in Nat
  PROVE  \E f : IsReading(f, s) /\ Characters(s) = f[1]
  <1> DEFINE from == CHOOSE f : f = [i \in 1 .. Len(s) + 3 |->
               CASE i > Len(s) -> <<>>
                 [] i <= Len(s) /\ s[i] = Percent ->
                      <<[code |-> HexValue(s[i + 1], s[i + 2]), escape |-> <<s[i + 1], s[i + 2]>>]>>
                        \o f[i + 3]
                 [] OTHER ->
                      <<[code |-> IF s[i] = Plus THEN Space ELSE s[i], escape |-> <<>>]>>
                        \o f[i + 1]]
  <1>1. PICK n \in Nat : n = Len(s)
    OBVIOUS
  <1>2. PICK g : g = [i \in 1 .. n + 3 |-> g[i]] /\ IsReading(g, s)
    BY <1>1, ReadingExists
  <1>3. ASSUME NEW f, NEW i \in 1 .. n + 3
        PROVE (CASE i > Len(s) -> <<>>
                 [] i <= Len(s) /\ s[i] = Percent ->
                      <<[code |-> HexValue(s[i + 1], s[i + 2]), escape |-> <<s[i + 1], s[i + 2]>>]>>
                        \o f[i + 3]
                 [] OTHER ->
                      <<[code |-> IF s[i] = Plus THEN Space ELSE s[i], escape |-> <<>>]>>
                        \o f[i + 1])
                = IF i > Len(s) THEN <<>> ELSE <<CharAt(s, i)>> \o f[NextAt(s, i)]
    <2>1. CASE i > n
      BY <1>1, <2>1
    <2>2. CASE i <= n /\ s[i] = Percent
      <3>1. CharAt(s, i) = [code |-> HexValue(s[i + 1], s[i + 2]), escape |-> <<s[i + 1], s[i + 2]>>]
            /\ NextAt(s, i) = i + 3
        BY <2>2 DEF CharAt, NextAt
      <3>2. ~(i > n)
        BY <2>2
      <3>3. QED
        BY <1>1, <2>2, <3>1, <3>2
    <2>3. CASE i <= n /\ s[i] # Percent
      <3>1. CharAt(s, i) = [code |-> IF s[i] = Plus THEN Space ELSE s[i], escape |-> <<>>]
            /\ NextAt(s, i) = i + 1
        BY <2>3 DEF CharAt, NextAt
      <3>2. ~(i > n)
        BY <2>3
      <3>3. QED
        BY <1>1, <2>3, <3>1, <3>2
    <2>4. QED
      BY <2>1, <2>2, <2>3
  <1>4. g = [i \in 1 .. Len(s) + 3 |->
               CASE i > Len(s) -> <<>>
                 [] i <= Len(s) /\ s[i] = Percent ->
                      <<[code |-> HexValue(s[i + 1], s[i + 2]), escape |-> <<s[i + 1], s[i + 2]>>]>>
                        \o g[i + 3]
                 [] OTHER ->
                      <<[code |-> IF s[i] = Plus THEN Space ELSE s[i], escape |-> <<>>]>>
                        \o g[i + 1]]
    BY <1>1, <1>2, <1>3, ZenonT(30) DEF IsReading
  <1>5. from = [i \in 1 .. Len(s) + 3 |->
               CASE i > Len(s) -> <<>>
                 [] i <= Len(s) /\ s[i] = Percent ->
                      <<[code |-> HexValue(s[i + 1], s[i + 2]), escape |-> <<s[i + 1], s[i + 2]>>]>>
                        \o from[i + 3]
                 [] OTHER ->
                      <<[code |-> IF s[i] = Plus THEN Space ELSE s[i], escape |-> <<>>]>>
                        \o from[i + 1]]
    BY <1>4
  <1>6. Characters(s) = from[1]
    BY DEF Characters
  <1> HIDE DEF from
  <1>7. IsReading(from, s)
    BY <1>1, <1>3, <1>5, ZenonT(60) DEF IsReading
  <1>8. QED
    BY <1>6, <1>7

\* No escape is cut off.
IsWhole(s) == \A i \in 1 .. Len(s) : s[i] = Percent => i + 2 <= Len(s)

Follows(f, p, g) == f[Len(p) + 1] = g[1]

\* What is read of a text does not depend on what is before it.
LEMMA ReadOn ==
  ASSUME NEW p \in Seq(Nat), NEW s \in Seq(Nat), NEW t \in Seq(Nat), t = p \o s,
         NEW f, NEW g, IsReading(f, t), IsReading(g, s), IsWhole(s)
  PROVE  Follows(f, p, g)
  <1>1. PICK d \in Nat : d = Len(p)
    OBVIOUS
  <1>2. PICK n \in Nat : n = Len(s)
    OBVIOUS
  <1>3. Len(t) = d + n /\ \A i \in 1 .. n : t[d + i] = s[i]
    BY <1>1, <1>2
  <1> DEFINE Same(i) == f[d + i] = g[i]
             T == {k \in Nat : \A i \in 1 .. n + 3 : n - i < k => Same(i)}
  <1>4. ASSUME NEW i \in 1 .. n + 3
        PROVE  /\ f[d + i] = IF i > n THEN <<>> ELSE <<CharAt(t, d + i)>> \o f[NextAt(t, d + i)]
               /\ g[i] = IF i > n THEN <<>> ELSE <<CharAt(s, i)>> \o g[NextAt(s, i)]
    <2>1. d + i \in 1 .. Len(t) + 3 /\ (d + i > Len(t) <=> i > n)
      BY <1>3
    <2>2. i \in 1 .. Len(s) + 3 /\ (i > Len(s) <=> i > n)
      BY <1>2
    <2>3. QED
      BY <2>1, <2>2 DEF IsReading
  <1>5. 0 \in T
    <2>1. ASSUME NEW i \in 1 .. n + 3, n - i < 0 PROVE Same(i)
      <3>1. i > n
        BY <2>1
      <3>2. QED
        BY <1>4, <3>1
    <2>2. QED
      BY <2>1
  <1>6. ASSUME NEW k \in T PROVE k + 1 \in T
    <2>1. SUFFICES ASSUME NEW i \in 1 .. n + 3, n - i < k + 1 PROVE Same(i)
      OBVIOUS
    <2>2. CASE i > n
      BY <1>4, <2>2
    <2>3. CASE ~(i > n)
      <3>1. \A j \in 1 .. n + 3 : n - j < k => f[d + j] = g[j]
        OBVIOUS
      <3>2. i + 1 \in 1 .. n + 3 /\ i + 3 \in 1 .. n + 3 /\ n - (i + 1) < k /\ n - (i + 3) < k
        BY <2>1, <2>3
      <3>3. f[d + (i + 1)] = g[i + 1] /\ f[d + (i + 3)] = g[i + 3]
        BY <3>1, <3>2
      <3>4. i \in 1 .. n
        BY <2>3
      <3>5. t[d + i] = s[i]
        BY <1>3, <3>4
      <3>6. CASE s[i] = Percent
        <4>1. NextAt(t, d + i) = d + (i + 3) /\ NextAt(s, i) = i + 3
          BY <3>5, <3>6 DEF NextAt
        <4>2. CharAt(t, d + i) = CharAt(s, i)
          <5>1. i + 2 <= n
            BY <1>2, <3>4, <3>6 DEF IsWhole
          <5>2. i + 1 \in 1 .. n /\ i + 2 \in 1 .. n
            BY <5>1
          <5>3. t[d + (i + 1)] = s[i + 1] /\ t[d + (i + 2)] = s[i + 2]
            BY <1>3, <5>2
          <5>4. d + (i + 1) = (d + i) + 1 /\ d + (i + 2) = (d + i) + 2
            OBVIOUS
          <5>5. QED
            BY <3>5, <3>6, <5>3, <5>4 DEF CharAt
        <4>3. f[d + i] = <<CharAt(s, i)>> \o f[NextAt(t, d + i)]
              /\ g[i] = <<CharAt(s, i)>> \o g[NextAt(s, i)]
          BY <1>4, <2>3, <4>2
        <4>4. QED
          BY <3>3, <4>1, <4>3
      <3>7. CASE s[i] # Percent
        <4>1. NextAt(t, d + i) = d + (i + 1) /\ NextAt(s, i) = i + 1
          BY <3>5, <3>7 DEF NextAt
        <4>2. CharAt(t, d + i) = CharAt(s, i)
          BY <3>5, <3>7 DEF CharAt
        <4>3. f[d + i] = <<CharAt(s, i)>> \o f[NextAt(t, d + i)]
              /\ g[i] = <<CharAt(s, i)>> \o g[NextAt(s, i)]
          BY <1>4, <2>3, <4>2
        <4>4. QED
          BY <3>3, <4>1, <4>3
      <3>8. QED
        BY <3>6, <3>7
    <2>4. QED
      BY <2>2, <2>3
  <1>7. n \in T
    <2> HIDE DEF T
    <2>1. T \in SUBSET Nat
      BY DEF T
    <2>2. QED
      BY <1>5, <1>6, <2>1, AllNumbers
  <1>8. 1 \in 1 .. n + 3 /\ n - 1 < n
    OBVIOUS
  <1>9. QED
    BY <1>1, <1>7, <1>8 DEF Follows

\* A fold of FormStep passes from one character to the next.
LEMMA FormFold ==
  ASSUME NEW base \in FormStates, NEW s \in Seq(Chars), NEW n \in Nat, n = Len(s), NEW H,
         \A i \in 1 .. n, x \in FormStates : H[<<i, x>>] = FormStep(x, s[i])
  PROVE  ComesTo(FormStates, base, n, H, FoldLeft(FormStep, base, s))
  <1> DEFINE it == CHOOSE g : g = [d \in SUBSET (DOMAIN s) |->
                     IF d = {} THEN base ELSE FormStep(g[d \ {Max(d)}], s[Max(d)])]
  <1>1. DOMAIN s = 1 .. n /\ \A i \in 1 .. n : s[i] \in Chars
    OBVIOUS
  <1>2. FoldLeft(FormStep, base, s) = it[DOMAIN s]
    BY DEF FoldLeft, MapThenFoldSet
  <1>3. PICK S : S = FormStates
    OBVIOUS
  <1>3a. PICK F : F = [p \in (1 .. n) \X S |-> FormStep(p[2], s[p[1]])]
    OBVIOUS
  <1>4. \A i \in 1 .. n, x \in S : F[<<i, x>>] = FormStep(x, s[i]) /\ F[<<i, x>>] \in S
    <2>1. ASSUME NEW i \in 1 .. n, NEW x \in S PROVE FormStep(x, s[i]) \in S
      BY <1>1, <1>3, FormStepped
    <2>2. QED
      BY <1>3a, <2>1
  <1>5. PICK g : IsFold(g, S, base, n, F)
    BY <1>3, <1>4, FoldIterates
  <1>6. g = [d \in SUBSET (DOMAIN s) |->
               IF d = {} THEN base ELSE FormStep(g[d \ {Max(d)}], s[Max(d)])]
    <2>1. ASSUME NEW d \in SUBSET (1 .. n), d # {}
          PROVE  g[d] = FormStep(g[d \ {Max(d)}], s[Max(d)])
      <3>1. Max(d) \in 1 .. n
        BY <2>1, GreatestIs
      <3>2. g[d \ {Max(d)}] \in S
        BY <1>5 DEF IsFold
      <3>3. g[d] = F[<<Max(d), g[d \ {Max(d)}]>>]
        BY <1>5, <2>1 DEF IsFold
      <3>4. QED
        BY <1>4, <3>1, <3>2, <3>3
    <2>2. g = [d \in SUBSET (1 .. n) |-> g[d]] /\ g[{}] = base
      BY <1>5 DEF IsFold
    <2>3. QED
      BY <1>1, <2>1, <2>2
  <1>7. it = [d \in SUBSET (DOMAIN s) |->
                IF d = {} THEN base ELSE FormStep(it[d \ {Max(d)}], s[Max(d)])]
    BY <1>6
  <1> HIDE DEF it
  <1>8. PICK T : T = S \cup {it[d] : d \in SUBSET (1 .. n)}
    OBVIOUS
  <1>9. PICK G : G = [p \in (1 .. n) \X T |-> FormStep(p[2], s[p[1]])]
    OBVIOUS
  <1>10. ASSUME NEW i \in 1 .. n, NEW x \in S
         PROVE  G[<<i, x>>] = FormStep(x, s[i]) /\ G[<<i, x>>] \in S
    BY <1>4, <1>8, <1>9
  <1>11. it[{}] = base
    BY <1>7
  <1>12. ASSUME NEW d \in SUBSET (1 .. n), d # {}
         PROVE  it[d] = G[<<Max(d), it[d \ {Max(d)}]>>]
    <2>1. Max(d) \in 1 .. n
      BY <1>12, GreatestIs
    <2>2. it[d \ {Max(d)}] \in T
      BY <1>8
    <2>3. it[d] = FormStep(it[d \ {Max(d)}], s[Max(d)])
      BY <1>1, <1>7, <1>12
    <2>4. QED
      BY <1>9, <2>1, <2>2, <2>3
  <1>13. PICK r : IsRun(r, S, base, n, G) /\ r[n] = it[1 .. n]
    <2>1. base \in S /\ \A i \in 1 .. n, x \in S : G[<<i, x>>] \in S
      BY <1>3, <1>10
    <2>2. IsIter(it, base, n, G)
      BY <1>11, <1>12 DEF IsIter
    <2>3. ComesTo(S, base, n, G, it[1 .. n])
      BY <2>1, <2>2, FoldRuns
    <2>4. QED
      BY <2>3 DEF ComesTo
  <1>14. IsRun(r, FormStates, base, n, H)
    <2>1. ASSUME NEW i \in 1 .. n PROVE r[i] = H[<<i, r[i - 1]>>]
      <3>0. i - 1 \in 0 .. n
        OBVIOUS
      <3>1. r[i - 1] \in S /\ r[i] = G[<<i, r[i - 1]>>]
        BY <1>13, <3>0 DEF IsRun
      <3>2. QED
        BY <1>3, <1>10, <3>1
    <2>2. QED
      BY <1>3, <1>13, <2>1 DEF IsRun
  <1>15. QED
    BY <1>1, <1>2, <1>13, <1>14 DEF ComesTo

\* The decoder has read nothing, or one character more.
LEMMA FormFoldEmpty ==
  ASSUME NEW base \in FormStates
  PROVE  FoldLeft(FormStep, base, <<>>) = base
  <1>0. <<>> \in Seq(Chars)
    OBVIOUS
  <1>1. PICK s \in Seq(Chars) : s = <<>>
    BY <1>0
  <1>2. PICK n \in Nat : n = Len(s) /\ n = 0
    BY <1>1
  <1>3. PICK F : F = <<>>
    OBVIOUS
  <1>4. \A i \in 1 .. n, x \in FormStates : F[<<i, x>>] = FormStep(x, s[i])
    BY <1>2
  <1>5. PICK r : IsRun(r, FormStates, base, n, F) /\ FoldLeft(FormStep, base, s) = r[n]
    <2>1. ComesTo(FormStates, base, n, F, FoldLeft(FormStep, base, s))
      BY <1>2, <1>4, FormFold
    <2>2. QED
      BY <2>1 DEF ComesTo
  <1>6. QED
    BY <1>1, <1>2, <1>5 DEF IsRun

\* One character more is one step more.
LEMMA FormFoldAppend ==
  ASSUME NEW base \in FormStates, NEW s \in Seq(Chars), NEW c \in Chars
  PROVE  /\ FoldLeft(FormStep, base, s) \in FormStates
         /\ FoldLeft(FormStep, base, Append(s, c)) = FormStep(FoldLeft(FormStep, base, s), c)
  <1>1. PICK n \in Nat : n = Len(s)
    OBVIOUS
  <1>0. Append(s, c) \in Seq(Chars)
    OBVIOUS
  <1>2. PICK t \in Seq(Chars) : t = Append(s, c)
    BY <1>0
  <1>3. n + 1 = Len(t) /\ t[n + 1] = c /\ \A i \in 1 .. n : t[i] = s[i]
    BY <1>1, <1>2
  <1>4. PICK m \in Nat : m = n + 1 /\ m = Len(t)
    BY <1>3
  <1>5. PICK F : F = [p \in (1 .. m) \X FormStates |-> FormStep(p[2], t[p[1]])]
    OBVIOUS
  <1>6. \A i \in 1 .. m, x \in FormStates : F[<<i, x>>] = FormStep(x, t[i])
    BY <1>5
  <1>7. \A i \in 1 .. n, x \in FormStates : F[<<i, x>>] = FormStep(x, s[i])
    <2>1. \A i \in 1 .. n : i \in 1 .. m
      BY <1>4
    <2>2. QED
      BY <1>3, <1>6, <2>1
  <1>8. PICK r : IsRun(r, FormStates, base, n, F) /\ FoldLeft(FormStep, base, s) = r[n]
    <2>1. ComesTo(FormStates, base, n, F, FoldLeft(FormStep, base, s))
      BY <1>1, <1>7, FormFold
    <2>2. QED
      BY <2>1 DEF ComesTo
  <1>9. PICK q : IsRun(q, FormStates, base, m, F) /\ FoldLeft(FormStep, base, t) = q[m]
    <2>1. ComesTo(FormStates, base, m, F, FoldLeft(FormStep, base, t))
      BY <1>4, <1>6, FormFold
    <2>2. QED
      BY <2>1 DEF ComesTo
  <1>10. r[n] = q[n]
    BY <1>4, <1>8, <1>9, SameRun
  <1>11. r[n] \in FormStates /\ q[m - 1] \in FormStates /\ q[m] = F[<<m, q[m - 1]>>]
    BY <1>4, <1>8, <1>9 DEF IsRun
  <1>12. m \in 1 .. m /\ m - 1 = n /\ t[m] = c
    BY <1>3, <1>4
  <1>13. q[m] = FormStep(q[n], c)
    BY <1>6, <1>11, <1>12
  <1>14. QED
    BY <1>2, <1>8, <1>9, <1>10, <1>11, <1>13

\* Concatenation is associative.
Associates(a, b, c) == (a \o b) \o c = a \o (b \o c)

\* Joining is associative, of texts and of what is read.
LEMMA TextConcat ==
  ASSUME NEW A, NEW a \in Seq(A), NEW b \in Seq(A), NEW c \in Seq(A)
  PROVE  Associates(a, b, c)
  BY ConcatAssociative DEF Associates

\* Numbers, and characters, are put together in whatever order.
LEMMA NumberConcat ==
  ASSUME NEW a \in Seq(Nat), NEW b \in Seq(Nat), NEW c \in Seq(Nat)
  PROVE  Associates(a, b, c)
  <1>1. PICK A : A = Nat
    OBVIOUS
  <1>2. a \in Seq(A) /\ b \in Seq(A) /\ c \in Seq(A)
    BY <1>1
  <1>3. QED
    BY <1>2, TextConcat

LEMMA CharConcat ==
  ASSUME NEW a \in Seq(Chars), NEW b \in Seq(Chars), NEW c \in Seq(Chars)
  PROVE  Associates(a, b, c)
  BY TextConcat

\* t is read as the characters cs, whatever is before it.
Reads(t, cs) == t \in Seq(Nat) /\ cs \in Seq(Chars) /\ IsWhole(t) /\ Characters(t) = cs

\* An empty text.
LEMMA ReadsNothing == Reads(<<>>, <<>>)
  <1>1. <<>> \in Seq(Nat) /\ <<>> \in Seq(Chars) /\ Len(<<>>) = 0
    OBVIOUS
  <1>2. PICK s : s = <<>>
    OBVIOUS
  <1>3. PICK n \in Nat : n = Len(s) /\ n = 0
    BY <1>1, <1>2
  <1>4. PICK f : IsReading(f, s) /\ Characters(s) = f[1]
    BY <1>3, CharactersRead
  <1>5. f[1] = <<>>
    <2>1. 1 \in 1 .. Len(s) + 3 /\ 1 > Len(s)
      BY <1>3
    <2>2. QED
      BY <1>4, <2>1 DEF IsReading
  <1>6. IsWhole(s)
    BY <1>3 DEF IsWhole
  <1>7. QED
    BY <1>1, <1>2, <1>4, <1>5, <1>6 DEF Reads

\* A character or an escape, written before a text, is read before it.
LEMMA ReadsBlock ==
  ASSUME NEW b \in Seq(Nat), NEW t, NEW cs, Reads(t, cs), NEW c \in Chars, NEW u, u = b \o t,
         \/ Len(b) = 1 /\ b[1] # Percent
            /\ c = [code |-> IF b[1] = Plus THEN Space ELSE b[1], escape |-> <<>>]
         \/ Len(b) = 3 /\ b[1] = Percent /\ b[2] # Percent /\ b[3] # Percent
            /\ c = [code |-> HexValue(b[2], b[3]), escape |-> <<b[2], b[3]>>]
  PROVE  Reads(u, <<c>> \o cs)
  <1>1. t \in Seq(Nat) /\ cs \in Seq(Chars) /\ IsWhole(t) /\ Characters(t) = cs
    BY DEF Reads
  <1>2. PICK s \in Seq(Nat) : s = t
    BY <1>1
  <1>3. u \in Seq(Nat) /\ Len(u) = Len(b) + Len(s)
        /\ (\A i \in 1 .. Len(b) : u[i] = b[i]) /\ (\A i \in 1 .. Len(s) : u[Len(b) + i] = s[i])
    BY <1>2
  <1>4. PICK m \in Nat : m = Len(b)
    OBVIOUS
  <1>5. PICK n \in Nat : n = Len(s)
    OBVIOUS
  <1>6. Len(u) = m + n /\ Len(u) \in Nat
    BY <1>3, <1>4, <1>5
  <1>7. PICK f : IsReading(f, u) /\ Characters(u) = f[1]
    BY <1>6, CharactersRead
  <1>8. PICK g : IsReading(g, s) /\ Characters(s) = g[1]
    BY <1>5, CharactersRead
  <1>9. f[m + 1] = g[1]
    <2>1. u \in Seq(Nat) /\ u = b \o s /\ IsWhole(s)
      BY <1>1, <1>2, <1>3
    <2>2. PICK v \in Seq(Nat) : v = u /\ v = b \o s
      BY <2>1
    <2>3. IsReading(f, v)
      BY <1>7, <2>2
    <2>4. Follows(f, b, g)
      BY <1>8, <2>1, <2>2, <2>3, ReadOn
    <2>5. QED
      BY <1>4, <2>4 DEF Follows
  <1>10. u[1] = b[1] /\ m \in {1, 3} /\ (m = 3 => u[2] = b[2] /\ u[3] = b[3])
    BY <1>3, <1>4, SMTT(30)
  <1>11. CharAt(u, 1) = c /\ NextAt(u, 1) = m + 1
    <2>1. CASE m = 1
      <3>1. u[1] # Percent /\ c = [code |-> IF u[1] = Plus THEN Space ELSE u[1], escape |-> <<>>]
        BY <1>4, <1>10, <2>1
      <3>2. QED
        BY <2>1, <3>1 DEF CharAt, NextAt
    <2>2. CASE m = 3
      <3>0. b[1] = Percent /\ c = [code |-> HexValue(b[2], b[3]), escape |-> <<b[2], b[3]>>]
        <4>1. Len(b) # 1
          BY <1>4, <2>2
        <4>2. QED
          BY <4>1
      <3>1. u[1] = Percent /\ c = [code |-> HexValue(u[2], u[3]), escape |-> <<u[2], u[3]>>]
        BY <1>10, <2>2, <3>0
      <3>2. 1 + 1 = 2 /\ 1 + 2 = 3 /\ 1 + 3 = m + 1
        BY <2>2
      <3>3. QED
        BY <3>1, <3>2 DEF CharAt, NextAt
    <2>3. QED
      BY <1>10, <2>1, <2>2
  <1>12. f[1] = <<c>> \o cs
    <2>1. 1 \in 1 .. Len(u) + 3 /\ ~(1 > Len(u))
      BY <1>6, <1>10
    <2>2. f[1] = <<CharAt(u, 1)>> \o f[NextAt(u, 1)]
      BY <1>7, <2>1 DEF IsReading
    <2>3. QED
      BY <1>1, <1>2, <1>8, <1>9, <1>11, <2>2
  <1>13. IsWhole(u)
    <2>1. ASSUME NEW i \in 1 .. m + n, u[i] = Percent PROVE i + 2 <= m + n
      <3>1. CASE i <= m
        <4>1. i \in 1 .. m
          BY <3>1
        <4>2. b[i] = Percent
          BY <1>3, <1>4, <2>1, <4>1
        <4>3. m # 1
          <5>1. SUFFICES ASSUME m = 1 PROVE FALSE
            OBVIOUS
          <5>2. i = 1 /\ Len(b) = 1
            BY <1>4, <4>1, <5>1
          <5>3. b[1] # Percent
            BY <5>2
          <5>4. QED
            BY <4>2, <5>2, <5>3
        <4>4. m = 3
          BY <1>10, <4>3
        <4>5. b[2] # Percent /\ b[3] # Percent
          <5>1. Len(b) # 1
            BY <1>4, <4>4
          <5>2. QED
            BY <5>1
        <4>6. i \in {1, 2, 3}
          BY <4>1, <4>4
        <4>7. i = 1
          BY <4>2, <4>5, <4>6
        <4>8. QED
          BY <4>4, <4>7
      <3>2. CASE i > m
        <4>0. i - m \in 1 .. n
          BY <3>2
        <4>1. PICK j \in 1 .. n : j = i - m
          BY <4>0
        <4>2. m + j = i
          BY <4>1
        <4>3. s[j] = Percent
          BY <1>3, <1>4, <1>5, <2>1, <4>2
        <4>4. j + 2 <= n
          BY <1>1, <1>2, <1>5, <4>3 DEF IsWhole
        <4>5. QED
          BY <4>2, <4>4
      <3>3. QED
        BY <3>1, <3>2
    <2>2. QED
      BY <1>6, <2>1 DEF IsWhole
  <1>14. <<c>> \o cs \in Seq(Chars)
    BY <1>1
  <1>15. QED
    BY <1>3, <1>7, <1>12, <1>13, <1>14 DEF Reads

\* A separator, and what url_encode makes of a character.
LEMMA ReadsPlain ==
  ASSUME NEW c \in Nat, c # Percent, c # Plus, NEW t, NEW cs, Reads(t, cs)
  PROVE  Reads(<<c>> \o t, <<[code |-> c, escape |-> <<>>]>> \o cs)
  <1>0. <<c>> \in Seq(Nat)
    OBVIOUS
  <1>1. PICK b \in Seq(Nat) : b = <<c>>
    BY <1>0
  <1>2. Len(b) = 1 /\ b[1] = c
    BY <1>1
  <1>3. <<>> \in Seq(Nat)
    OBVIOUS
  <1>4. PICK d \in Chars : d = [code |-> c, escape |-> <<>>]
    BY <1>3 DEF Chars
  <1>5. PICK u : u = b \o t
    OBVIOUS
  <1>6. Reads(u, <<d>> \o cs)
    BY <1>2, <1>4, <1>5, ReadsBlock
  <1>7. QED
    BY <1>1, <1>4, <1>5, <1>6

\* What url_encode makes of a character is read as it.
LEMMA ReadsCode ==
  ASSUME NEW c \in Codes, NEW form \in BOOLEAN, NEW t, NEW cs, Reads(t, cs)
  PROVE  Reads(UrlCode(c, form) \o t, <<UrlChar(c, form)>> \o cs)
  <1>1. UrlCode(c, form) \in Seq(Nat) /\ UrlChar(c, form) \in Chars
    BY UrlCoded
  <1>2. PICK b \in Seq(Nat) : b = UrlCode(c, form)
    BY <1>1
  <1>3. PICK d \in Chars : d = UrlChar(c, form)
    BY <1>1
  <1>4. c \in Nat /\ Percent \in Nat
    BY DEF Codes, Percent
  <1>5. CASE c = Space /\ form
    <2>1. b = <<Plus>> /\ Plus # Percent
      BY <1>2, <1>5 DEF UrlCode, Plus, Percent
    <2>2. Len(b) = 1 /\ b[1] # Percent /\ d = [code |-> IF b[1] = Plus THEN Space ELSE b[1], escape |-> <<>>]
      BY <1>3, <1>5, <2>1 DEF UrlChar
    <2>3. PICK u : u = b \o t
      OBVIOUS
    <2>4. Reads(u, <<d>> \o cs)
      BY <2>2, <2>3, ReadsBlock
    <2>5. QED
      BY <1>2, <1>3, <2>3, <2>4
  <1>6. CASE ~(c = Space /\ form) /\ (c \in Alnum \/ (c = 46 /\ ~form))
    <2>1. b = <<c>> /\ d = [code |-> c, escape |-> <<>>]
      BY <1>2, <1>3, <1>6 DEF UrlCode, UrlChar
    <2>2. c # Percent /\ c # Plus
      <3>1. CASE c \in Alnum
        BY <3>1 DEF Alnum, Digits, Percent, Plus
      <3>2. CASE c = 46
        BY <3>2 DEF Percent, Plus
      <3>3. QED
        BY <1>6, <3>1, <3>2
    <2>3. QED
      BY <1>2, <1>3, <1>4, <2>1, <2>2, ReadsPlain
  <1>7. CASE ~(c = Space /\ form) /\ ~(c \in Alnum \/ (c = 46 /\ ~form))
    <2>1. PICK x \in Nat : x = HexChar(c \div 16) /\ x # Percent
      BY HexRead DEF Digits, LowerHex, Percent
    <2>2. PICK y \in Nat : y = HexChar(c % 16) /\ y # Percent
      BY HexRead DEF Digits, LowerHex, Percent
    <2>3. HexValue(x, y) = c
      BY <2>1, <2>2, HexRead
    <2>4. b = <<Percent, x, y>> /\ d = [code |-> c, escape |-> <<x, y>>]
      BY <1>2, <1>3, <1>7, <2>1, <2>2 DEF UrlCode, UrlChar
    <2>5. Len(b) = 3 /\ b[1] = Percent /\ b[2] = x /\ b[3] = y
      BY <2>4
    <2>6. Len(b) = 3 /\ b[1] = Percent /\ b[2] # Percent /\ b[3] # Percent
          /\ d = [code |-> HexValue(b[2], b[3]), escape |-> <<b[2], b[3]>>]
      BY <2>1, <2>2, <2>3, <2>4, <2>5
    <2>7. PICK u : u = b \o t
      OBVIOUS
    <2>8. Reads(u, <<d>> \o cs)
      BY <2>6, <2>7, ReadsBlock
    <2>9. QED
      BY <1>2, <1>3, <2>7, <2>8
  <1>8. QED
    BY <1>5, <1>6, <1>7

UrlChars(s, form) == [i \in DOMAIN s |-> UrlChar(s[i], form)]

\* What is read of a text that grows.
LEMMA UrlCharsAppend ==
  ASSUME NEW s \in Seq(Codes), NEW c \in Codes, NEW form \in BOOLEAN
  PROVE  /\ UrlChars(s, form) \in Seq(Chars) /\ Len(UrlChars(s, form)) = Len(s)
         /\ UrlChars(Append(s, c), form) = Append(UrlChars(s, form), UrlChar(c, form))
  <1>1. ASSUME NEW r \in Seq(Codes)
        PROVE  /\ UrlChars(r, form) \in Seq(Chars) /\ Len(UrlChars(r, form)) = Len(r)
               /\ \A i \in 1 .. Len(r) : UrlChars(r, form)[i] = UrlChar(r[i], form)
    <2>1. \A i \in 1 .. Len(r) : UrlChar(r[i], form) \in Chars
      <3>1. ASSUME NEW i \in 1 .. Len(r) PROVE UrlChar(r[i], form) \in Chars
        <4>1. r[i] \in Codes
          OBVIOUS
        <4>2. QED
          BY <4>1, UrlCoded
      <3>2. QED
        BY <3>1
    <2>2. UrlChars(r, form) = [i \in 1 .. Len(r) |-> UrlChar(r[i], form)]
      BY DEF UrlChars
    <2>3. QED
      BY <2>1, <2>2
  <1>1a. Append(s, c) \in Seq(Codes)
    OBVIOUS
  <1>2. PICK r \in Seq(Codes) : r = Append(s, c)
    BY <1>1a
  <1>3. Len(r) = Len(s) + 1 /\ r[Len(s) + 1] = c /\ \A i \in 1 .. Len(s) : r[i] = s[i]
    BY <1>2
  <1>4. PICK d \in Chars : d = UrlChar(c, form)
    BY UrlCoded
  <1>5. PICK u \in Seq(Chars) : u = UrlChars(s, form) /\ Len(u) = Len(s)
          /\ \A i \in 1 .. Len(s) : u[i] = UrlChar(s[i], form)
    BY <1>1
  <1>6. PICK v \in Seq(Chars) : v = UrlChars(r, form) /\ Len(v) = Len(s) + 1
          /\ \A i \in 1 .. Len(s) + 1 : v[i] = UrlChar(r[i], form)
    BY <1>1, <1>3
  <1>7. PICK n \in Nat : n = Len(s)
    OBVIOUS
  <1>7a. Append(u, d) \in Seq(Chars)
    OBVIOUS
  <1>8. PICK w \in Seq(Chars) : w = Append(u, d)
    BY <1>7a
  <1>9. Len(w) = n + 1 /\ w[n + 1] = d /\ \A i \in 1 .. n : w[i] = u[i]
    BY <1>5, <1>7, <1>8
  <1>10. \A i \in 1 .. n + 1 : v[i] = w[i]
    <2>1. ASSUME NEW i \in 1 .. n + 1 PROVE v[i] = w[i]
      <3>1. CASE i = n + 1
        BY <1>3, <1>4, <1>6, <1>7, <1>9, <3>1
      <3>2. CASE i # n + 1
        <4>1. i \in 1 .. n
          BY <3>2
        <4>2. QED
          BY <1>3, <1>5, <1>6, <1>7, <1>9, <4>1
      <3>3. QED
        BY <3>1, <3>2
    <2>2. QED
      BY <2>1
  <1>11. v = w
    BY <1>6, <1>7, <1>9, <1>10, SeqEqual
  <1>12. QED
    BY <1>2, <1>4, <1>5, <1>6, <1>8, <1>11

\* An encoded text is read as its characters.
LEMMA ReadsEncoded ==
  ASSUME NEW form \in BOOLEAN, NEW s \in Seq(Codes), NEW t, NEW cs, Reads(t, cs)
  PROVE  Reads(UrlEncode(s, form) \o t, UrlChars(s, form) \o cs)
  <1> DEFINE Good(r) == \A u, ds : Reads(u, ds) => Reads(UrlEncode(r, form) \o u, UrlChars(r, form) \o ds)
             T == {r \in Seq(Codes) : Good(r)}
  <1>1. 16 \in Codes /\ <<>> \in Seq(Codes)
    BY DEF Codes
  <1>2. <<>> \in T
    <2>1. UrlEncode(<<>>, form) = <<>>
      BY <1>1, UrlEncodeAppend
    <2>2. UrlChars(<<>>, form) = <<>>
      BY DEF UrlChars
    <2>3. ASSUME NEW u, NEW ds, Reads(u, ds) PROVE <<>> \o u = u /\ <<>> \o ds = ds
      <3>1. u \in Seq(Nat) /\ ds \in Seq(Chars)
        BY <2>3 DEF Reads
      <3>2. QED
        BY <3>1
    <2>4. QED
      BY <1>1, <2>1, <2>2, <2>3
  <1>3. ASSUME NEW r \in Seq(Codes), NEW c \in Codes, r \in T PROVE Append(r, c) \in T
    <2>1. Append(r, c) \in Seq(Codes)
      OBVIOUS
    <2>2. /\ UrlEncode(r, form) \in Seq(Nat)
          /\ UrlEncode(Append(r, c), form) = UrlEncode(r, form) \o UrlCode(c, form)
      BY UrlEncodeAppend
    <2>3. UrlChars(r, form) \in Seq(Chars)
          /\ UrlChars(Append(r, c), form) = Append(UrlChars(r, form), UrlChar(c, form))
      BY UrlCharsAppend
    <2>4. PICK e \in Seq(Nat) : e = UrlEncode(r, form)
      BY <2>2
    <2>5. PICK d \in Seq(Chars) : d = UrlChars(r, form)
      BY <2>3
    <2>6. PICK b \in Seq(Nat) : b = UrlCode(c, form)
      BY UrlCoded
    <2>7. PICK k \in Chars : k = UrlChar(c, form)
      BY UrlCoded
    <2>8. ASSUME NEW u, NEW ds, Reads(u, ds)
          PROVE  Reads(UrlEncode(Append(r, c), form) \o u, UrlChars(Append(r, c), form) \o ds)
      <3>1. u \in Seq(Nat) /\ ds \in Seq(Chars)
        BY <2>8 DEF Reads
      <3>2. Reads(b \o u, <<k>> \o ds)
        BY <2>6, <2>7, <2>8, ReadsCode
      <3>3. Reads(e \o (b \o u), d \o (<<k>> \o ds))
        BY <1>3, <2>4, <2>5, <3>2
      <3>4. e \o (b \o u) = (e \o b) \o u
        <4>1. PICK x \in Seq(Nat) : x = u
          BY <3>1
        <4>2. Associates(e, b, x)
          BY NumberConcat
        <4>3. QED
          BY <4>1, <4>2 DEF Associates
      <3>5. d \o (<<k>> \o ds) = Append(d, k) \o ds
        <4>1. <<k>> \in Seq(Chars) /\ Append(d, k) = d \o <<k>>
          OBVIOUS
        <4>2. PICK ks \in Seq(Chars) : ks = <<k>>
          BY <4>1
        <4>3. PICK x \in Seq(Chars) : x = ds
          BY <3>1
        <4>4. Associates(d, ks, x)
          BY CharConcat
        <4>5. QED
          BY <4>1, <4>2, <4>3, <4>4 DEF Associates
      <3>6. QED
        BY <2>2, <2>3, <2>4, <2>5, <2>6, <2>7, <3>3, <3>4, <3>5
    <2>9. QED
      BY <2>1, <2>8
  <1>4. s \in T
    <2> HIDE DEF T
    <2>1. \A r \in Seq(Codes), c \in Codes : r \in T => Append(r, c) \in T
      BY <1>3
    <2>2. QED
      BY <1>2, <2>1, AllTexts
  <1>5. QED
    BY <1>4

\* url_encode comes back through url_decode.
LEMMA UrlReturns ==
  ASSUME NEW form \in BOOLEAN, NEW s \in Seq(Codes)
  PROVE  UrlDecode(UrlEncode(s, form), FALSE) = s
  <1>1. PICK G : G = [d \in Codes |-> <<d>>]
    OBVIOUS
  <1>2. IsCode(G, Codes, Codes)
    BY <1>1 DEF IsCode
  <1> DEFINE T == {r \in Seq(Codes) : Coded(G, r) = r}
  <1>3. 16 \in Codes /\ <<>> \in Seq(Codes)
    BY DEF Codes
  <1>4. <<>> \in T
    BY <1>2, <1>3, CodedAppend
  <1>5. ASSUME NEW r \in Seq(Codes), NEW c \in Codes, r \in T PROVE Append(r, c) \in T
    <2>1. Coded(G, Append(r, c)) = Coded(G, r) \o G[c]
      BY <1>2, CodedAppend
    <2>2. r \o G[c] = Append(r, c) /\ Append(r, c) \in Seq(Codes)
      BY <1>1
    <2>3. QED
      BY <1>5, <2>1, <2>2
  <1>6. s \in T
    <2> HIDE DEF T
    <2>1. \A r \in Seq(Codes), c \in Codes : r \in T => Append(r, c) \in T
      BY <1>5
    <2>2. QED
      BY <1>4, <2>1, AllTexts
  <1>7. Reads(UrlEncode(s, form) \o <<>>, UrlChars(s, form) \o <<>>)
    BY ReadsNothing, ReadsEncoded
  <1>8. UrlEncode(s, form) \in Seq(Nat)
    BY <1>3, UrlEncodeAppend
  <1>9. UrlChars(s, form) \in Seq(Chars)
    BY <1>3, UrlCharsAppend
  <1>10. Characters(UrlEncode(s, form)) = UrlChars(s, form)
    <2>1. PICK e \in Seq(Nat) : e = UrlEncode(s, form)
      BY <1>8
    <2>2. PICK d \in Seq(Chars) : d = UrlChars(s, form)
      BY <1>9
    <2>3. e \o <<>> = e /\ d \o <<>> = d
      OBVIOUS
    <2>4. QED
      BY <1>7, <2>1, <2>2, <2>3 DEF Reads
  <1>11. DOMAIN UrlChars(s, form) = DOMAIN s /\ \A i \in DOMAIN s : UrlChars(s, form)[i].code = s[i]
    BY DEF UrlChars, UrlChar
  <1>12. \A i \in DOMAIN s : s[i] \in Codes
    OBVIOUS
  <1>13. [i \in DOMAIN UrlChars(s, form) |-> <<UrlChars(s, form)[i].code>>] = [i \in DOMAIN s |-> G[s[i]]]
    BY <1>1, <1>11, <1>12
  <1>14. UrlDecode(UrlEncode(s, form), FALSE)
          = FlattenSeq([i \in DOMAIN UrlChars(s, form) |-> <<UrlChars(s, form)[i].code>>])
    BY <1>10 DEF UrlDecode
  <1>15. QED
    BY <1>6, <1>13, <1>14 DEF Coded

-----------------------------------------------------------------------------
(* http_form::decode_and_parse. *)

\* What decode_and_parse has made of the first characters of a form.
FormStart == [isName |-> TRUE, name |-> <<>>, value |-> <<>>, fields |-> <<>>]
Formed(cs) == FoldLeft(FormStep, FormStart, cs)
FormAt(isName, name, value, entries) ==
  [isName |-> isName, name |-> name, value |-> value, fields |-> entries]

\* One character more.
LEMMA FormedOn ==
  ASSUME NEW cs \in Seq(Chars), NEW c \in Chars
  PROVE  /\ Formed(cs) \in FormStates
         /\ Formed(<<>>) = FormStart
         /\ Formed(Append(cs, c)) = FormStep(Formed(cs), c)
  <1>1. FormStart \in FormStates
    <2>1. <<>> \in Seq(Nat) /\ <<>> \in Seq(Entries)
      OBVIOUS
    <2>2. QED
      BY <2>1 DEF FormStart, FormStates
  <1>2. PICK base \in FormStates : base = FormStart
    BY <1>1
  <1>3. FoldLeft(FormStep, base, cs) \in FormStates
        /\ FoldLeft(FormStep, base, Append(cs, c)) = FormStep(FoldLeft(FormStep, base, cs), c)
    BY FormFoldAppend
  <1>4. FoldLeft(FormStep, base, <<>>) = base
    BY FormFoldEmpty
  <1>5. QED
    BY <1>2, <1>3, <1>4 DEF Formed

\* The form after cs has name, value and fields, and is in a name or in a value.
IsFormed(cs, isName, name, value, entries) ==
  /\ cs \in Seq(Chars) /\ name \in Seq(Nat) /\ value \in Seq(Nat) /\ isName \in BOOLEAN
  /\ Formed(cs) = FormAt(isName, name, value, entries)

\* The separators, and a character that is not one.
LEMMA FormEquals ==
  ASSUME NEW cs, NEW name, NEW value, NEW entries, IsFormed(cs, TRUE, name, value, entries)
  PROVE  IsFormed(Append(cs, [code |-> Equals, escape |-> <<>>]), FALSE, name, value, entries)
  <1>1. <<>> \in Seq(Nat) /\ Equals \in Nat
    BY DEF Equals
  <1>2. PICK c \in Chars : c = [code |-> Equals, escape |-> <<>>]
    BY <1>1 DEF Chars
  <1>3. PICK d \in Seq(Chars) : d = cs
    BY DEF IsFormed
  <1>4. Formed(Append(d, c)) = FormStep(Formed(d), c) /\ Append(d, c) \in Seq(Chars)
    BY FormedOn
  <1>5. PICK st : st = FormAt(TRUE, name, value, entries)
    OBVIOUS
  <1>6. c.escape = <<>> /\ c.code = Equals
    BY <1>2
  <1>7. FormStep(st, c) = [st EXCEPT !.isName = FALSE]
    <2>1. PICK l : l = [st EXCEPT !.isName = FALSE]
      OBVIOUS
    <2>2. FormStep(st, c) =
            CASE c.escape = <<>> /\ c.code = Equals -> l
              [] c.escape = <<>> /\ c.code = Amp    ->
                   [isName |-> TRUE, name |-> <<>>, value |-> <<>>,
                    fields |-> Insert(st.fields, st.name, st.value)]
              [] OTHER -> IF st.isName THEN [st EXCEPT !.name = Append(@, c.code)]
                          ELSE [st EXCEPT !.value = Append(@, c.code)]
      BY <2>1, Zenon DEF FormStep
    <2>3. c.code # Amp
      BY <1>6 DEF Equals, Amp
    <2>4. QED
      BY <1>6, <2>1, <2>2, <2>3
  <1>8. [st EXCEPT !.isName = FALSE] = FormAt(FALSE, name, value, entries)
    <2>1. PICK no : no = FALSE
      OBVIOUS
    <2>2. [st EXCEPT !.isName = no] = FormAt(no, name, value, entries)
      BY <1>5 DEF FormAt
    <2>3. QED
      BY <2>1, <2>2, Zenon
  <1>9. QED
    BY <1>2, <1>3, <1>4, <1>5, <1>7, <1>8 DEF IsFormed

\* A '&' ends a field.
LEMMA FormAmp ==
  ASSUME NEW cs, NEW name, NEW value, NEW entries, IsFormed(cs, FALSE, name, value, entries)
  PROVE  IsFormed(Append(cs, [code |-> Amp, escape |-> <<>>]), TRUE, <<>>, <<>>,
                  Insert(entries, name, value))
  <1>1. <<>> \in Seq(Nat) /\ Amp \in Nat
    BY DEF Amp
  <1>2. PICK c \in Chars : c = [code |-> Amp, escape |-> <<>>]
    BY <1>1 DEF Chars
  <1>3. PICK d \in Seq(Chars) : d = cs
    BY DEF IsFormed
  <1>4. Formed(Append(d, c)) = FormStep(Formed(d), c) /\ Append(d, c) \in Seq(Chars)
    BY FormedOn
  <1>5. PICK st : st = FormAt(FALSE, name, value, entries)
    OBVIOUS
  <1>6. c.escape = <<>> /\ c.code = Amp /\ c.code # Equals
    BY <1>2 DEF Amp, Equals
  <1>7. FormStep(st, c) = FormAt(TRUE, <<>>, <<>>, Insert(st.fields, st.name, st.value))
    BY <1>6 DEF FormStep, FormAt
  <1>8. st.fields = entries /\ st.name = name /\ st.value = value
    BY <1>5 DEF FormAt
  <1>9. QED
    BY <1>1, <1>2, <1>3, <1>4, <1>5, <1>7, <1>8 DEF IsFormed

\* Any other character, or one that was escaped, belongs to the name or the value.
LEMMA FormCode ==
  ASSUME NEW cs, NEW isName, NEW name, NEW value, NEW entries, NEW form \in BOOLEAN,
         IsFormed(cs, isName, name, value, entries), NEW c \in Codes
  PROVE  IsFormed(Append(cs, UrlChar(c, form)), isName,
                  IF isName THEN Append(name, c) ELSE name,
                  IF isName THEN value ELSE Append(value, c), entries)
  <1>1. PICK k \in Chars : k = UrlChar(c, form)
    BY UrlCoded
  <1>2. k.code = c /\ (k.escape = <<>> => c # Equals /\ c # Amp)
    <2>1. k.code = c
      BY <1>1 DEF UrlChar
    <2>2. CASE c = Space /\ form
      BY <2>1, <2>2 DEF Space, Equals, Amp
    <2>3. CASE c \in Alnum
      <3>1. c # 61 /\ c # 38
        BY <2>3 DEF Alnum, Digits
      <3>2. QED
        BY <2>1, <3>1 DEF Equals, Amp
    <2>4. CASE c = 46
      BY <2>1, <2>4 DEF Equals, Amp
    <2>5. CASE ~(c = Space /\ form) /\ c \notin Alnum /\ c # 46
      <3>1. PICK x : x = HexChar(c \div 16)
        OBVIOUS
      <3>2. PICK y : y = HexChar(c % 16)
        OBVIOUS
      <3>3. k.escape = <<x, y>>
        BY <1>1, <2>5, <3>1, <3>2 DEF UrlChar
      <3>4. <<x, y>> # <<>>
        OBVIOUS
      <3>5. QED
        BY <2>1, <3>3, <3>4
    <2>6. QED
      BY <2>2, <2>3, <2>4, <2>5
  <1>3. PICK d \in Seq(Chars) : d = cs
    BY DEF IsFormed
  <1>4. Formed(Append(d, k)) = FormStep(Formed(d), k) /\ Append(d, k) \in Seq(Chars)
    BY FormedOn
  <1>5. PICK st : st = FormAt(isName, name, value, entries)
    OBVIOUS
  <1>6. ~(k.escape = <<>> /\ k.code = Equals) /\ ~(k.escape = <<>> /\ k.code = Amp)
    BY <1>2
  <1>7. c \in Nat /\ name \in Seq(Nat) /\ value \in Seq(Nat) /\ isName \in BOOLEAN
    BY DEF Codes, IsFormed
  <1>8. CASE isName = TRUE
    <2>1. FormStep(st, k) = [st EXCEPT !.name = Append(st.name, c)]
      <3>1. st.isName
        BY <1>5, <1>8 DEF FormAt
      <3>2. QED
        BY <1>2, <1>6, <3>1 DEF FormStep
    <2>2. PICK l : l = Append(name, c)
      OBVIOUS
    <2>3. [st EXCEPT !.name = l] = FormAt(isName, l, value, entries) /\ st.name = name
      BY <1>5 DEF FormAt
    <2>4. l \in Seq(Nat)
      BY <1>7, <2>2
    <2>5. QED
      BY <1>1, <1>3, <1>4, <1>5, <1>7, <1>8, <2>1, <2>2, <2>3, <2>4 DEF IsFormed
  <1>9. CASE isName = FALSE
    <2>1. FormStep(st, k) = [st EXCEPT !.value = Append(st.value, c)]
      <3>1. ~st.isName
        BY <1>5, <1>9 DEF FormAt
      <3>2. QED
        BY <1>2, <1>6, <3>1 DEF FormStep
    <2>2. PICK l : l = Append(value, c)
      OBVIOUS
    <2>3. [st EXCEPT !.value = l] = FormAt(isName, name, l, entries) /\ st.value = value
      BY <1>5 DEF FormAt
    <2>4. l \in Seq(Nat)
      BY <1>7, <2>2
    <2>5. QED
      BY <1>1, <1>3, <1>4, <1>5, <1>7, <1>9, <2>1, <2>2, <2>3, <2>4 DEF IsFormed
  <1>10. QED
    BY <1>7, <1>8, <1>9

\* An encoded text is taken whole, as a name or as a value.
LEMMA FormText ==
  ASSUME NEW cs, NEW isName, NEW entries, NEW name, NEW form \in BOOLEAN, NEW s \in Seq(Codes),
         IsFormed(cs, isName, name, <<>>, entries), isName => name = <<>>
  PROVE  IsFormed(cs \o UrlChars(s, form), isName, IF isName THEN s ELSE name,
                  IF isName THEN <<>> ELSE s, entries)
  <1> DEFINE Good(r) == IsFormed(cs \o UrlChars(r, form), isName, IF isName THEN r ELSE name,
                                 IF isName THEN <<>> ELSE r, entries)
             T == {r \in Seq(Codes) : Good(r)}
  <1>1. cs \in Seq(Chars)
    BY DEF IsFormed
  <1>2. <<>> \in T
    <2>1. UrlChars(<<>>, form) = <<>> /\ <<>> \in Seq(Codes)
      BY DEF UrlChars
    <2>2. cs \o <<>> = cs
      BY <1>1
    <2>3. QED
      BY <2>1, <2>2
  <1>3. ASSUME NEW r \in Seq(Codes), NEW c \in Codes, r \in T PROVE Append(r, c) \in T
    <2>1. UrlChars(r, form) \in Seq(Chars)
          /\ UrlChars(Append(r, c), form) = Append(UrlChars(r, form), UrlChar(c, form))
      BY UrlCharsAppend
    <2>2. PICK k \in Chars : k = UrlChar(c, form)
      BY UrlCoded
    <2>3. PICK u \in Seq(Chars) : u = UrlChars(r, form)
      BY <2>1
    <2>4. cs \o Append(u, k) = Append(cs \o u, k)
      BY <1>1
    <2>5. IsFormed(Append(cs \o u, k), isName,
                   IF isName THEN Append(IF isName THEN r ELSE name, c) ELSE IF isName THEN r ELSE name,
                   IF isName THEN IF isName THEN <<>> ELSE r ELSE Append(IF isName THEN <<>> ELSE r, c),
                   entries)
      <3>1. PICK v : v = cs \o u
        OBVIOUS
      <3>2. PICK n : n = IF isName THEN r ELSE name
        OBVIOUS
      <3>3. PICK w : w = IF isName THEN <<>> ELSE r
        OBVIOUS
      <3>4. IsFormed(v, isName, n, w, entries)
        BY <1>3, <2>3, <3>1, <3>2, <3>3
      <3>5. IsFormed(Append(v, k), isName, IF isName THEN Append(n, c) ELSE n,
                     IF isName THEN w ELSE Append(w, c), entries)
        BY <2>2, <3>4, FormCode
      <3>6. QED
        BY <3>1, <3>2, <3>3, <3>5
    <2>6. Append(r, c) \in Seq(Codes)
      OBVIOUS
    <2>7. isName \in BOOLEAN
      BY DEF IsFormed
    <2>8. Good(Append(r, c))
      <3>1. CASE isName = TRUE
        BY <2>1, <2>2, <2>3, <2>4, <2>5, <3>1
      <3>2. CASE isName = FALSE
        BY <2>1, <2>2, <2>3, <2>4, <2>5, <3>2
      <3>3. QED
        BY <2>7, <3>1, <3>2
    <2>9. QED
      BY <2>6, <2>8
  <1>4. s \in T
    <2> HIDE DEF T
    <2>1. \A r \in Seq(Codes), c \in Codes : r \in T => Append(r, c) \in T
      BY <1>3
    <2>2. QED
      BY <1>2, <2>1, AllTexts
  <1>5. QED
    BY <1>4

\* A name and a value, encoded in one of the two ways.
PairOf(n, v, form) == UrlEncode(n, form) \o <<Equals>> \o UrlEncode(v, form)
PairChars(n, v, form) ==
  UrlChars(n, form) \o <<[code |-> Equals, escape |-> <<>>]>> \o UrlChars(v, form)

\* What is written is text.
LEMMA EncodedTyped ==
  ASSUME NEW s \in Seq(Codes), NEW form \in BOOLEAN
  PROVE  UrlEncode(s, form) \in Seq(Nat) /\ UrlChars(s, form) \in Seq(Chars)
  <1>1. 16 \in Codes
    BY DEF Codes
  <1>2. QED
    BY <1>1, UrlEncodeAppend, UrlCharsAppend

\* The two separators as they are read.
LEMMA SeparatorChars ==
  ASSUME NEW c \in Nat
  PROVE  [code |-> c, escape |-> <<>>] \in Chars
  <1>1. <<>> \in Seq(Nat)
    OBVIOUS
  <1>2. QED
    BY <1>1 DEF Chars

\* A name and its value, as a form reads them.
LEMMA PairReads ==
  ASSUME NEW n \in Seq(Codes), NEW v \in Seq(Codes), NEW form \in BOOLEAN, NEW t, NEW cs, Reads(t, cs)
  PROVE  /\ PairOf(n, v, form) \in Seq(Nat) /\ PairChars(n, v, form) \in Seq(Chars)
         /\ Reads(PairOf(n, v, form) \o t, PairChars(n, v, form) \o cs)
  <1>1. PICK q \in Seq(Nat) : q = t
    BY DEF Reads
  <1>2. PICK ds \in Seq(Chars) : ds = cs
    BY DEF Reads
  <1>3. PICK e1 \in Seq(Nat) : e1 = UrlEncode(n, form)
    BY EncodedTyped
  <1>4. PICK e2 \in Seq(Nat) : e2 = UrlEncode(v, form)
    BY EncodedTyped
  <1>5. PICK d1 \in Seq(Chars) : d1 = UrlChars(n, form)
    BY EncodedTyped
  <1>6. PICK d2 \in Seq(Chars) : d2 = UrlChars(v, form)
    BY EncodedTyped
  <1>7. Equals \in Nat /\ Equals # Percent /\ Equals # Plus
    BY DEF Equals, Percent, Plus
  <1>8. PICK x : x = [code |-> Equals, escape |-> <<>>]
    OBVIOUS
  <1>9. x \in Chars
    BY <1>7, <1>8, SeparatorChars
  <1>10. <<Equals>> \in Seq(Nat) /\ <<x>> \in Seq(Chars)
    BY <1>7, <1>9
  <1>11. PICK w \in Seq(Nat) : w = <<Equals>>
    BY <1>10
  <1>12. PICK ws \in Seq(Chars) : ws = <<x>>
    BY <1>10
  <1>13. Reads(e2 \o q, d2 \o ds)
    BY <1>1, <1>2, <1>4, <1>6, ReadsEncoded
  <1>14. Reads(w \o (e2 \o q), ws \o (d2 \o ds))
    BY <1>7, <1>8, <1>11, <1>12, <1>13, ReadsPlain
  <1>15. Reads(e1 \o (w \o (e2 \o q)), d1 \o (ws \o (d2 \o ds)))
    BY <1>3, <1>5, <1>14, ReadsEncoded
  <1>16. e1 \o (w \o (e2 \o q)) = ((e1 \o w) \o e2) \o q /\ (e1 \o w) \o e2 \in Seq(Nat)
    <2>1. e2 \o q \in Seq(Nat) /\ e1 \o w \in Seq(Nat)
      OBVIOUS
    <2>2. PICK m \in Seq(Nat) : m = e2 \o q
      BY <2>1
    <2>3. PICK p \in Seq(Nat) : p = e1 \o w
      BY <2>1
    <2>4. Associates(e1, w, m)
      BY NumberConcat
    <2>5. Associates(p, e2, q)
      BY NumberConcat
    <2>6. p \o e2 \in Seq(Nat)
      OBVIOUS
    <2>7. QED
      BY <2>2, <2>3, <2>4, <2>5, <2>6 DEF Associates
  <1>17. d1 \o (ws \o (d2 \o ds)) = ((d1 \o ws) \o d2) \o ds /\ (d1 \o ws) \o d2 \in Seq(Chars)
    <2>1. d2 \o ds \in Seq(Chars) /\ d1 \o ws \in Seq(Chars)
      OBVIOUS
    <2>2. PICK m \in Seq(Chars) : m = d2 \o ds
      BY <2>1
    <2>3. PICK p \in Seq(Chars) : p = d1 \o ws
      BY <2>1
    <2>4. Associates(d1, ws, m)
      BY CharConcat
    <2>5. Associates(p, d2, ds)
      BY CharConcat
    <2>6. p \o d2 \in Seq(Chars)
      OBVIOUS
    <2>7. QED
      BY <2>2, <2>3, <2>4, <2>5, <2>6 DEF Associates
  <1>18. PairOf(n, v, form) = (e1 \o w) \o e2
    BY <1>3, <1>4, <1>11 DEF PairOf
  <1>19. PairChars(n, v, form) = (d1 \o ws) \o d2
    BY <1>5, <1>6, <1>8, <1>12 DEF PairChars
  <1>20. QED
    BY <1>1, <1>2, <1>15, <1>16, <1>17, <1>18, <1>19

\* They make a field.
LEMMA PairFormed ==
  ASSUME NEW n \in Seq(Codes), NEW v \in Seq(Codes), NEW form \in BOOLEAN, NEW cs, NEW entries,
         IsFormed(cs, TRUE, <<>>, <<>>, entries)
  PROVE  IsFormed(cs \o PairChars(n, v, form), FALSE, n, v, entries)
  <1>1. PICK ds \in Seq(Chars) : ds = cs
    BY DEF IsFormed
  <1>2. PICK d1 \in Seq(Chars) : d1 = UrlChars(n, form)
    BY EncodedTyped
  <1>3. PICK d2 \in Seq(Chars) : d2 = UrlChars(v, form)
    BY EncodedTyped
  <1>4. PICK x : x = [code |-> Equals, escape |-> <<>>]
    OBVIOUS
  <1>5. x \in Chars
    <2>1. Equals \in Nat
      BY DEF Equals
    <2>2. QED
      BY <1>4, <2>1, SeparatorChars
  <1>6. IsFormed(ds \o d1, TRUE, n, <<>>, entries)
    <2>1. IsFormed(cs \o UrlChars(n, form), TRUE, IF TRUE THEN n ELSE <<>>, IF TRUE THEN <<>> ELSE n, entries)
      BY FormText
    <2>2. QED
      BY <1>1, <1>2, <2>1
  <1>7. IsFormed(Append(ds \o d1, x), FALSE, n, <<>>, entries)
    BY <1>4, <1>6, FormEquals
  <1>8. IsFormed(Append(ds \o d1, x) \o d2, FALSE, n, v, entries)
    <2>1. PICK y : y = Append(ds \o d1, x)
      OBVIOUS
    <2>2. IsFormed(y \o UrlChars(v, form), FALSE, IF FALSE THEN v ELSE n, IF FALSE THEN <<>> ELSE v, entries)
      BY <1>7, <2>1, FormText
    <2>3. QED
      BY <1>3, <2>1, <2>2
  <1>9. Append(ds \o d1, x) \o d2 = ds \o ((d1 \o <<x>>) \o d2)
    <2>1. ds \o d1 \in Seq(Chars) /\ <<x>> \in Seq(Chars) /\ d1 \o <<x>> \in Seq(Chars)
      BY <1>5
    <2>2. PICK ws \in Seq(Chars) : ws = <<x>>
      BY <2>1
    <2>3. PICK p \in Seq(Chars) : p = ds \o d1
      BY <2>1
    <2>4. PICK m \in Seq(Chars) : m = d1 \o ws
      BY <2>1, <2>2
    <2>5. Append(p, x) = p \o ws
      BY <1>5, <2>2
    <2>6. Associates(ds, d1, ws)
      BY CharConcat
    <2>7. Associates(ds, m, d2)
      BY CharConcat
    <2>8. QED
      BY <2>2, <2>3, <2>4, <2>5, <2>6, <2>7 DEF Associates
  <1>10. PairChars(n, v, form) = (d1 \o <<x>>) \o d2
    BY <1>2, <1>3, <1>4 DEF PairChars
  <1>11. QED
    BY <1>1, <1>8, <1>9, <1>10

\* Two pairs make two entries.
LEMMA TwoPairs ==
  ASSUME NEW n \in Seq(Codes), NEW v \in Seq(Codes), NEW m \in Seq(Codes), NEW w \in Seq(Codes),
         NEW form \in BOOLEAN
  PROVE  FormDecode(PairOf(n, v, form) \o <<Amp>> \o PairOf(m, w, form))
           = [ok |-> TRUE, fields |-> Insert(Insert(<<>>, n, v), m, w)]
  <1>1. PICK p \in Seq(Nat) : p = PairOf(n, v, form)
    BY ReadsNothing, PairReads
  <1>2. PICK q \in Seq(Nat) : q = PairOf(m, w, form)
    BY ReadsNothing, PairReads
  <1>3. PICK ps \in Seq(Chars) : ps = PairChars(n, v, form)
    BY ReadsNothing, PairReads
  <1>4. PICK qs \in Seq(Chars) : qs = PairChars(m, w, form)
    BY ReadsNothing, PairReads
  <1>5. PICK x : x = [code |-> Amp, escape |-> <<>>]
    OBVIOUS
  <1>6. Amp \in Nat /\ Amp # Percent /\ Amp # Plus
    BY DEF Amp, Percent, Plus
  <1>7. x \in Chars
    BY <1>5, <1>6, SeparatorChars
  <1>8. Reads(q \o <<>>, qs \o <<>>)
    BY <1>2, <1>4, ReadsNothing, PairReads
  <1>9. q \o <<>> = q /\ qs \o <<>> = qs
    OBVIOUS
  <1>10. Reads(<<Amp>> \o q, <<x>> \o qs)
    BY <1>5, <1>6, <1>8, <1>9, ReadsPlain
  <1>11. Reads(p \o (<<Amp>> \o q), ps \o (<<x>> \o qs))
    BY <1>1, <1>3, <1>10, PairReads
  <1>12. p \o (<<Amp>> \o q) = (p \o <<Amp>>) \o q
    <2>1. <<Amp>> \in Seq(Nat)
      BY <1>6
    <2>2. PICK a \in Seq(Nat) : a = <<Amp>>
      BY <2>1
    <2>3. Associates(p, a, q)
      BY NumberConcat
    <2>4. QED
      BY <2>2, <2>3 DEF Associates
  <1>13. ps \o (<<x>> \o qs) = Append(ps, x) \o qs
    <2>1. <<x>> \in Seq(Chars) /\ Append(ps, x) = ps \o <<x>>
      BY <1>7
    <2>2. PICK a \in Seq(Chars) : a = <<x>>
      BY <2>1
    <2>3. Associates(ps, a, qs)
      BY CharConcat
    <2>4. QED
      BY <2>1, <2>2, <2>3 DEF Associates
  <1>14. IsFormed(<<>>, TRUE, <<>>, <<>>, <<>>)
    <2>1. <<>> \in Seq(Chars) /\ <<>> \in Seq(Nat)
      OBVIOUS
    <2>2. Formed(<<>>) = FormStart
      BY <1>7, <2>1, FormedOn
    <2>3. FormStart = FormAt(TRUE, <<>>, <<>>, <<>>)
      BY DEF FormStart, FormAt
    <2>4. QED
      BY <2>1, <2>2, <2>3 DEF IsFormed
  <1>15. IsFormed(ps, FALSE, n, v, <<>>)
    <2>1. IsFormed(<<>> \o PairChars(n, v, form), FALSE, n, v, <<>>)
      BY <1>14, PairFormed
    <2>2. <<>> \o ps = ps
      OBVIOUS
    <2>3. QED
      BY <1>3, <2>1, <2>2
  <1>16. IsFormed(Append(ps, x), TRUE, <<>>, <<>>, Insert(<<>>, n, v))
    BY <1>5, <1>15, FormAmp
  <1>17. IsFormed(Append(ps, x) \o qs, FALSE, m, w, Insert(<<>>, n, v))
    BY <1>4, <1>16, PairFormed
  <1>18. PICK t : t = PairOf(n, v, form) \o <<Amp>> \o PairOf(m, w, form)
    OBVIOUS
  <1>19. Characters(t) = Append(ps, x) \o qs
    BY <1>1, <1>2, <1>11, <1>12, <1>13, <1>18 DEF Reads
  <1>20. PICK end : end = Formed(Characters(t))
    OBVIOUS
  <1>21. end = FormAt(FALSE, m, w, Insert(<<>>, n, v))
    BY <1>17, <1>19, <1>20 DEF IsFormed
  <1>22. FormDecode(t) = [ok |-> ~end.isName,
                          fields |-> IF end.isName THEN end.fields
                                     ELSE Insert(end.fields, end.name, end.value)]
    BY <1>20 DEF FormDecode, Formed, FormStart
  <1>23. ~end.isName /\ end.fields = Insert(<<>>, n, v) /\ end.name = m /\ end.value = w
    BY <1>21 DEF FormAt
  <1>24. QED
    BY <1>18, <1>22, <1>23

-----------------------------------------------------------------------------
(* The cookies of a request. *)

\* split_char at the first separator.
LEMMA Split ==
  ASSUME NEW c \in Nat, NEW p \in Seq(Nat), NEW s \in Seq(Nat), \A i \in 1 .. Len(p) : p[i] # c,
         NEW t, t = p \o (<<c>> \o s)
  PROVE  Before(t, c) = p /\ After(t, c) = s
  <1>1. PICK n \in Nat : n = Len(p)
    OBVIOUS
  <1>2. PICK m \in Nat : m = Len(s)
    OBVIOUS
  <1>3. <<c>> \o s \in Seq(Nat) /\ Len(<<c>> \o s) = m + 1 /\ (<<c>> \o s)[1] = c
        /\ \A i \in 1 .. m : (<<c>> \o s)[i + 1] = s[i]
    BY <1>2
  <1>4. PICK u \in Seq(Nat) : u = <<c>> \o s
    BY <1>3
  <1>5. /\ t \in Seq(Nat) /\ Len(t) = n + m + 1
        /\ \A i \in 1 .. n : t[i] = p[i]
        /\ \A i \in 1 .. m + 1 : t[n + i] = u[i]
    <2>1. t = p \o u /\ Len(u) = m + 1
      BY <1>3, <1>4
    <2>1a. p \o u \in Seq(Nat)
      OBVIOUS
    <2>2. PICK v \in Seq(Nat) : v = p \o u
      BY <2>1a
    <2>3. Len(v) = Len(p) + Len(u) /\ (\A i \in 1 .. Len(p) : v[i] = p[i])
          /\ \A i \in 1 .. Len(u) : v[Len(p) + i] = u[i]
      BY <2>2
    <2>4. QED
      BY <1>1, <1>2, <2>1, <2>2, <2>3, SMTT(30)
  <1>6. t[n + 1] = c /\ \A i \in 1 .. m : t[n + 1 + i] = s[i]
    <2>1. ASSUME NEW i \in 1 .. m PROVE t[n + 1 + i] = s[i]
      <3>1. i + 1 \in 1 .. m + 1
        OBVIOUS
      <3>2. n + (i + 1) = n + 1 + i
        OBVIOUS
      <3>3. QED
        BY <1>3, <1>4, <1>5, <3>1, <3>2
    <2>2. 1 \in 1 .. m + 1
      OBVIOUS
    <2>3. QED
      BY <1>3, <1>4, <1>5, <2>1, <2>2
  <1>7. PICK I : I = {i \in 1 .. Len(t) : t[i] = c}
    OBVIOUS
  <1>8. n + 1 \in I /\ \A i \in I : n + 1 <= i
    <2>1. n + 1 \in 1 .. Len(t)
      BY <1>5
    <2>2. ASSUME NEW i \in I, ~(n + 1 <= i) PROVE FALSE
      <3>1. i \in 1 .. n
        BY <1>7, <1>5, <2>2
      <3>2. t[i] = p[i] /\ p[i] # c
        BY <1>1, <1>5, <3>1
      <3>3. QED
        BY <1>7, <3>2
    <2>3. QED
      BY <1>6, <1>7, <2>1, <2>2
  <1>9. Min(I) = n + 1
    <2>1. I \in SUBSET Nat
      BY <1>7
    <2>2. PICK x : x = CHOOSE z \in I : \A y \in I : z <= y
      OBVIOUS
    <2>3. x \in I /\ \A y \in I : x <= y
      BY <1>8, <2>2
    <2>4. x = n + 1
      BY <1>8, <2>1, <2>3
    <2>5. QED
      BY <2>2, <2>4 DEF Min
  <1>10. (IF I # {} THEN Min(I) ELSE 0) = n + 1
    BY <1>8, <1>9
  <1>11. Before(t, c) = SubSeq(t, 1, n) /\ After(t, c) = SubSeq(t, n + 2, n + m + 1)
    <2>1. PICK k : k = IF I # {} THEN Min(I) ELSE 0
      OBVIOUS
    <2>2. Before(t, c) = SubSeq(t, 1, k - 1) /\ After(t, c) = SubSeq(t, k + 1, Len(t))
      BY <1>7, <2>1 DEF Before, After, SelectInSeq
    <2>2a. k = n + 1
      BY <1>10, <2>1
    <2>3. k - 1 = n /\ k + 1 = n + 2
      BY <2>2a
    <2>4. QED
      BY <1>5, <2>2, <2>3
  <1>12. SubSeq(t, 1, n) = p
    <2>0. SubSeq(t, 1, n) \in Seq(Nat) /\ Len(SubSeq(t, 1, n)) = n
          /\ \A i \in 1 .. n : SubSeq(t, 1, n)[i] = t[i]
      <3>1. \A i \in 1 .. n : t[i] \in Nat
        BY <1>5, SMTT(30)
      <3>2. PICK d \in Seq(Nat) : d = t
        BY <1>5
      <3>3. n \in 0 .. Len(d)
        BY <1>5, <3>2
      <3>4. SubSeq(d, 1, n) \in Seq(Nat) /\ Len(SubSeq(d, 1, n)) = n
            /\ \A i \in 1 .. n : SubSeq(d, 1, n)[i] = d[i]
        BY <3>3, SMTT(30)
      <3>5. QED
        BY <3>2, <3>4
    <2>1. PICK q \in Seq(Nat) : q = SubSeq(t, 1, n) /\ Len(q) = n /\ \A i \in 1 .. n : q[i] = t[i]
      BY <2>0
    <2>2. \A i \in 1 .. n : q[i] = p[i]
      BY <1>5, <2>1
    <2>3. QED
      BY <1>1, <2>1, <2>2, SeqEqual
  <1>13. SubSeq(t, n + 2, n + m + 1) = s
    <2>0. SubSeq(t, n + 2, n + m + 1) \in Seq(Nat) /\ Len(SubSeq(t, n + 2, n + m + 1)) = m
          /\ \A i \in 1 .. m : SubSeq(t, n + 2, n + m + 1)[i] = t[n + 1 + i]
      <3>1. PICK d \in Seq(Nat) : d = t /\ Len(d) = n + m + 1
        BY <1>5
      <3>2. PICK l \in Nat : l = n + 2
        OBVIOUS
      <3>3. PICK r \in Nat : r = n + m + 1
        OBVIOUS
      <3>4. l \in 1 .. Len(d) + 1 /\ r \in 0 .. Len(d) /\ r - l + 1 = m
        BY <3>1, <3>2, <3>3
      <3>5. SubSeq(d, l, r) \in Seq(Nat) /\ Len(SubSeq(d, l, r)) = m
            /\ \A i \in 1 .. m : SubSeq(d, l, r)[i] = d[l + i - 1]
        BY <3>4, SMTT(30)
      <3>6. \A i \in 1 .. m : l + i - 1 = n + 1 + i
        BY <3>2
      <3>7. QED
        BY <3>1, <3>2, <3>3, <3>5, <3>6
    <2>1. PICK q \in Seq(Nat) : q = SubSeq(t, n + 2, n + m + 1) /\ Len(q) = m
                                /\ \A i \in 1 .. m : q[i] = t[n + 1 + i]
      BY <2>0
    <2>2. \A i \in 1 .. m : q[i] = s[i]
      BY <1>6, <2>1
    <2>3. QED
      BY <1>2, <2>1, <2>2, SeqEqual
  <1>14. QED
    BY <1>11, <1>12, <1>13

\* What url_encode writes has no separator of cookies in it.
Written == Nat \ {Semicolon, Space}

\* What url_encode writes has neither separator of cookies in it.
LEMMA UrlWritten ==
  ASSUME NEW s \in Seq(Codes), NEW form \in BOOLEAN
  PROVE  UrlEncode(s, form) \in Seq(Written)
  <1>1. ASSUME NEW c \in Codes PROVE UrlCode(c, form) \in Seq(Written)
    <2>1. PICK A : A = Written
      OBVIOUS
    <2>2. Plus \in A /\ Percent \in A
      BY <2>1 DEF Written, Plus, Percent, Semicolon, Space
    <2>3. CASE c = Space /\ form
      <3>1. UrlCode(c, form) = <<Plus>>
        BY <2>3 DEF UrlCode
      <3>2. QED
        BY <2>1, <2>2, <3>1
    <2>4. CASE ~(c = Space /\ form) /\ (c \in Alnum \/ (c = 46 /\ ~form))
      <3>1. UrlCode(c, form) = <<c>>
        BY <2>4 DEF UrlCode
      <3>2. c \in A
        <4>1. CASE c \in Alnum
          BY <2>1, <4>1 DEF Alnum, Digits, Written, Semicolon, Space
        <4>2. CASE c = 46
          BY <2>1, <4>2 DEF Written, Semicolon, Space
        <4>3. QED
          BY <2>4, <4>1, <4>2
      <3>3. QED
        BY <2>1, <3>1, <3>2
    <2>5. CASE ~(c = Space /\ form) /\ ~(c \in Alnum \/ (c = 46 /\ ~form))
      <3>1. PICK x \in A : x = HexChar(c \div 16)
        <4>1. HexChar(c \div 16) \in Digits \cup LowerHex
          BY HexRead
        <4>2. QED
          BY <2>1, <4>1 DEF Digits, LowerHex, Written, Semicolon, Space
      <3>2. PICK y \in A : y = HexChar(c % 16)
        <4>1. HexChar(c % 16) \in Digits \cup LowerHex
          BY HexRead
        <4>2. QED
          BY <2>1, <4>1 DEF Digits, LowerHex, Written, Semicolon, Space
      <3>3. UrlCode(c, form) = <<Percent, x, y>>
        BY <2>5, <3>1, <3>2 DEF UrlCode
      <3>4. QED
        BY <2>1, <2>2, <3>3
    <2>6. QED
      BY <2>3, <2>4, <2>5
  <1>2. PICK G : G = [d \in Codes |-> UrlCode(d, form)]
    OBVIOUS
  <1>3. IsCode(G, Codes, Written)
    BY <1>1, <1>2 DEF IsCode
  <1>4. 16 \in Codes
    BY DEF Codes
  <1>5. Coded(G, s) \in Seq(Written)
    BY <1>3, <1>4, CodedAppend
  <1>6. UrlEncode(s, form) = Coded(G, s)
    <2>1. \A i \in DOMAIN s : s[i] \in Codes
      OBVIOUS
    <2>2. [i \in DOMAIN s |-> UrlCode(s[i], form)] = [i \in DOMAIN s |-> G[s[i]]]
      BY <1>2, <2>1
    <2>3. UrlEncode(s, form) = FlattenSeq([i \in DOMAIN s |-> UrlCode(s[i], form)])
      BY DEF UrlEncode, UrlCode
    <2>4. QED
      BY <2>2, <2>3 DEF Coded
  <1>7. QED
    BY <1>5, <1>6

\* A character of a text that string_tokenize_word cuts at the separators.
PieceStep(seps, st, c) ==
  IF c \notin seps THEN [st EXCEPT !.cur = Append(@, c)]
  ELSE [cur |-> <<>>, all |-> IF st.cur = <<>> THEN st.all ELSE Append(st.all, st.cur)]

PieceStates == [cur : Seq(Nat), all : Seq(Seq(Nat))]

PieceFold(seps, base, s) ==
  LET Step(st, c) == PieceStep(seps, st, c) IN FoldLeft(Step, base, s)

\* The state of string_tokenize_word stays one.
LEMMA PieceStepped ==
  ASSUME NEW seps, NEW st \in PieceStates, NEW c \in Nat
  PROVE  PieceStep(seps, st, c) \in PieceStates
  <1>1. PICK T : T = Seq(Nat)
    OBVIOUS
  <1>2. st \in [cur : T, all : Seq(T)]
    BY <1>1 DEF PieceStates
  <1>3. Append(st.cur, c) \in T /\ <<>> \in T
    <2>1. PICK l \in Seq(Nat) : l = st.cur
      BY <1>1, <1>2
    <2>2. Append(l, c) \in Seq(Nat) /\ <<>> \in Seq(Nat)
      OBVIOUS
    <2>3. QED
      BY <1>1, <2>1, <2>2
  <1>4. Append(st.all, st.cur) \in Seq(T)
    BY <1>2
  <1>5. PieceStep(seps, st, c) \in [cur : T, all : Seq(T)]
    <2>1. CASE c \notin seps
      <3>1. PICK l \in T : l = Append(st.cur, c)
        BY <1>3
      <3>2. [st EXCEPT !.cur = l] \in [cur : T, all : Seq(T)]
        BY <1>2
      <3>3. QED
        BY <2>1, <3>1, <3>2 DEF PieceStep
    <2>2. CASE c \in seps
      <3>1. [cur |-> <<>>, all |-> IF st.cur = <<>> THEN st.all ELSE Append(st.all, st.cur)]
              \in [cur : T, all : Seq(T)]
        BY <1>2, <1>3, <1>4
      <3>2. QED
        BY <2>2, <3>1 DEF PieceStep
    <2>3. QED
      BY <2>1, <2>2
  <1>6. QED
    BY <1>1, <1>5 DEF PieceStates

\* A fold of PieceStep passes from one character to the next.
LEMMA PieceFolds ==
  ASSUME NEW seps, NEW base \in PieceStates, NEW s \in Seq(Nat), NEW n \in Nat, n = Len(s), NEW H,
         \A i \in 1 .. n, x \in PieceStates : H[<<i, x>>] = PieceStep(seps, x, s[i])
  PROVE  ComesTo(PieceStates, base, n, H, PieceFold(seps, base, s))
  <1> DEFINE it == CHOOSE g : g = [d \in SUBSET (DOMAIN s) |->
                     IF d = {} THEN base ELSE PieceStep(seps, g[d \ {Max(d)}], s[Max(d)])]
  <1>1. DOMAIN s = 1 .. n /\ \A i \in 1 .. n : s[i] \in Nat
    OBVIOUS
  <1>2. PieceFold(seps, base, s) = it[DOMAIN s]
    BY DEF PieceFold, FoldLeft, MapThenFoldSet
  <1>3. PICK S : S = PieceStates
    OBVIOUS
  <1>3a. PICK F : F = [p \in (1 .. n) \X S |-> PieceStep(seps, p[2], s[p[1]])]
    OBVIOUS
  <1>4. \A i \in 1 .. n, x \in S : F[<<i, x>>] = PieceStep(seps, x, s[i]) /\ F[<<i, x>>] \in S
    <2>1. ASSUME NEW i \in 1 .. n, NEW x \in S PROVE PieceStep(seps, x, s[i]) \in S
      BY <1>1, <1>3, PieceStepped
    <2>2. QED
      BY <1>3a, <2>1
  <1>5. PICK g : IsFold(g, S, base, n, F)
    BY <1>3, <1>4, FoldIterates
  <1>6. g = [d \in SUBSET (DOMAIN s) |->
               IF d = {} THEN base ELSE PieceStep(seps, g[d \ {Max(d)}], s[Max(d)])]
    <2>1. ASSUME NEW d \in SUBSET (1 .. n), d # {}
          PROVE  g[d] = PieceStep(seps, g[d \ {Max(d)}], s[Max(d)])
      <3>1. Max(d) \in 1 .. n
        BY <2>1, GreatestIs
      <3>2. g[d \ {Max(d)}] \in S
        BY <1>5 DEF IsFold
      <3>3. g[d] = F[<<Max(d), g[d \ {Max(d)}]>>]
        BY <1>5, <2>1 DEF IsFold
      <3>4. QED
        BY <1>4, <3>1, <3>2, <3>3
    <2>2. g = [d \in SUBSET (1 .. n) |-> g[d]] /\ g[{}] = base
      BY <1>5 DEF IsFold
    <2>3. QED
      BY <1>1, <2>1, <2>2
  <1>7. it = [d \in SUBSET (DOMAIN s) |->
                IF d = {} THEN base ELSE PieceStep(seps, it[d \ {Max(d)}], s[Max(d)])]
    BY <1>6
  <1> HIDE DEF it
  <1>8. PICK T : T = S \cup {it[d] : d \in SUBSET (1 .. n)}
    OBVIOUS
  <1>9. PICK G : G = [p \in (1 .. n) \X T |-> PieceStep(seps, p[2], s[p[1]])]
    OBVIOUS
  <1>10. ASSUME NEW i \in 1 .. n, NEW x \in S
         PROVE  G[<<i, x>>] = PieceStep(seps, x, s[i]) /\ G[<<i, x>>] \in S
    BY <1>4, <1>8, <1>9
  <1>11. it[{}] = base
    BY <1>7
  <1>12. ASSUME NEW d \in SUBSET (1 .. n), d # {}
         PROVE  it[d] = G[<<Max(d), it[d \ {Max(d)}]>>]
    <2>1. Max(d) \in 1 .. n
      BY <1>12, GreatestIs
    <2>2. it[d \ {Max(d)}] \in T
      BY <1>8
    <2>3. it[d] = PieceStep(seps, it[d \ {Max(d)}], s[Max(d)])
      BY <1>1, <1>7, <1>12
    <2>4. QED
      BY <1>9, <2>1, <2>2, <2>3
  <1>13. PICK r : IsRun(r, S, base, n, G) /\ r[n] = it[1 .. n]
    <2>1. base \in S /\ \A i \in 1 .. n, x \in S : G[<<i, x>>] \in S
      BY <1>3, <1>10
    <2>2. IsIter(it, base, n, G)
      BY <1>11, <1>12 DEF IsIter
    <2>3. ComesTo(S, base, n, G, it[1 .. n])
      BY <2>1, <2>2, FoldRuns
    <2>4. QED
      BY <2>3 DEF ComesTo
  <1>14. IsRun(r, PieceStates, base, n, H)
    <2>1. ASSUME NEW i \in 1 .. n PROVE r[i] = H[<<i, r[i - 1]>>]
      <3>0. i - 1 \in 0 .. n
        OBVIOUS
      <3>1. r[i - 1] \in S /\ r[i] = G[<<i, r[i - 1]>>]
        BY <1>13, <3>0 DEF IsRun
      <3>2. QED
        BY <1>3, <1>10, <3>1
    <2>2. QED
      BY <1>3, <1>13, <2>1 DEF IsRun
  <1>15. QED
    BY <1>1, <1>2, <1>13, <1>14 DEF ComesTo

\* It has read nothing, or one character more.
LEMMA PieceFoldEmpty ==
  ASSUME NEW seps, NEW base \in PieceStates
  PROVE  PieceFold(seps, base, <<>>) = base
  <1>0. <<>> \in Seq(Nat)
    OBVIOUS
  <1>1. PICK s \in Seq(Nat) : s = <<>>
    BY <1>0
  <1>2. PICK n \in Nat : n = Len(s) /\ n = 0
    BY <1>1
  <1>3. PICK F : F = <<>>
    OBVIOUS
  <1>4. \A i \in 1 .. n, x \in PieceStates : F[<<i, x>>] = PieceStep(seps, x, s[i])
    BY <1>2
  <1>5. PICK r : IsRun(r, PieceStates, base, n, F) /\ PieceFold(seps, base, s) = r[n]
    <2>1. ComesTo(PieceStates, base, n, F, PieceFold(seps, base, s))
      BY <1>2, <1>4, PieceFolds
    <2>2. QED
      BY <2>1 DEF ComesTo
  <1>6. QED
    BY <1>1, <1>2, <1>5 DEF IsRun

\* One character more is one step more.
LEMMA PieceFoldAppend ==
  ASSUME NEW seps, NEW base \in PieceStates, NEW s \in Seq(Nat), NEW c \in Nat
  PROVE  /\ PieceFold(seps, base, s) \in PieceStates
         /\ PieceFold(seps, base, Append(s, c)) = PieceStep(seps, PieceFold(seps, base, s), c)
  <1>1. PICK n \in Nat : n = Len(s)
    OBVIOUS
  <1>0. Append(s, c) \in Seq(Nat)
    OBVIOUS
  <1>2. PICK t \in Seq(Nat) : t = Append(s, c)
    BY <1>0
  <1>3. n + 1 = Len(t) /\ t[n + 1] = c /\ \A i \in 1 .. n : t[i] = s[i]
    BY <1>1, <1>2
  <1>4. PICK m \in Nat : m = n + 1 /\ m = Len(t)
    BY <1>3
  <1>5. PICK F : F = [p \in (1 .. m) \X PieceStates |-> PieceStep(seps, p[2], t[p[1]])]
    OBVIOUS
  <1>6. \A i \in 1 .. m, x \in PieceStates : F[<<i, x>>] = PieceStep(seps, x, t[i])
    BY <1>5
  <1>7. \A i \in 1 .. n, x \in PieceStates : F[<<i, x>>] = PieceStep(seps, x, s[i])
    <2>1. \A i \in 1 .. n : i \in 1 .. m
      BY <1>4
    <2>2. QED
      BY <1>3, <1>6, <2>1
  <1>8. PICK r : IsRun(r, PieceStates, base, n, F) /\ PieceFold(seps, base, s) = r[n]
    <2>1. ComesTo(PieceStates, base, n, F, PieceFold(seps, base, s))
      BY <1>1, <1>7, PieceFolds
    <2>2. QED
      BY <2>1 DEF ComesTo
  <1>9. PICK q : IsRun(q, PieceStates, base, m, F) /\ PieceFold(seps, base, t) = q[m]
    <2>1. ComesTo(PieceStates, base, m, F, PieceFold(seps, base, t))
      BY <1>4, <1>6, PieceFolds
    <2>2. QED
      BY <2>1 DEF ComesTo
  <1>10. r[n] = q[n]
    BY <1>4, <1>8, <1>9, SameRun
  <1>11. r[n] \in PieceStates /\ q[m - 1] \in PieceStates /\ q[m] = F[<<m, q[m - 1]>>]
    BY <1>4, <1>8, <1>9 DEF IsRun
  <1>12. m \in 1 .. m /\ m - 1 = n /\ t[m] = c
    BY <1>3, <1>4
  <1>13. q[m] = PieceStep(seps, q[n], c)
    BY <1>6, <1>11, <1>12
  <1>14. QED
    BY <1>2, <1>8, <1>9, <1>10, <1>11, <1>13

Cut(st) == IF st.cur = <<>> THEN st.all ELSE Append(st.all, st.cur)
Cutting(seps, s) == PieceFold(seps, [cur |-> <<>>, all |-> <<>>], s)

\* Pieces is that fold.
LEMMA PiecesCut ==
  ASSUME NEW seps, NEW s
  PROVE  Pieces(s, seps) = Cut(Cutting(seps, s))
  BY DEF Pieces, Cut, Cutting, PieceFold, PieceStep, FoldLeft, MapThenFoldSet

\* One character more.
LEMMA CuttingOn ==
  ASSUME NEW seps, NEW s \in Seq(Nat), NEW c \in Nat
  PROVE  /\ Cutting(seps, <<>>) = [cur |-> <<>>, all |-> <<>>]
         /\ Cutting(seps, Append(s, c)) = PieceStep(seps, Cutting(seps, s), c)
  <1>1. [cur |-> <<>>, all |-> <<>>] \in PieceStates
    <2>1. PICK T : T = Seq(Nat)
      OBVIOUS
    <2>2. <<>> \in T /\ <<>> \in Seq(T)
      BY <2>1
    <2>3. [cur |-> <<>>, all |-> <<>>] \in [cur : T, all : Seq(T)]
      BY <2>2
    <2>4. QED
      BY <2>1, <2>3 DEF PieceStates
  <1>2. PICK base \in PieceStates : base = [cur |-> <<>>, all |-> <<>>]
    BY <1>1
  <1>3. PieceFold(seps, base, Append(s, c)) = PieceStep(seps, PieceFold(seps, base, s), c)
    BY PieceFoldAppend
  <1>4. PieceFold(seps, base, <<>>) = base
    BY PieceFoldEmpty
  <1>5. QED
    BY <1>2, <1>3, <1>4 DEF Cutting

\* After s, the text cur is in the piece at hand, and all are the pieces before it.
Cuts(seps, s, cur, all) == s \in Seq(Nat) /\ cur \in Seq(Nat) /\ Cutting(seps, s) = [cur |-> cur, all |-> all]

\* A text without separators makes the current piece longer.
LEMMA CutText ==
  ASSUME NEW seps, NEW s, NEW all, Cuts(seps, s, <<>>, all), NEW t \in Seq(Nat \ seps)
  PROVE  Cuts(seps, s \o t, t, all)
  <1> DEFINE T == {r \in Seq(Nat \ seps) : Cuts(seps, s \o r, r, all)}
  <1>1. PICK u \in Seq(Nat) : u = s
    BY DEF Cuts
  <1>2. <<>> \in T
    <2>1. <<>> \in Seq(Nat \ seps) /\ u \o <<>> = u
      OBVIOUS
    <2>2. QED
      BY <1>1, <2>1
  <1>3. ASSUME NEW r \in Seq(Nat \ seps), NEW c \in Nat \ seps, r \in T PROVE Append(r, c) \in T
    <2>1. Append(r, c) \in Seq(Nat \ seps) /\ c \in Nat /\ c \notin seps
      BY <1>3
    <2>2. PICK v \in Seq(Nat) : v = u \o r
      BY <1>1, <1>3 DEF Cuts
    <2>3. PICK q \in Seq(Nat) : q = r
      BY <1>3 DEF Cuts
    <2>4. u \o Append(q, c) = Append(u \o q, c)
      BY <2>1
    <2>5. Cutting(seps, Append(v, c)) = PieceStep(seps, Cutting(seps, v), c)
      BY <2>1, CuttingOn
    <2>6. PICK st : st = Cutting(seps, v)
      OBVIOUS
    <2>7. st = [cur |-> q, all |-> all]
      BY <1>1, <1>3, <2>2, <2>3, <2>6 DEF Cuts
    <2>8. PieceStep(seps, st, c) = [st EXCEPT !.cur = Append(st.cur, c)]
      BY <2>1 DEF PieceStep
    <2>9. PICK l : l = Append(q, c)
      OBVIOUS
    <2>10. [st EXCEPT !.cur = l] = [cur |-> l, all |-> all] /\ st.cur = q
      BY <2>7
    <2>11. Append(v, c) \in Seq(Nat) /\ Append(q, c) \in Seq(Nat)
      BY <2>1
    <2>12. Cuts(seps, Append(v, c), l, all)
      BY <2>5, <2>6, <2>8, <2>9, <2>10, <2>11 DEF Cuts
    <2>13. s \o Append(r, c) = Append(v, c) /\ Append(r, c) = l
      BY <1>1, <2>2, <2>3, <2>4, <2>9
    <2>14. QED
      BY <2>1, <2>12, <2>13
  <1>4. QED
    <2> HIDE DEF T
    <2>1. \A r \in Seq(Nat \ seps), c \in Nat \ seps : r \in T => Append(r, c) \in T
      BY <1>3
    <2>2. t \in T
      BY <1>2, <2>1, AllTexts
    <2>3. QED
      BY <2>2 DEF T

\* A separator ends the piece.
LEMMA CutSeparator ==
  ASSUME NEW seps, NEW s, NEW cur, NEW all, Cuts(seps, s, cur, all), NEW c \in Nat \cap seps
  PROVE  Cuts(seps, Append(s, c), <<>>, IF cur = <<>> THEN all ELSE Append(all, cur))
  <1>1. PICK u \in Seq(Nat) : u = s
    BY DEF Cuts
  <1>2. c \in Nat
    OBVIOUS
  <1>3. Cutting(seps, Append(u, c)) = PieceStep(seps, Cutting(seps, u), c) /\ Append(u, c) \in Seq(Nat)
    BY <1>2, CuttingOn
  <1>4. PICK st : st = Cutting(seps, u)
    OBVIOUS
  <1>5. st.cur = cur /\ st.all = all
    BY <1>1, <1>4 DEF Cuts
  <1>6. PieceStep(seps, st, c) = [cur |-> <<>>, all |-> IF st.cur = <<>> THEN st.all ELSE Append(st.all, st.cur)]
    BY DEF PieceStep
  <1>7. <<>> \in Seq(Nat)
    OBVIOUS
  <1>8. QED
    BY <1>1, <1>3, <1>4, <1>5, <1>6, <1>7 DEF Cuts

\* Two cookies are cut apart.
LEMMA TwoCookies ==
  ASSUME NEW c \in Seq(Written), NEW d \in Seq(Written), c # <<>>, d # <<>>
  PROVE  Pieces(c \o <<Semicolon, Space>> \o d, {Semicolon, Space}) = <<c, d>>
  <1>1. Cuts({Semicolon, Space}, <<>>, <<>>, <<>>)
    <2>1. <<>> \in Seq(Nat) /\ 0 \in Nat
      OBVIOUS
    <2>2. QED
      BY <2>1, CuttingOn DEF Cuts
  <1>2. Cuts({Semicolon, Space}, c, c, <<>>)
    <2>1. <<>> \o c = c
      OBVIOUS
    <2>2. QED
      BY <1>1, <2>1, CutText DEF Written
  <1>3. PICK p \in Seq(Nat) : p = c
    BY <1>2 DEF Cuts
  <1>4. PICK a \in {Semicolon, Space} : a = Semicolon
    OBVIOUS
  <1>5. PICK b \in {Semicolon, Space} : b = Space
    OBVIOUS
  <1>5a. a \in Nat \cap {Semicolon, Space} /\ b \in Nat \cap {Semicolon, Space}
    BY DEF Semicolon, Space
  <1>6. Cuts({Semicolon, Space}, Append(c, a), <<>>, Append(<<>>, c))
    BY <1>2, <1>5a, CutSeparator
  <1>7. Cuts({Semicolon, Space}, Append(Append(c, a), b), <<>>, Append(<<>>, c))
    BY <1>5a, <1>6, CutSeparator
  <1>8. Cuts({Semicolon, Space}, Append(Append(c, a), b) \o d, d, Append(<<>>, c))
    BY <1>7, CutText DEF Written
  <1>9. Append(Append(c, a), b) = c \o <<Semicolon, Space>>
    <2>1. a \in Nat /\ b \in Nat
      BY DEF Semicolon, Space
    <2>2. Append(Append(p, a), b) = p \o <<a, b>>
      BY <2>1
    <2>3. QED
      BY <1>3, <1>4, <1>5, <2>2
  <1>10. Cut(Cutting({Semicolon, Space}, c \o <<Semicolon, Space>> \o d)) = Append(Append(<<>>, c), d)
    <2>1. PICK st : st = Cutting({Semicolon, Space}, c \o <<Semicolon, Space>> \o d)
      OBVIOUS
    <2>2. st = [cur |-> d, all |-> Append(<<>>, c)]
      BY <1>8, <1>9, <2>1 DEF Cuts
    <2>3. Cut(st) = Append(Append(<<>>, c), d)
      BY <2>2 DEF Cut
    <2>4. QED
      BY <2>1, <2>3
  <1>11. Append(Append(<<>>, c), d) = <<c, d>>
    <2>1. PICK T : T = Seq(Written)
      OBVIOUS
    <2>2. <<c>> \in Seq(T) /\ <<c, d>> \in Seq(T) /\ Len(<<c>>) = 1 /\ Len(<<c, d>>) = 2
      BY <2>1
    <2>3. Append(<<c>>, d) \in Seq(T) /\ Len(Append(<<c>>, d)) = 2
      BY <2>1, <2>2
    <2>4. \A i \in 1 .. 2 : Append(<<c>>, d)[i] = <<c, d>>[i]
      BY <2>1, <2>2
    <2>5. Append(<<c>>, d) = <<c, d>>
      BY <2>2, <2>3, <2>4, SeqEqual
    <2>6. Append(<<>>, c) = <<c>>
      OBVIOUS
    <2>7. QED
      BY <2>5, <2>6
  <1>12. QED
    BY <1>10, <1>11, PiecesCut

-----------------------------------------------------------------------------
(* Names of a letter with their values: links, cookies. *)

\* A name of one letter is written as it is.
LEMMA LetterEncoded ==
  ASSUME NEW c \in 65 .. 66, NEW form \in BOOLEAN
  PROVE  /\ <<c>> \in Seq(Codes) /\ <<c>> \in Seq(Nat) /\ <<c>> \in Seq(Written)
         /\ UrlEncode(<<c>>, form) = <<c>>
  <1>1. c \in Codes /\ c \in Nat /\ c \in Written
    BY DEF Codes, Written, Semicolon, Space
  <1>2. c \in Alnum /\ c # Space
    BY DEF Alnum, Digits, Space
  <1>3. <<>> \in Seq(Codes)
    OBVIOUS
  <1>4. UrlEncode(Append(<<>>, c), form) = UrlEncode(<<>>, form) \o UrlCode(c, form)
        /\ UrlEncode(<<>>, form) = <<>>
    BY <1>1, <1>3, UrlEncodeAppend
  <1>5. UrlCode(c, form) = <<c>>
    BY <1>2 DEF UrlCode
  <1>6. Append(<<>>, c) = <<c>> /\ <<>> \o <<c>> = <<c>>
    BY <1>1
  <1>7. QED
    BY <1>1, <1>4, <1>5, <1>6

\* What a form reads the pairs of two names and values as.
PairsRead(n, v, m, w, form) ==
  FormDecode(PairOf(n, v, form) \o <<Amp>> \o PairOf(m, w, form))
    = [ok |-> TRUE, fields |-> Insert(Insert(<<>>, n, v), m, w)]

\* That holds of any two.
LEMMA PairsAreRead ==
  ASSUME NEW n \in Seq(Codes), NEW v \in Seq(Codes), NEW m \in Seq(Codes), NEW w \in Seq(Codes),
         NEW form \in BOOLEAN
  PROVE  PairsRead(n, v, m, w, form)
  <1>1. FormDecode(PairOf(n, v, form) \o <<Amp>> \o PairOf(m, w, form))
          = [ok |-> TRUE, fields |-> Insert(Insert(<<>>, n, v), m, w)]
    BY TwoPairs
  <1>2. QED
    BY <1>1 DEF PairsRead

\* What a handler reads of the options of a link.
LinkReads(href, v, w) ==
  FormDecode(After(href, 63)) = [ok |-> TRUE, fields |-> <<Field(<<65>>, v), Field(<<66>>, w)>>]

\* The options of a link: two letters for the names.
LEMMA LinkReturns ==
  ASSUME NEW v \in Seq(Codes), NEW w \in Seq(Codes), NEW desc,
         NEW href, href = LinkTo(desc, Target(<< 67 >>,
                            BothParams(Param(<< 65 >>, v), Param(<< 66 >>, w)))).href
  PROVE  LinkReads(href, v, w)
  <1>0. PICK form \in BOOLEAN : form = FALSE
    OBVIOUS
  <1>1. PICK a \in Seq(Codes) : a = <<65>> /\ UrlEncode(a, form) = a
    <2>1. PICK c \in 65 .. 66 : c = 65
      OBVIOUS
    <2>2. <<c>> \in Seq(Codes) /\ UrlEncode(<<c>>, form) = <<c>>
      BY LetterEncoded
    <2>3. QED
      BY <2>1, <2>2
  <1>2. PICK b \in Seq(Codes) : b = <<66>> /\ UrlEncode(b, form) = b
    <2>1. PICK c \in 65 .. 66 : c = 66
      OBVIOUS
    <2>2. <<c>> \in Seq(Codes) /\ UrlEncode(<<c>>, form) = <<c>>
      BY LetterEncoded
    <2>3. QED
      BY <2>1, <2>2
  <1>3. UrlEncode(a, FALSE) = a /\ UrlEncode(b, FALSE) = b
    BY <1>0, <1>1, <1>2
  <1>4. PICK p \in Seq(Nat) : p = PairOf(a, v, FALSE) /\ p = PairOf(a, v, form)
    <2>1. PairOf(a, v, form) \in Seq(Nat)
      BY ReadsNothing, PairReads
    <2>2. QED
      BY <1>0, <2>1
  <1>5. PICK q \in Seq(Nat) : q = PairOf(b, w, FALSE) /\ q = PairOf(b, w, form)
    <2>1. PairOf(b, w, form) \in Seq(Nat)
      BY ReadsNothing, PairReads
    <2>2. QED
      BY <1>0, <2>1
  <1>6. Param(<<65>>, v) = p /\ Param(<<66>>, w) = q
    <2>2. Param(a, v) = a \o <<Equals>> \o UrlEncode(v, FALSE)
      BY DEF Param
    <2>3. Param(b, w) = b \o <<Equals>> \o UrlEncode(w, FALSE)
      BY DEF Param
    <2>4. QED
      BY <1>1, <1>2, <1>3, <1>4, <1>5, <2>2, <2>3 DEF PairOf
  <1>7. PICK both : both = p \o <<Amp>> \o q
    OBVIOUS
  <1>8. BothParams(p, q) = both
    BY <1>7 DEF BothParams
  <1>9. both \in Seq(Nat) /\ both # <<>>
    <2>1. Amp \in Nat
      BY DEF Amp
    <2>2. Append(p, Amp) = p \o <<Amp>> /\ Append(p, Amp) \in Seq(Nat)
          /\ Len(Append(p, Amp)) = Len(p) + 1
      BY <2>1
    <2>3. PICK r \in Seq(Nat) : r = Append(p, Amp) /\ Len(r) = Len(p) + 1
      BY <2>2
    <2>4. both = r \o q
      BY <1>7, <2>2, <2>3
    <2>5. r \o q \in Seq(Nat) /\ Len(r \o q) = Len(r) + Len(q)
      OBVIOUS
    <2>6. PICK l \in Seq(Nat) : l = both
      BY <2>4, <2>5
    <2>7. Len(l) # 0
      BY <2>3, <2>4, <2>5, <2>6
    <2>8. Len(<<>>) = 0
      OBVIOUS
    <2>9. l # <<>>
      BY <2>7, EmptySeq
    <2>10. QED
      BY <2>6, <2>9
  <1>10. href = <<67>> \o <<63>> \o both
    <2>1. Target(<<67>>, both) = <<67>> \o <<63>> \o both
      BY <1>9 DEF Target
    <2>2. LinkTo(desc, Target(<<67>>, both)).href = Target(<<67>>, both)
      BY DEF LinkTo
    <2>3. QED
      BY <1>6, <1>8, <2>1, <2>2
  <1>11. After(href, 63) = both
    <2>1. PICK m \in Seq(Nat) : m = both
      BY <1>9
    <2>2. <<67>> \in Seq(Nat) /\ <<63>> \in Seq(Nat) /\ 63 \in Nat
      OBVIOUS
    <2>3. PICK x \in Seq(Nat) : x = <<67>>
      BY <2>2
    <2>4. PICK y \in Seq(Nat) : y = <<63>>
      BY <2>2
    <2>5. Associates(x, y, m)
      BY NumberConcat
    <2>6. href = x \o (<<63>> \o m)
      BY <1>10, <2>1, <2>3, <2>4, <2>5 DEF Associates
    <2>7. Len(x) = 1 /\ x[1] = 67
      BY <2>3
    <2>8. \A i \in 1 .. Len(x) : x[i] # 63
      BY <2>7
    <2>9. PICK c \in Nat : c = 63
      OBVIOUS
    <2>10. After(href, c) = m
      <3>1. href = x \o (<<c>> \o m)
        BY <2>6, <2>9
      <3>2. \A i \in 1 .. Len(x) : x[i] # c
        BY <2>8, <2>9
      <3>3. QED
        BY <3>1, <3>2, Split
    <2>11. QED
      BY <2>1, <2>9, <2>10
  <1>12. FormDecode(both) = [ok |-> TRUE, fields |-> Insert(Insert(<<>>, a, v), b, w)]
    <2>1. FormDecode(PairOf(a, v, form) \o <<Amp>> \o PairOf(b, w, form))
            = [ok |-> TRUE, fields |-> Insert(Insert(<<>>, a, v), b, w)]
      <3>1. PairsRead(a, v, b, w, form)
        BY PairsAreRead
      <3>2. QED
        BY <3>1 DEF PairsRead
    <2>2. PairOf(a, v, form) \o <<Amp>> \o PairOf(b, w, form) = both
      BY <1>4, <1>5, <1>7
    <2>3. QED
      BY <2>1, <2>2
  <1>13. Insert(Insert(<<>>, a, v), b, w) = <<Field(<<65>>, v), Field(<<66>>, w)>>
    <2>1. Insert(<<>>, a, v) = <<Field(a, v)>>
      <3>1. Append(<<>>, Field(a, v)) = <<Field(a, v)>>
        OBVIOUS
      <3>2. QED
        BY <3>1 DEF Insert, Field
    <2>2. a # b
      BY <1>1, <1>2
    <2>3. PICK x : x = Field(a, v)
      OBVIOUS
    <2>4. PICK y : y = Field(b, w)
      OBVIOUS
    <2>5. x.name # b
      BY <2>2, <2>3 DEF Field
    <2>6. Insert(<<x>>, b, w) = Append(<<x>>, y)
      <3>1. DOMAIN <<x>> = {1} /\ <<x>>[1] = x
        OBVIOUS
      <3>2. ~\E i \in DOMAIN <<x>> : <<x>>[i].name = b
        BY <2>5, <3>1
      <3>3. QED
        BY <2>4, <3>2 DEF Insert, Field
    <2>7. Append(<<x>>, y) = <<x, y>>
      <3>1. PICK T : T = {x, y}
        OBVIOUS
      <3>2. <<x>> \in Seq(T) /\ <<x, y>> \in Seq(T) /\ Len(<<x>>) = 1 /\ Len(<<x, y>>) = 2
        BY <3>1
      <3>3. Append(<<x>>, y) \in Seq(T) /\ Len(Append(<<x>>, y)) = 2
        BY <3>1, <3>2
      <3>4. \A i \in 1 .. 2 : Append(<<x>>, y)[i] = <<x, y>>[i]
        BY <3>1, <3>2
      <3>5. QED
        BY <3>2, <3>3, <3>4, SeqEqual
    <2>8. QED
      BY <1>1, <1>2, <2>1, <2>3, <2>4, <2>6, <2>7
  <1>14. QED
    BY <1>11, <1>12, <1>13 DEF LinkReads

\* Two cookies of one-letter names.
LEMMA CookiesReturn ==
  ASSUME NEW v \in Seq(Codes), NEW w \in Seq(Codes)
  PROVE  Cookies(ServerCookie(<<65>>, v) \o <<Semicolon, Space>> \o ServerCookie(<<66>>, w))
           = <<Field(<<65>>, v), Field(<<66>>, w)>>
  <1>1. ASSUME NEW a \in 65 .. 66, NEW s \in Seq(Codes), NEW c, c = ServerCookie(<<a>>, s)
        PROVE  /\ c \in Seq(Written) /\ c # <<>>
               /\ Before(c, Equals) = <<a>> /\ UrlDecode(After(c, Equals), FALSE) = s
    <2>1. PICK x \in Seq(Written) : x = <<a>>
      BY LetterEncoded
    <2>2. PICK e \in Seq(Written) : e = UrlEncode(s, TRUE)
      BY UrlWritten
    <2>3. Equals \in Written
      BY DEF Equals, Written, Semicolon, Space
    <2>4. x \o <<Equals>> \in Seq(Written)
      BY <2>3
    <2>5. c = (x \o <<Equals>>) \o e
      BY <1>1, <2>1, <2>2 DEF ServerCookie
    <2>6. PICK q \in Seq(Written) : q = x \o <<Equals>>
      BY <2>4
    <2>7. q \o e \in Seq(Written)
      OBVIOUS
    <2>8. PICK l \in Seq(Nat) : l = <<a>>
      BY LetterEncoded
    <2>9. PICK m \in Seq(Nat) : m = UrlEncode(s, TRUE)
      BY EncodedTyped
    <2>10. Equals \in Nat
      BY DEF Equals
    <2>11. PICK y \in Seq(Nat) : y = <<Equals>>
      <3>1. <<Equals>> \in Seq(Nat)
        BY <2>10
      <3>2. QED
        BY <3>1
    <2>12. Associates(l, y, m)
      BY NumberConcat
    <2>13. c = l \o (<<Equals>> \o m)
      BY <2>1, <2>2, <2>5, <2>8, <2>9, <2>11, <2>12 DEF Associates
    <2>14. Len(l) = 1 /\ l[1] = a /\ a # Equals
      BY <2>8 DEF Equals
    <2>15. \A i \in 1 .. Len(l) : l[i] # Equals
      BY <2>14
    <2>16. Before(c, Equals) = l /\ After(c, Equals) = m
      BY <2>10, <2>13, <2>15, Split
    <2>17. UrlDecode(m, FALSE) = s
      BY <2>9, UrlReturns
    <2>18. c # <<>>
      <3>1. Append(x, Equals) = x \o <<Equals>> /\ Append(x, Equals) # <<>>
        BY <2>3, AppendProperties, AppendIsConcat
      <3>2. q # <<>>
        BY <2>6, <3>1
      <3>3. QED
        BY <2>5, <2>6, <3>2, ConcatEqualIffEmpty
    <2>19. QED
      BY <2>5, <2>6, <2>7, <2>8, <2>16, <2>17, <2>18
  <1>2. PICK c : c = ServerCookie(<<65>>, v)
    OBVIOUS
  <1>3. PICK d : d = ServerCookie(<<66>>, w)
    OBVIOUS
  <1>4. /\ c \in Seq(Written) /\ c # <<>> /\ Before(c, Equals) = <<65>>
        /\ UrlDecode(After(c, Equals), FALSE) = v
    <2>1. PICK a \in 65 .. 66 : a = 65
      OBVIOUS
    <2>2. c = ServerCookie(<<a>>, v)
      BY <1>2, <2>1
    <2>3. /\ c \in Seq(Written) /\ c # <<>> /\ Before(c, Equals) = <<a>>
          /\ UrlDecode(After(c, Equals), FALSE) = v
      BY <1>1, <2>2
    <2>4. QED
      BY <2>1, <2>3
  <1>5. /\ d \in Seq(Written) /\ d # <<>> /\ Before(d, Equals) = <<66>>
        /\ UrlDecode(After(d, Equals), FALSE) = w
    <2>1. PICK a \in 65 .. 66 : a = 66
      OBVIOUS
    <2>2. d = ServerCookie(<<a>>, w)
      BY <1>3, <2>1
    <2>3. /\ d \in Seq(Written) /\ d # <<>> /\ Before(d, Equals) = <<a>>
          /\ UrlDecode(After(d, Equals), FALSE) = w
      BY <1>1, <2>2
    <2>4. QED
      BY <2>1, <2>3
  <1>6. Pieces(c \o <<Semicolon, Space>> \o d, {Semicolon, Space}) = <<c, d>>
    BY <1>4, <1>5, TwoCookies
  <1>7. PICK pairs : pairs = <<c, d>>
    OBVIOUS
  <1>8. DOMAIN pairs = 1 .. 2 /\ pairs[1] = c /\ pairs[2] = d
    BY <1>7
  <1>9. [i \in DOMAIN pairs |-> [name |-> Before(pairs[i], Equals),
                                 value |-> UrlDecode(After(pairs[i], Equals), FALSE)]]
          = <<Field(<<65>>, v), Field(<<66>>, w)>>
    <2>1. PICK x : x = Field(<<65>>, v)
      OBVIOUS
    <2>2. PICK y : y = Field(<<66>>, w)
      OBVIOUS
    <2>3. [name |-> Before(c, Equals), value |-> UrlDecode(After(c, Equals), FALSE)] = x
      BY <1>4, <2>1 DEF Field
    <2>4. [name |-> Before(d, Equals), value |-> UrlDecode(After(d, Equals), FALSE)] = y
      BY <1>5, <2>2 DEF Field
    <2>5. PICK f : f = [i \in DOMAIN pairs |-> [name |-> Before(pairs[i], Equals),
                                 value |-> UrlDecode(After(pairs[i], Equals), FALSE)]]
      OBVIOUS
    <2>6. f[1] = x /\ f[2] = y
      <3>1. 1 \in DOMAIN pairs /\ 2 \in DOMAIN pairs
        BY <1>8
      <3>2. f[1] = [name |-> Before(pairs[1], Equals), value |-> UrlDecode(After(pairs[1], Equals), FALSE)]
        BY <2>5, <3>1
      <3>3. f[2] = [name |-> Before(pairs[2], Equals), value |-> UrlDecode(After(pairs[2], Equals), FALSE)]
        BY <2>5, <3>1
      <3>4. f[1] = x
        BY <1>8, <2>3, <3>2
      <3>5. f[2] = y
        BY <1>8, <2>4, <3>3
      <3>6. QED
        BY <3>4, <3>5
    <2>7. f = [i \in 1 .. 2 |-> f[i]]
      BY <1>8, <2>5
    <2>8. f = <<x, y>>
      BY <2>6, <2>7
    <2>9. QED
      BY <2>1, <2>2, <2>5, <2>8
  <1>10. QED
    BY <1>2, <1>3, <1>6, <1>7, <1>9, ZenonT(30) DEF Cookies

\* The two parts of a text.
LEMMA PartsTyped ==
  ASSUME text \in Seq(Codes), NEW k \in 0 .. Len(text)
  PROVE  Left(k) \in Seq(Codes) /\ Right(k) \in Seq(Codes)
  <1>1. PICK s \in Seq(Codes) : s = text
    OBVIOUS
  <1>2. SubSeq(s, 1, k) \in Seq(Codes) /\ SubSeq(s, k + 1, Len(s)) \in Seq(Codes)
    BY <1>1
  <1>3. QED
    BY <1>1, <1>2 DEF Left, Right

\* A text of printable characters comes back from a url, a form, a link and a cookie.
LEMMA TextReturns ==
  ASSUME text \in Seq(Codes)
  PROVE  ValuesReturn
  <1>1. \A form \in BOOLEAN : UrlDecode(UrlEncode(text, form), FALSE) = text
    BY UrlReturns
  <1>2. ASSUME NEW k \in 0 .. Len(text), NEW form,
               form = FormDecode(Pair(Left(k), Right(k)) \o <<Amp>> \o Pair(Right(k), Left(k)))
        PROVE  form.ok /\ form.fields = Insert(<<Field(Left(k), Right(k))>>, Right(k), Left(k))
    <2>1. PICK l \in Seq(Codes) : l = Left(k)
      BY PartsTyped
    <2>2. PICK r \in Seq(Codes) : r = Right(k)
      BY PartsTyped
    <2>3. Pair(l, r) = PairOf(l, r, TRUE) /\ Pair(r, l) = PairOf(r, l, TRUE)
      BY DEF Pair, PairOf
    <2>4. form = [ok |-> TRUE, fields |-> Insert(Insert(<<>>, l, r), r, l)]
      <3>1. PICK b \in BOOLEAN : b = TRUE
        OBVIOUS
      <3>2. FormDecode(PairOf(l, r, b) \o <<Amp>> \o PairOf(r, l, b))
              = [ok |-> TRUE, fields |-> Insert(Insert(<<>>, l, r), r, l)]
        <4>1. PairsRead(l, r, r, l, b)
          BY PairsAreRead
        <4>2. QED
          BY <4>1 DEF PairsRead
      <3>3. PairOf(l, r, b) = Pair(l, r) /\ PairOf(r, l, b) = Pair(r, l)
        BY <2>3, <3>1
      <3>4. QED
        BY <1>2, <2>1, <2>2, <3>2, <3>3
    <2>5. Insert(<<>>, l, r) = <<Field(l, r)>>
      <3>1. Append(<<>>, Field(l, r)) = <<Field(l, r)>>
        OBVIOUS
      <3>2. QED
        BY <3>1 DEF Insert, Field
    <2>6. QED
      BY <2>1, <2>2, <2>4, <2>5
  <1>3. ASSUME NEW k \in 0 .. Len(text)
        PROVE  LET both == BothParams(Param(<<65>>, Left(k)), Param(<<66>>, Right(k)))
                   link == LinkTo(text, Target(<<67>>, both))
               IN FormDecode(After(link.href, 63))
                    = [ok |-> TRUE, fields |-> <<Field(<<65>>, Left(k)), Field(<<66>>, Right(k))>>]
    <2>1. PICK l \in Seq(Codes) : l = Left(k)
      BY PartsTyped
    <2>2. PICK r \in Seq(Codes) : r = Right(k)
      BY PartsTyped
    <2>3. PICK href : href = LinkTo(text, Target(<<67>>,
                               BothParams(Param(<<65>>, l), Param(<<66>>, r)))).href
      OBVIOUS
    <2>4. LinkReads(href, l, r)
      BY <2>3, LinkReturns
    <2>5. QED
      BY <2>1, <2>2, <2>3, <2>4 DEF LinkReads
  <1>4. ASSUME NEW k \in 0 .. Len(text)
        PROVE  Cookies(ServerCookie(<<65>>, Left(k)) \o <<Semicolon, Space>>
                         \o ServerCookie(<<66>>, Right(k)))
                 = <<Field(<<65>>, Left(k)), Field(<<66>>, Right(k))>>
    BY PartsTyped, CookiesReturn
  <1>5. QED
    BY <1>1, <1>2, <1>3, <1>4 DEF ValuesReturn
-----------------------------------------------------------------------------
(* A text is of the characters of its pieces. *)
TextTypeOK ==
  /\ kind = "value" => text \in Seq(Codes)
  /\ kind = "quoted" => text \in Seq(Nat)
  /\ kind = "file" => text \in Seq(Nat)
  /\ kind = "path" => text \in Seq(Nat) /\ Len(text) < NPos

\* The text of a run is typed.
LEMMA TextTyped == TextSpec => []TextTypeOK
  <1>1. TextInit => TextTypeOK
    <2>1. <<>> \in Seq(Codes) /\ <<>> \in Seq(Nat) /\ Len(<<>>) = 0
      OBVIOUS
    <2>2. QED
      BY <2>1, RoutingAssumption DEF TextInit, TextTypeOK
  <1>2. TextTypeOK /\ [Grow]_textvars => TextTypeOK'
    <2> SUFFICES ASSUME TextTypeOK, [Grow]_textvars PROVE TextTypeOK'
      OBVIOUS
    <2>1. CASE UNCHANGED textvars
      BY <2>1 DEF textvars, TextTypeOK
    <2>2. CASE Grow
      <3>1. PICK piece \in TextPieces[kind] : text' = Append(text, piece)
        BY <2>2 DEF Grow
      <3>2. kind' = kind /\ kind \in DOMAIN TextPieces
        BY <2>2 DEF Grow
      <3>3. kind = "value" => text' \in Seq(Codes)
        BY <3>1, <3>2, TextAssumption DEF TextTypeOK
      <3>4. kind = "quoted" => text' \in Seq(Nat)
        BY <3>1, <3>2, TextAssumption DEF TextTypeOK
      <3>5. kind = "file" => text' \in Seq(Nat)
        BY <3>1, <3>2, TextAssumption DEF TextTypeOK
      <3>6. kind = "path" => text' \in Seq(Nat) /\ Len(text') < NPos
        <4>1. SUFFICES ASSUME kind = "path" PROVE text' \in Seq(Nat) /\ Len(text') < NPos
          OBVIOUS
        <4>2. PICK most \in 0 .. NPos - 1 : most = MaxPieces["path"]
          BY <3>2, <4>1, TextAssumption
        <4>3. piece \in Nat /\ text \in Seq(Nat)
          BY <3>1, <3>2, <4>1, TextAssumption DEF TextTypeOK
        <4>4. Len(text) < most
          BY <2>2, <4>1, <4>2 DEF Grow
        <4>5. text' \in Seq(Nat) /\ Len(text') = Len(text) + 1
          BY <3>1, <4>3
        <4>6. NPos \in Int
          BY RoutingAssumption DEF NPos
        <4>7. Len(text) \in Nat
          BY <4>3
        <4>8. QED
          BY <4>2, <4>4, <4>5, <4>6, <4>7
      <3>7. QED
        BY <3>2, <3>3, <3>4, <3>5, <3>6 DEF TextTypeOK
    <2>3. QED
      BY <2>1, <2>2
  <1>3. QED
    BY <1>1, <1>2, PTL DEF TextSpec

(* A value of any length comes back from a url, a form, a link and a cookie. *)
THEOREM ValuesComeBack == TextSpec => []ValuesReturn
  <1>1. TextTypeOK => ValuesReturn
    BY TextReturns DEF TextTypeOK, ValuesReturn
  <1>2. QED
    BY <1>1, TextTyped, PTL

(* A text of any length can be had back from an attribute or body and does not *)
(* end the tag it is in.                                                       *)
THEOREM QuotesComeBack == TextSpec => []QuotesReturn
  <1>1. TextTypeOK => QuotesReturn
    BY TextQuoted DEF TextTypeOK, QuotesReturn
  <1>2. QED
    BY <1>1, TextTyped, PTL

-----------------------------------------------------------------------------
(* Forms that are shown again. *)

\* What is decoded is text.
LEMMA DecodedTyped ==
  ASSUME NEW s \in Seq(Nat)
  PROVE  QuoteDecode(s) \in Seq(Nat)
  <1>1. PICK c \in Nat : c = 0
    OBVIOUS
  <1>2. PICK st \in QuoteStates : st = Unquoted(s)
    BY UnquotedOn
  <1>3. st.out \in Seq(Nat) /\ st.buf \in Seq(Nat)
    BY DEF QuoteStates
  <1>4. st.out \o st.buf \in Seq(Nat)
    BY <1>3
  <1>5. QED
    BY <1>2, <1>4, QuoteFolded

\* No entity is a semicolon.
LEMMA SemicolonStep ==
  ASSUME NEW s \in Seq(Nat)
  PROVE  QuoteStep(Open(s), Semicolon) = Open(Append(s, Semicolon))
  <1>1. Open(s).buf = <<>> /\ Open(s).out = s
    BY DEF Open
  <1>2. PICK buf : buf = <<Semicolon>>
    OBVIOUS
  <1>3. Append(<<>>, Semicolon) = buf
    BY <1>2
  <1>4. ASSUME NEW q \in {Quote, Amp, Less, Greater} PROVE Entity(q) # buf
    <2>1. buf[1] = Semicolon
      BY <1>2
    <2>2. Semicolon # Amp
      BY DEF Semicolon, Amp
    <2>3. Entity(q)[1] = Amp
      BY DEF Entity
    <2>4. QED
      BY <2>1, <2>2, <2>3
  <1>5. {q \in {Quote, Amp, Less, Greater} : Entity(q) = buf} = {}
    BY <1>4
  <1>6. QuoteStep(Open(s), Semicolon) = [out |-> s \o buf, buf |-> <<>>]
    <2>1. PICK are : are = {q \in {Quote, Amp, Less, Greater} : Entity(q) = buf} /\ are = {}
      BY <1>5
    <2>2. Semicolon # Amp
      BY DEF Semicolon, Amp
    <2>3. PICK st : st = Open(s) /\ st.buf = <<>> /\ st.out = s
      BY <1>1
    <2>4. Append(st.buf, Semicolon) = buf
      BY <1>3, <2>3
    <2>5. QuoteStep(st, Semicolon) =
            [out |-> st.out \o (IF are = {} THEN buf ELSE <<CHOOSE q \in are : TRUE>>), buf |-> <<>>]
      BY <2>1, <2>2, <2>4, Zenon DEF QuoteStep
    <2>6. QED
      BY <2>1, <2>3, <2>5
  <1>7. s \o buf = Append(s, Semicolon)
    <2>1. Semicolon \in Nat
      BY DEF Semicolon
    <2>2. QED
      BY <1>2, <2>1, AppendIsConcat
  <1>8. QED
    BY <1>6, <1>7 DEF Open

\* Text without a '&' is left as it is.
LEMMA PlainDecoded ==
  ASSUME NEW t \in Seq(Nat), Amp \notin ToSet(t)
  PROVE  QuoteDecode(t) = t
  <1> DEFINE T == {s \in Seq(Nat) : Unquoted(s) = Open(s)}
  <1>1. PICK C : C = Nat \ {Amp}
    OBVIOUS
  <1>2. <<>> \in T
    <2>1. <<>> \in Seq(Nat) /\ 0 \in Nat
      OBVIOUS
    <2>2. QED
      BY <2>1, UnquotedOn
  <1>3. ASSUME NEW s \in Seq(C), NEW c \in C, s \in T PROVE Append(s, c) \in T
    <2>1. c \in Nat /\ c # Amp
      BY <1>1
    <2>2. PICK u \in Seq(Nat) : u = s
      BY <1>3
    <2>3. Unquoted(u) = Open(u) /\ Append(u, c) \in Seq(Nat)
      BY <1>3, <2>1, <2>2
    <2>4. Unquoted(Append(u, c)) = QuoteStep(Unquoted(u), c)
      BY <2>1, UnquotedOn
    <2>5. CASE c = Semicolon
      <3>1. QuoteStep(Open(u), Semicolon) = Open(Append(u, Semicolon))
        BY SemicolonStep
      <3>2. Unquoted(Append(u, c)) = Open(Append(u, c))
        BY <2>3, <2>4, <2>5, <3>1, Zenon
      <3>3. Append(u, c) \in T
        BY <2>3, <3>2
      <3>4. QED
        BY <2>2, <3>3
    <2>6. CASE c # Semicolon
      <3>1. PICK st : st = Open(u) /\ st.buf = <<>> /\ st.out = u
        <4>1. Open(u).buf = <<>> /\ Open(u).out = u
          BY DEF Open
        <4>2. QED
          BY <4>1
      <3>2. QuoteStep(st, c) = [st EXCEPT !.out = Append(st.out, c)]
        BY <2>1, <2>6, <3>1, PlainStep
      <3>3. PICK l : l = Append(u, c)
        OBVIOUS
      <3>4. [st EXCEPT !.out = l] = Open(l)
        BY <3>1 DEF Open
      <3>5. QED
        BY <2>2, <2>3, <2>4, <3>1, <3>2, <3>3, <3>4
    <2>7. QED
      BY <2>5, <2>6
  <1>4. t \in Seq(C)
    <2>1. \A i \in 1 .. Len(t) : t[i] \in C
      BY <1>1 DEF ToSet
    <2>2. t = [i \in 1 .. Len(t) |-> t[i]] /\ Len(t) \in Nat
      OBVIOUS
    <2>3. QED
      BY <2>1, <2>2, SeqDef
  <1>5. t \in T
    <2> HIDE DEF T
    <2>1. \A s \in Seq(C), c \in C : s \in T => Append(s, c) \in T
      BY <1>3
    <2>2. QED
      BY <1>2, <1>4, <2>1, AllTexts
  <1>6. Unquoted(t) = Open(t) /\ Open(t).out = t /\ Open(t).buf = <<>> /\ t \o <<>> = t
    BY <1>5 DEF Open
  <1>7. QED
    BY <1>6, QuoteFolded
\* The parts of a control come from its tag.
LEMMA ControlParts ==
  ASSUME NEW w
  PROVE  /\ Control(w).type = w.type
         /\ Control(w).name = w.name
         /\ w.tag = "input" => Control(w).value = QuoteDecode(w.value)
         /\ w.tag = "textarea" => Control(w).value = AfterNewline(QuoteDecode(w.value))
         /\ w.tag = "select" => Control(w).value = OptionShown(w)
         /\ Control(w).on = (w.type \in {"checkbox", "radio"} => w.checked)
         /\ DOMAIN Control(w) = {"type", "name", "value", "on"}
  <1>1. Control(w).type = w.type
    BY DEF Control
  <1>2. Control(w).name = w.name
    BY DEF Control
  <1>3. ASSUME w.tag = "input" PROVE Control(w).value = QuoteDecode(w.value)
    BY <1>3 DEF Control
  <1>4. ASSUME w.tag = "textarea" PROVE Control(w).value = AfterNewline(QuoteDecode(w.value))
    BY <1>4 DEF Control
  <1>5. ASSUME w.tag = "select" PROVE Control(w).value = OptionShown(w)
    BY <1>5 DEF Control
  <1>6. Control(w).on = (w.type \in {"checkbox", "radio"} => w.checked)
    BY DEF Control
  <1>7. DOMAIN Control(w) = {"type", "name", "value", "on"}
    BY DEF Control
  <1>8. QED
    BY <1>1, <1>2, <1>3, <1>4, <1>5, <1>6, <1>7

OptionRecords == [value : Seq(Nat), selected : BOOLEAN]

\* The options of a template's list are there as they were added, none of them selected.
LEMMA OptionsAdded ==
  ASSUME NEW s \in Seq(Seq(Nat)), NEW n \in Nat, n = Len(s)
  PROVE  Offered(s) = [i \in 1 .. n |-> Option(s[i], FALSE)]
  <1> DEFINE it == CHOOSE g : g = [d \in SUBSET (DOMAIN s) |->
                     IF d = {} THEN <<>> ELSE AddOption(g[d \ {Max(d)}], s[Max(d)], FALSE)]
  <1>1. DOMAIN s = 1 .. n /\ \A i \in 1 .. n : s[i] \in Seq(Nat)
    OBVIOUS
  <1>2. Offered(s) = it[DOMAIN s]
    BY DEF Offered, FoldLeft, MapThenFoldSet
  <1>3. PICK S : S = Seq(OptionRecords)
    OBVIOUS
  <1>4. \A x \in S, i \in 1 .. n : AddOption(x, s[i], FALSE) \in S
    <2>1. ASSUME NEW x \in S, NEW i \in 1 .. n PROVE AddOption(x, s[i], FALSE) \in S
      <3>1. Option(s[i], FALSE) \in OptionRecords
        BY <1>1 DEF Option, OptionRecords
      <3>2. PICK o \in OptionRecords : o = Option(s[i], FALSE)
        BY <3>1
      <3>3. Append(x, o) \in S
        BY <1>3
      <3>4. QED
        BY <3>2, <3>3 DEF AddOption
    <2>2. QED
      BY <2>1
  <1>5. PICK base \in S : base = <<>>
    <2>1. <<>> \in Seq(OptionRecords)
      BY EmptySeq
    <2>2. QED
      BY <1>3, <2>1
  <1>6. PICK F : F = [p \in (1 .. n) \X S |-> AddOption(p[2], s[p[1]], FALSE)]
    OBVIOUS
  <1>7. \A i \in 1 .. n, x \in S : F[<<i, x>>] = AddOption(x, s[i], FALSE) /\ F[<<i, x>>] \in S
    BY <1>4, <1>6
  <1>8. PICK g : IsFold(g, S, base, n, F)
    BY <1>7, FoldIterates
  <1>9. g = [d \in SUBSET (DOMAIN s) |->
               IF d = {} THEN <<>> ELSE AddOption(g[d \ {Max(d)}], s[Max(d)], FALSE)]
    <2>1. ASSUME NEW d \in SUBSET (1 .. n), d # {}
          PROVE  g[d] = AddOption(g[d \ {Max(d)}], s[Max(d)], FALSE)
      <3>1. Max(d) \in 1 .. n
        BY <2>1, GreatestIs
      <3>2. g[d \ {Max(d)}] \in S
        BY <1>8 DEF IsFold
      <3>3. g[d] = F[<<Max(d), g[d \ {Max(d)}]>>]
        BY <1>8, <2>1 DEF IsFold
      <3>4. QED
        BY <1>7, <3>1, <3>2, <3>3
    <2>2. g = [d \in SUBSET (1 .. n) |-> g[d]] /\ g[{}] = <<>>
      BY <1>5, <1>8 DEF IsFold
    <2>3. QED
      BY <1>1, <2>1, <2>2
  <1>10. it = [d \in SUBSET (DOMAIN s) |->
                IF d = {} THEN <<>> ELSE AddOption(it[d \ {Max(d)}], s[Max(d)], FALSE)]
    BY <1>9
  <1> HIDE DEF it
  <1>11. PICK T : T = S \cup {it[d] : d \in SUBSET (1 .. n)}
    OBVIOUS
  <1>12. PICK G : G = [p \in (1 .. n) \X T |-> AddOption(p[2], s[p[1]], FALSE)]
    OBVIOUS
  <1>13. ASSUME NEW i \in 1 .. n, NEW x \in S
         PROVE  G[<<i, x>>] = AddOption(x, s[i], FALSE) /\ G[<<i, x>>] \in S
    BY <1>4, <1>11, <1>12
  <1>14. it[{}] = base
    BY <1>5, <1>10
  <1>15. ASSUME NEW d \in SUBSET (1 .. n), d # {}
         PROVE  it[d] = G[<<Max(d), it[d \ {Max(d)}]>>]
    <2>1. Max(d) \in 1 .. n
      BY <1>15, GreatestIs
    <2>2. it[d \ {Max(d)}] \in T
      BY <1>11
    <2>3. it[d] = AddOption(it[d \ {Max(d)}], s[Max(d)], FALSE)
      BY <1>1, <1>10, <1>15
    <2>4. QED
      BY <1>12, <2>1, <2>2, <2>3
  <1>16. PICK r : IsRun(r, S, base, n, G) /\ r[n] = it[1 .. n]
    <2>1. \A i \in 1 .. n, x \in S : G[<<i, x>>] \in S
      BY <1>13
    <2>2. IsIter(it, base, n, G)
      BY <1>14, <1>15 DEF IsIter
    <2>3. ComesTo(S, base, n, G, it[1 .. n])
      BY <2>1, <2>2, FoldRuns
    <2>4. QED
      BY <2>3 DEF ComesTo
  <1>17. PICK U : U = {i \in 0 .. n : /\ r[i] \in S /\ Len(r[i]) = i
                                      /\ \A j \in 1 .. i : r[i][j] = Option(s[j], FALSE)}
    OBVIOUS
  <1>18. 0 \in U
    <2>1. r[0] = base /\ Len(base) = 0
      BY <1>5, <1>16 DEF IsRun
    <2>2. 0 \in 0 .. n /\ \A j \in 1 .. 0 : r[0][j] = Option(s[j], FALSE)
      OBVIOUS
    <2>3. QED
      BY <1>17, <2>1, <2>2
  <1>19. ASSUME NEW i \in 1 .. n, i - 1 \in U PROVE i \in U
    <2>1. PICK x \in S : x = r[i - 1] /\ Len(x) = i - 1
                         /\ \A j \in 1 .. i - 1 : x[j] = Option(s[j], FALSE)
      BY <1>17, <1>19
    <2>2. r[i] = G[<<i, r[i - 1]>>]
      BY <1>16 DEF IsRun
    <2>3. r[i] = AddOption(x, s[i], FALSE) /\ r[i] \in S
      BY <1>13, <2>1, <2>2
    <2>4. Option(s[i], FALSE) \in OptionRecords
      BY <1>1 DEF Option, OptionRecords
    <2>5. PICK o \in OptionRecords : o = Option(s[i], FALSE)
      BY <2>4
    <2>6. r[i] = Append(x, o)
      BY <2>3, <2>5 DEF AddOption
    <2>7. PICK y \in Seq(OptionRecords) : y = x /\ Len(y) = i - 1
      BY <1>3, <2>1
    <2>8. Len(Append(y, o)) = i /\ Append(y, o)[i] = o
          /\ \A j \in 1 .. i - 1 : Append(y, o)[j] = y[j]
      BY <2>7
    <2>9. PICK z : z = r[i] /\ z = Append(y, o)
      BY <2>6, <2>7
    <2>10. ASSUME NEW j \in 1 .. i PROVE z[j] = Option(s[j], FALSE)
      <3>1. CASE j = i
        BY <2>5, <2>8, <2>9, <3>1
      <3>2. CASE j # i
        <4>1. j \in 1 .. i - 1
          BY <3>2
        <4>2. QED
          BY <2>1, <2>7, <2>8, <2>9, <4>1
      <3>3. QED
        BY <3>1, <3>2
    <2>11. z \in S /\ Len(z) = i /\ i \in 0 .. n
      <3>1. z \in S
        BY <2>3, <2>9
      <3>2. Len(z) = i
        BY <2>8, <2>9
      <3>3. i \in 0 .. n
        OBVIOUS
      <3>4. QED
        BY <3>1, <3>2, <3>3
    <2>12. \A j \in 1 .. i : r[i][j] = Option(s[j], FALSE)
      BY <2>9, <2>10
    <2>13. QED
      BY <1>17, <2>9, <2>11, <2>12
  <1>20. n \in U
    <2>1. \A i \in 0 .. n : i \in U
      BY <1>18, <1>19, UpTo
    <2>2. QED
      BY <2>1
  <1>21. PICK all \in S : all = r[n] /\ Len(all) = n /\ \A j \in 1 .. n : all[j] = Option(s[j], FALSE)
    BY <1>17, <1>20
  <1>22. all = [i \in 1 .. n |-> Option(s[i], FALSE)]
    <2>1. all = [i \in 1 .. Len(all) |-> all[i]]
      BY <1>3
    <2>2. QED
      BY <1>21, <2>1
  <1>23. QED
    BY <1>1, <1>2, <1>16, <1>21, <1>22
-----------------------------------------------------------------------------
(* Controls and the values they keep. *)

RadioKinds == {"radio", "radio_hrec"}
ListKinds == {"drop_down", "list_hrec"}

\* c is what the browser makes of the widget of w.
MadeOf(w, c) ==
  /\ DOMAIN c = {"type", "name", "value", "on"}
  /\ c.name = MyField(Form, w.field) /\ c.value \in Seq(Nat)
  /\ c.type = "select" => w.kind \in ListKinds

\* c has the value v of w.
Keeps(w, v, c) ==
  /\ w.kind \notin RadioKinds => c.on /\ c.type # "radio" /\ c.value = v
  /\ w.kind \in RadioKinds => c.type = "radio" /\ c.value = w.value /\ (c.on <=> w.value = v)

\* An input with a value, and its control.
WrittenAs(w, v, type, value, checked) ==
  Widget(w, v) = Input(type, MyField(Form, w.field), QuoteEncode(value), checked)
ReadAs(w, c, type, value, checked) ==
  /\ MadeOf(w, c) /\ c.type = type /\ c.value = value
  /\ c.on <=> (type \in {"checkbox", "radio"} => checked)

\* The browser decodes what is encoded.
LEMMA InputMade ==
  ASSUME NEW w, NEW v, NEW type, type # "select", NEW value \in Seq(Nat), NEW checked \in BOOLEAN,
         WrittenAs(w, v, type, value, checked)
  PROVE  ReadAs(w, Control(Widget(w, v)), type, value, checked)
  <1>1. PICK t : t = Widget(w, v)
    OBVIOUS
  <1>2. PICK code : code = QuoteEncode(value)
    OBVIOUS
  <1>3. PICK name : name = MyField(Form, w.field)
    OBVIOUS
  <1>4. t.tag = "input" /\ t.type = type /\ t.name = name /\ t.value = code /\ t.checked = checked
    BY <1>1, <1>2, <1>3 DEF Input, WrittenAs
  <1>5. QuoteDecode(code) = value
    BY <1>2, QuotedReturns
  <1>6. PICK c : c = Control(t)
    OBVIOUS
  <1>7. c.type = type /\ c.name = name /\ c.value = value
        /\ DOMAIN c = {"type", "name", "value", "on"}
    BY <1>4, <1>5, <1>6, ControlParts
  <1>8. c.on <=> (type \in {"checkbox", "radio"} => checked)
    BY <1>4, <1>6, ControlParts
  <1>9. QED
    BY <1>1, <1>3, <1>6, <1>7, <1>8 DEF MadeOf, ReadAs

\* A textarea's control has its text, but for a newline it begins with.
LEMMA AreaMade ==
  ASSUME NEW w, NEW v, NEW body \in Seq(Nat),
         Widget(w, v) = Area(MyField(Form, w.field), body)
  PROVE  /\ MadeOf(w, Control(Widget(w, v)))
         /\ Control(Widget(w, v)).type = "text"
         /\ Control(Widget(w, v)).value = AfterNewline(QuoteDecode(body))
         /\ Control(Widget(w, v)).on
  <1>1. PICK t : t = Widget(w, v)
    OBVIOUS
  <1>3. PICK name : name = MyField(Form, w.field)
    OBVIOUS
  <1>4. t.tag = "textarea" /\ t.type = "text" /\ t.name = name /\ t.value = body
    BY <1>1, <1>3 DEF Area
  <1>5. PICK read \in Seq(Nat) : read = QuoteDecode(body)
    BY DecodedTyped
  <1>6. AfterNewline(read) \in Seq(Nat)
    BY DEF AfterNewline
  <1>7. PICK c : c = Control(t)
    OBVIOUS
  <1>8. c.type = "text" /\ c.name = name /\ c.value = AfterNewline(read)
        /\ DOMAIN c = {"type", "name", "value", "on"}
    BY <1>4, <1>5, <1>7, ControlParts
  <1>9. c.on
    <2>1. c.on = (t.type \in {"checkbox", "radio"} => t.checked)
      BY <1>7, ControlParts
    <2>2. t.type \notin {"checkbox", "radio"}
      BY <1>4
    <2>3. QED
      BY <2>1, <2>2
  <1>10. QED
    BY <1>1, <1>3, <1>5, <1>6, <1>7, <1>8, <1>9 DEF MadeOf

\* The widget is a list with these options, which shows the value.
IsSelect(w, v, options, value) ==
  /\ w.kind \in ListKinds /\ Widget(w, v) = Select(MyField(Form, w.field), options)
  /\ value = OptionShown(Select(MyField(Form, w.field), options))

\* A list's has the option it shows.
LEMMA SelectMade ==
  ASSUME NEW w, NEW v, NEW options, NEW value \in Seq(Nat), IsSelect(w, v, options, value)
  PROVE  /\ MadeOf(w, Control(Widget(w, v)))
         /\ Control(Widget(w, v)).type = "select" /\ Control(Widget(w, v)).value = value
         /\ Control(Widget(w, v)).on
  <1>1. PICK t : t = Widget(w, v)
    OBVIOUS
  <1>2. PICK name : name = MyField(Form, w.field)
    OBVIOUS
  <1>3. w.kind \in ListKinds /\ t = Select(name, options) /\ value = OptionShown(t)
    BY <1>1, <1>2 DEF IsSelect
  <1>4. t.tag = "select" /\ t.type = "select" /\ t.name = name
    BY <1>3 DEF Select
  <1>5. PICK c : c = Control(t)
    OBVIOUS
  <1>6. c.type = "select" /\ c.name = name /\ c.value = value
        /\ DOMAIN c = {"type", "name", "value", "on"}
    BY <1>3, <1>4, <1>5, ControlParts
  <1>7. c.on
    <2>1. c.on = (t.type \in {"checkbox", "radio"} => t.checked)
      BY <1>5, ControlParts
    <2>2. t.type \notin {"checkbox", "radio"}
      BY <1>4
    <2>3. QED
      BY <2>1, <2>2
  <1>8. QED
    BY <1>1, <1>2, <1>3, <1>5, <1>6, <1>7 DEF MadeOf

\* Options of which those with the value v are selected, and what is shown of them.
OptionsAre(options, n, values, v) ==
  /\ DOMAIN options = 1 .. n
  /\ \A i \in 1 .. n : options[i].value = QuoteEncode(values[i]) /\ (options[i].selected <=> values[i] = v)
IsShown(shown, n, values, v) ==
  shown \in Seq(Nat) /\ ((\E i \in 1 .. n : values[i] = v) => shown = v)

\* A browser shows the last option that is selected, or the first one.
LEMMA OptionIsShown ==
  ASSUME NEW name, NEW n \in Nat, n # 0, NEW values \in Seq(Seq(Nat)), n = Len(values),
         NEW options, NEW v, OptionsAre(options, n, values, v)
  PROVE  IsShown(OptionShown(Select(name, options)), n, values, v)
  <1>0. /\ DOMAIN options = 1 .. n
        /\ \A i \in 1 .. n : values[i] \in Seq(Nat)
        /\ \A i \in 1 .. n : /\ options[i].value = QuoteEncode(values[i])
                             /\ options[i].selected <=> values[i] = v
    BY DEF OptionsAre
  <1>1. PICK sel : sel = {i \in 1 .. n : options[i].selected}
    OBVIOUS
  <1>2. OptionShown(Select(name, options)) = QuoteDecode(options[IF sel = {} THEN 1 ELSE Max(sel)].value)
    BY <1>0, <1>1 DEF OptionShown, Select
  <1>3. PICK k \in 1 .. n : k = (IF sel = {} THEN 1 ELSE Max(sel)) /\ (sel # {} => k \in sel)
    <2>1. CASE sel = {}
      BY <2>1
    <2>2. CASE sel # {}
      <3>1. sel \in SUBSET (1 .. n)
        BY <1>1
      <3>2. Max(sel) \in sel
        BY <2>2, <3>1, GreatestIs
      <3>3. QED
        BY <2>2, <3>1, <3>2
    <2>3. QED
      BY <2>1, <2>2
  <1>4. OptionShown(Select(name, options)) = values[k] /\ values[k] \in Seq(Nat)
    <2>1. PICK value \in Seq(Nat) : value = values[k]
      BY <1>0
    <2>2. options[k].value = QuoteEncode(value)
      BY <1>0, <2>1
    <2>3. QuoteDecode(QuoteEncode(value)) = value
      BY QuotedReturns
    <2>4. QED
      BY <1>2, <1>3, <2>1, <2>2, <2>3
  <1>5. ASSUME NEW i \in 1 .. n, values[i] = v PROVE values[k] = v
    <2>1. i \in sel
      BY <1>0, <1>1, <1>5
    <2>2. k \in sel
      BY <1>3, <2>1
    <2>3. QED
      BY <1>0, <1>1, <2>2
  <1>6. QED
    BY <1>4, <1>5 DEF IsShown

\* A widget's control has the value it is shown.
Kept(w, v) == /\ MadeOf(w, Control(Widget(w, v)))
              /\ ShownBy(w, v) => Keeps(w, v, Control(Widget(w, v)))

\* turbo's hidden and text fields encode what they show.
LEMMA TextKept ==
  ASSUME NEW w, IsWidget(w), w.kind \in {"hidden", "text"}, NEW v \in Seq(Nat)
  PROVE  Kept(w, v)
  <1>1. PICK d \in Seq(Nat) : d = Shown(v, w.default)
    BY DEF Shown, IsWidget
  <1>2. ShownBy(w, v) => d = v
    BY <1>1 DEF ShownBy, Shown
  <1>3. PICK type \in {"hidden", "text"} :
          Widget(w, v) = Input(type, MyField(Form, w.field), QuoteEncode(d), FALSE)
    <2>1. CASE w.kind = "hidden"
      BY <1>1, <2>1 DEF Widget, HiddenValue
    <2>2. CASE w.kind = "text"
      BY <1>1, <2>2 DEF Widget, TextField
    <2>3. QED
      BY <2>1, <2>2
  <1>4. type # "select" /\ type # "radio" /\ type \notin {"checkbox", "radio"}
    BY <1>3
  <1>5. PICK c : c = Control(Widget(w, v))
    OBVIOUS
  <1>6. MadeOf(w, c) /\ c.type = type /\ c.value = d /\ c.on
    <2>1. PICK off \in BOOLEAN : off = FALSE
      OBVIOUS
    <2>2. WrittenAs(w, v, type, d, off)
      BY <1>3, <2>1 DEF WrittenAs
    <2>3. ReadAs(w, c, type, d, off)
      BY <1>4, <1>5, <2>2, InputMade
    <2>4. QED
      BY <1>4, <2>3 DEF ReadAs
  <1>7. w.kind \notin RadioKinds
    BY DEF RadioKinds
  <1>8. QED
    BY <1>2, <1>4, <1>5, <1>6, <1>7 DEF Kept, Keeps

\* rec's hidden and text fields do, without a default.
LEMMA HrecTextKept ==
  ASSUME NEW w, IsWidget(w), w.kind \in {"hidden_hrec", "textfield_hrec"}, NEW v \in Seq(Nat)
  PROVE  Kept(w, v)
  <1>3. PICK type \in {"hidden", "text"} :
          Widget(w, v) = Input(type, MyField(Form, w.field), QuoteEncode(v), FALSE)
    <2>1. CASE w.kind = "hidden_hrec"
      BY <2>1 DEF Widget, HiddenHrec
    <2>2. CASE w.kind = "textfield_hrec"
      BY <2>2 DEF Widget, TextfieldHrec
    <2>3. QED
      BY <2>1, <2>2
  <1>4. type # "select" /\ type # "radio" /\ type \notin {"checkbox", "radio"}
    BY <1>3
  <1>5. PICK c : c = Control(Widget(w, v))
    OBVIOUS
  <1>6. MadeOf(w, c) /\ c.type = type /\ c.value = v /\ c.on
    <2>1. PICK off \in BOOLEAN : off = FALSE
      OBVIOUS
    <2>2. WrittenAs(w, v, type, v, off)
      BY <1>3, <2>1 DEF WrittenAs
    <2>3. ReadAs(w, c, type, v, off)
      BY <1>4, <1>5, <2>2, InputMade
    <2>4. QED
      BY <1>4, <2>3 DEF ReadAs
  <1>7. w.kind \notin RadioKinds
    BY DEF RadioKinds
  <1>8. QED
    BY <1>4, <1>5, <1>6, <1>7 DEF Kept, Keeps

\* No text and the one of a checkbox are encoded as they are.
LEMMA NothingEncoded ==
  QuoteEncode(<<>>) = <<>> /\ QuoteEncode(One) = One /\ One \in Seq(Nat)
  <1>1. QuoteEncode(<<>>) = <<>> /\ QuoteEncode(Append(<<>>, 49)) = QuoteEncode(<<>>) \o Entity(49)
    <2>1. <<>> \in Seq(Nat) /\ 49 \in Nat
      OBVIOUS
    <2>2. QED
      BY <2>1, QuoteEncodeAppend
  <1>2. Entity(49) = <<49>>
    BY DEF Entity, Quote, Amp, Less, Greater
  <1>3. Append(<<>>, 49) = <<49>> /\ <<>> \o <<49>> = <<49>> /\ << 49 >> \in Seq(Nat)
    OBVIOUS
  <1>4. QED
    BY <1>1, <1>2, <1>3 DEF One

\* A password field shows nothing.
LEMMA PasswordKept ==
  ASSUME NEW w, IsWidget(w), w.kind = "password", NEW v \in Seq(Nat)
  PROVE  Kept(w, v)
  <1>1. PICK d \in Seq(Nat) : d = <<>>
    BY EmptySeq
  <1>3. Widget(w, v) = Input("password", MyField(Form, w.field), QuoteEncode(d), FALSE)
    BY <1>1, NothingEncoded DEF Widget, PasswordField, EmptyText
  <1>6. MadeOf(w, Control(Widget(w, v)))
    <2>0. PICK off \in BOOLEAN : off = FALSE
      OBVIOUS
    <2>1. PICK type : type = "password" /\ type # "select"
      OBVIOUS
    <2>2. WrittenAs(w, v, type, d, off)
      BY <1>3, <2>0, <2>1 DEF WrittenAs
    <2>3. ReadAs(w, Control(Widget(w, v)), type, d, off)
      BY <2>1, <2>2, InputMade
    <2>4. QED
      BY <2>3 DEF ReadAs
  <1>7. ~ShownBy(w, v)
    BY DEF ShownBy
  <1>8. QED
    BY <1>6, <1>7 DEF Kept

\* turbo's text area encodes what it shows.
LEMMA AreaKept ==
  ASSUME NEW w, IsWidget(w), w.kind = "text_area", NEW v \in Seq(Nat)
  PROVE  Kept(w, v)
  <1>1. PICK d \in Seq(Nat) : d = Shown(v, w.default)
    BY DEF Shown, IsWidget
  <1>2. PICK body \in Seq(Nat) : body = QuoteEncode(d)
    <2>1. 0 \in Nat
      OBVIOUS
    <2>2. QuoteEncode(d) \in Seq(Nat \ {Quote, Less, Greater})
      BY <2>1, QuoteEncodeAppend
    <2>3. QED
      BY <2>2
  <1>3. Widget(w, v) = Area(MyField(Form, w.field), body)
    BY <1>1, <1>2 DEF Widget, TextArea
  <1>4. QuoteDecode(body) = d
    BY <1>2, QuotedReturns
  <1>5. PICK c : c = Control(Widget(w, v))
    OBVIOUS
  <1>6. MadeOf(w, c) /\ c.type = "text" /\ c.value = AfterNewline(d) /\ c.on
    BY <1>3, <1>4, <1>5, AreaMade
  <1>7. ASSUME ShownBy(w, v) PROVE AfterNewline(d) = v
    BY <1>1, <1>7 DEF ShownBy, Shown, AfterNewline
  <1>8. w.kind \notin RadioKinds
    BY DEF RadioKinds
  <1>9. QED
    BY <1>5, <1>6, <1>7, <1>8 DEF Kept, Keeps

\* rec's does not, and shows what has nothing to encode.
LEMMA HrecAreaKept ==
  ASSUME NEW w, IsWidget(w), w.kind = "textarea_hrec", NEW v \in Seq(Nat)
  PROVE  Kept(w, v)
  <1>3. Widget(w, v) = Area(MyField(Form, w.field), v)
    BY DEF Widget, TextareaHrec
  <1>5. PICK c : c = Control(Widget(w, v))
    OBVIOUS
  <1>6. MadeOf(w, c) /\ c.type = "text" /\ c.value = AfterNewline(QuoteDecode(v)) /\ c.on
    BY <1>3, <1>5, AreaMade
  <1>7. ASSUME ShownBy(w, v) PROVE AfterNewline(QuoteDecode(v)) = v
    <2>1. ToSet(v) \cap {Amp, Less, 10} = {}
      BY <1>7 DEF ShownBy
    <2>2. Amp \notin ToSet(v) /\ 10 \notin ToSet(v)
      BY <2>1
    <2>3. QuoteDecode(v) = v
      BY <2>2, PlainDecoded
    <2>4. v # <<>> => Head(v) # 10
      BY <2>2 DEF ToSet
    <2>5. QED
      BY <2>3, <2>4 DEF AfterNewline
  <1>8. w.kind \notin RadioKinds
    BY DEF RadioKinds
  <1>9. QED
    BY <1>5, <1>6, <1>7, <1>8 DEF Kept, Keeps

\* A checkbox is on for its value.
LEMMA CheckboxKept ==
  ASSUME NEW w, IsWidget(w), w.kind \in {"checkbox", "checkbox_hrec"}, NEW v \in Seq(Nat)
  PROVE  Kept(w, v)
  <1>1. PICK d \in Seq(Nat), checked \in BOOLEAN :
          /\ Widget(w, v) = Input("checkbox", MyField(Form, w.field), QuoteEncode(d), checked)
          /\ ShownBy(w, v) => checked /\ d = v
    <2>1. CASE w.kind = "checkbox"
      <3>1. PICK checked \in BOOLEAN : checked = (IF v = <<>> THEN w.default ELSE v # Zero)
        BY <2>1 DEF IsWidget
      <3>2. Widget(w, v) = Input("checkbox", MyField(Form, w.field), QuoteEncode(One), checked)
        BY <2>1, <3>1, NothingEncoded DEF Widget, Checkbox
      <3>3. ShownBy(w, v) => checked /\ One = v
        <4>1. One # <<>> /\ One # Zero
          BY DEF One, Zero
        <4>2. ShownBy(w, v) => v = One
          BY <2>1 DEF ShownBy
        <4>3. QED
          BY <3>1, <4>1, <4>2
      <3>4. QED
        BY <3>2, <3>3, NothingEncoded
    <2>2. CASE w.kind = "checkbox_hrec"
      <3>1. PICK d \in Seq(Nat) : d = w.value
        BY <2>2 DEF IsWidget
      <3>2. PICK checked \in BOOLEAN : checked = (v = w.value)
        OBVIOUS
      <3>3. Widget(w, v) = Input("checkbox", MyField(Form, w.field), QuoteEncode(d), checked)
        BY <2>2, <3>1, <3>2 DEF Widget, CheckboxHrec
      <3>4. ShownBy(w, v) => checked /\ d = v
        BY <2>2, <3>1, <3>2 DEF ShownBy
      <3>5. QED
        BY <3>3, <3>4
    <2>3. QED
      BY <2>1, <2>2
  <1>5. PICK c : c = Control(Widget(w, v))
    OBVIOUS
  <1>6. MadeOf(w, c) /\ c.type = "checkbox" /\ c.value = d /\ (c.on <=> checked)
    <2>1. PICK type : type = "checkbox" /\ type # "select"
      OBVIOUS
    <2>2. WrittenAs(w, v, type, d, checked)
      BY <1>1, <2>1 DEF WrittenAs
    <2>3. ReadAs(w, c, type, d, checked)
      BY <1>5, <2>1, <2>2, InputMade
    <2>4. QED
      BY <2>1, <2>3 DEF ReadAs
  <1>8. w.kind \notin RadioKinds
    BY DEF RadioKinds
  <1>9. QED
    BY <1>1, <1>5, <1>6, <1>8 DEF Kept, Keeps

\* A radio button is on for its value, and for no other.
LEMMA RadioKept ==
  ASSUME NEW w, IsWidget(w), w.kind \in RadioKinds, NEW v \in Seq(Nat)
  PROVE  Kept(w, v)
  <1>0. PICK d \in Seq(Nat) : d = w.value
    BY DEF IsWidget, RadioKinds
  <1>1. PICK checked \in BOOLEAN :
          /\ Widget(w, v) = Input("radio", MyField(Form, w.field), QuoteEncode(d), checked)
          /\ ShownBy(w, v) => (checked <=> d = v)
    <2>1. CASE w.kind = "radio"
      <3>1. PICK checked \in BOOLEAN : checked = (IF v = <<>> THEN w.default ELSE v = d)
        BY <2>1 DEF IsWidget
      <3>2. Widget(w, v) = Input("radio", MyField(Form, w.field), QuoteEncode(d), checked)
        BY <1>0, <2>1, <3>1 DEF Widget, Radio
      <3>3. ShownBy(w, v) => (checked <=> d = v)
        <4>1. ShownBy(w, v) => v # <<>>
          BY <2>1 DEF ShownBy
        <4>2. QED
          BY <3>1, <4>1
      <3>4. QED
        BY <3>2, <3>3
    <2>2. CASE w.kind = "radio_hrec"
      <3>2. PICK checked \in BOOLEAN : checked = (v = w.value)
        OBVIOUS
      <3>3. Widget(w, v) = Input("radio", MyField(Form, w.field), QuoteEncode(d), checked)
        BY <1>0, <2>2, <3>2 DEF Widget, RadioHrec
      <3>4. QED
        BY <1>0, <3>2, <3>3
    <2>3. QED
      BY <2>1, <2>2 DEF RadioKinds
  <1>5. PICK c : c = Control(Widget(w, v))
    OBVIOUS
  <1>6. MadeOf(w, c) /\ c.type = "radio" /\ c.value = d /\ (c.on <=> checked)
    <2>1. PICK type : type = "radio" /\ type # "select"
      OBVIOUS
    <2>2. WrittenAs(w, v, type, d, checked)
      BY <1>1, <2>1 DEF WrittenAs
    <2>3. ReadAs(w, c, type, d, checked)
      BY <1>5, <2>1, <2>2, InputMade
    <2>4. QED
      BY <2>1, <2>3 DEF ReadAs
  <1>9. QED
    BY <1>0, <1>1, <1>5, <1>6 DEF Kept, Keeps

\* A drop-down selects what it shows of its options.
LEMMA DropDownKept ==
  ASSUME NEW w, IsWidget(w), w.kind = "drop_down", NEW v \in Seq(Nat)
  PROVE  Kept(w, v)
  <1>0. PICK d \in Seq(Nat) : d = Shown(v, w.default)
    BY DEF Shown, IsWidget
  <1>1. PICK values \in Seq(Seq(Nat)), n \in Nat : values = w.options /\ n = Len(values) /\ n # 0
    BY DEF IsWidget
  <1>2. PICK options : options = [i \in 1 .. n |-> Option(QuoteEncode(values[i]), values[i] = d)]
    OBVIOUS
  <1>3. Widget(w, v) = Select(MyField(Form, w.field), options)
    <2>1. DOMAIN values = 1 .. n
      BY <1>1
    <2>2. options = [i \in DOMAIN w.options |-> Option(QuoteEncode(w.options[i]), w.options[i] = Shown(v, w.default))]
      BY <1>0, <1>1, <1>2, <2>1
    <2>3. QED
      BY <2>2 DEF Widget, DropDown
  <1>5. OptionsAre(options, n, values, d)
    BY <1>2 DEF Option, OptionsAre
  <1>6. PICK value \in Seq(Nat) : /\ value = OptionShown(Select(MyField(Form, w.field), options))
                                  /\ (\E i \in 1 .. n : values[i] = d) => value = d
    <2>1. IsShown(OptionShown(Select(MyField(Form, w.field), options)), n, values, d)
      BY <1>1, <1>5, OptionIsShown
    <2>2. QED
      BY <2>1 DEF IsShown
  <1>7. PICK c : c = Control(Widget(w, v))
    OBVIOUS
  <1>8. MadeOf(w, c) /\ c.type = "select" /\ c.value = value /\ c.on
    <2>1. IsSelect(w, v, options, value)
      BY <1>3, <1>6 DEF ListKinds, IsSelect
    <2>2. MadeOf(w, Control(Widget(w, v))) /\ Control(Widget(w, v)).type = "select"
          /\ Control(Widget(w, v)).value = value /\ Control(Widget(w, v)).on
      BY <2>1, SelectMade
    <2>3. QED
      BY <1>7, <2>2
  <1>9. ShownBy(w, v) => value = v
    <2>1. ASSUME ShownBy(w, v) PROVE d = v /\ \E i \in 1 .. n : values[i] = v
      BY <1>0, <1>1, <2>1 DEF ShownBy, Shown, Contains
    <2>2. QED
      BY <1>6, <2>1
  <1>10. w.kind \notin RadioKinds
    BY DEF RadioKinds
  <1>11. QED
    BY <1>7, <1>8, <1>9, <1>10 DEF Kept, Keeps

\* rec's list selects it among the options that were added.
LEMMA ListKept ==
  ASSUME NEW w, IsWidget(w), w.kind = "list_hrec", NEW v \in Seq(Nat)
  PROVE  Kept(w, v)
  <1>1. PICK values \in Seq(Seq(Nat)), n \in Nat : values = w.options /\ n = Len(values) /\ n # 0
    BY DEF IsWidget
  <1>2. PICK offered : offered = Offered(values)
    OBVIOUS
  <1>3. offered = [i \in 1 .. n |-> Option(values[i], FALSE)]
    BY <1>1, <1>2, OptionsAdded
  <1>4. PICK set : set = SetSelected(offered, v)
    OBVIOUS
  <1>5. DOMAIN set = 1 .. n /\ \A i \in 1 .. n : /\ set[i].value = values[i]
                                                 /\ set[i].selected <=> values[i] = v
    <2>1. DOMAIN offered = 1 .. n
      BY <1>3
    <2>2. \A i \in 1 .. n : offered[i].value = values[i] /\ ~offered[i].selected
      BY <1>3 DEF Option
    <2>3. DOMAIN set = 1 .. n
      BY <1>4, <2>1 DEF SetSelected
    <2>4. ASSUME NEW i \in 1 .. n
          PROVE  set[i].value = values[i] /\ (set[i].selected <=> values[i] = v)
      <3>1. set[i] = IF offered[i].value = v THEN Option(v, TRUE) ELSE offered[i]
        BY <1>4, <2>1 DEF SetSelected
      <3>2. QED
        BY <2>2, <3>1 DEF Option
    <2>5. QED
      BY <2>3, <2>4
  <1>6. PICK options : options = [i \in 1 .. n |-> Option(QuoteEncode(set[i].value), set[i].selected)]
    OBVIOUS
  <1>7. Widget(w, v) = Select(MyField(Form, w.field), options)
    <2>1. Widget(w, v) = ListHrec(MyField(Form, w.field), set)
      BY <1>1, <1>2, <1>4 DEF Widget
    <2>2. QED
      BY <1>5, <1>6, <2>1 DEF ListHrec
  <1>9. OptionsAre(options, n, values, v)
    BY <1>5, <1>6 DEF Option, OptionsAre
  <1>10. PICK value \in Seq(Nat) : /\ value = OptionShown(Select(MyField(Form, w.field), options))
                                   /\ (\E i \in 1 .. n : values[i] = v) => value = v
    <2>1. IsShown(OptionShown(Select(MyField(Form, w.field), options)), n, values, v)
      BY <1>1, <1>9, OptionIsShown
    <2>2. QED
      BY <2>1 DEF IsShown
  <1>11. PICK c : c = Control(Widget(w, v))
    OBVIOUS
  <1>12. MadeOf(w, c) /\ c.type = "select" /\ c.value = value /\ c.on
    <2>1. IsSelect(w, v, options, value)
      BY <1>7, <1>10 DEF ListKinds, IsSelect
    <2>2. MadeOf(w, Control(Widget(w, v))) /\ Control(Widget(w, v)).type = "select"
          /\ Control(Widget(w, v)).value = value /\ Control(Widget(w, v)).on
      BY <2>1, SelectMade
    <2>3. QED
      BY <1>11, <2>2
  <1>13. ShownBy(w, v) => value = v
    <2>1. ASSUME ShownBy(w, v) PROVE \E i \in 1 .. n : values[i] = v
      BY <1>1, <2>1 DEF ShownBy, Contains
    <2>2. QED
      BY <1>10, <2>1
  <1>14. w.kind \notin RadioKinds
    BY DEF RadioKinds
  <1>15. QED
    BY <1>11, <1>12, <1>13, <1>14 DEF Kept, Keeps

\* Whatever the kind, the control has what the widget is shown.
LEMMA WidgetKept ==
  ASSUME NEW w, IsWidget(w), NEW v \in Seq(Nat)
  PROVE  Kept(w, v)
  <1>1. \/ w.kind \in {"hidden", "text"} \/ w.kind \in {"hidden_hrec", "textfield_hrec"}
        \/ w.kind = "password" \/ w.kind = "text_area" \/ w.kind = "textarea_hrec"
        \/ w.kind \in {"checkbox", "checkbox_hrec"} \/ w.kind \in RadioKinds
        \/ w.kind = "drop_down" \/ w.kind = "list_hrec"
    BY DEF IsWidget, RadioKinds
  <1>2. QED
    BY <1>1, TextKept, HrecTextKept, PasswordKept, AreaKept, HrecAreaKept, CheckboxKept,
       RadioKept, DropDownKept, ListKept

-----------------------------------------------------------------------------
(* The page a browser makes of widgets, and what it posts. *)

\* p is what a browser keeps of the controls C: of the radio buttons of a name one.
IsPage(p, C, n) ==
  /\ DOMAIN p = 1 .. n
  /\ \A i \in 1 .. n :
       /\ DOMAIN p[i] = {"type", "name", "value", "on"}
       /\ p[i].type = C[i].type /\ p[i].name = C[i].name /\ p[i].value = C[i].value
       /\ p[i].on <=> /\ C[i].on
                      /\ ~\E j \in i + 1 .. n : /\ C[i].type = "radio" /\ C[j].type = "radio"
                                                /\ C[j].name = C[i].name /\ C[j].on

\* A browser makes a page of its controls.
LEMMA Browsed ==
  ASSUME NEW widgets, NEW n \in Nat, DOMAIN widgets = 1 .. n,
         NEW C, C = [i \in 1 .. n |-> Control(widgets[i])]
  PROVE  IsPage(Browse(widgets), C, n)
  <1>1. Len(C) = n /\ DOMAIN C = 1 .. n
    OBVIOUS
  <1>2. Browse(widgets) =
          [i \in 1 .. n |->
             [C[i] EXCEPT !.on = C[i].on /\ ~\E j \in i + 1 .. n :
                C[i].type = "radio" /\ C[j].type = "radio" /\ C[j].name = C[i].name /\ C[j].on]]
    BY <1>1 DEF Browse
  <1>3. PICK p : p = Browse(widgets)
    OBVIOUS
  <1>4. DOMAIN p = 1 .. n
    BY <1>2, <1>3
  <1>5. ASSUME NEW i \in 1 .. n
        PROVE  /\ DOMAIN p[i] = {"type", "name", "value", "on"}
               /\ p[i].type = C[i].type /\ p[i].name = C[i].name /\ p[i].value = C[i].value
               /\ p[i].on <=> /\ C[i].on
                              /\ ~\E j \in i + 1 .. n :
                                   /\ C[i].type = "radio" /\ C[j].type = "radio"
                                   /\ C[j].name = C[i].name /\ C[j].on
    <2>1. C[i] = Control(widgets[i])
      OBVIOUS
    <2>2. PICK c : c = C[i] /\ DOMAIN c = {"type", "name", "value", "on"}
      BY <2>1, ControlParts
    <2>3. PICK on \in BOOLEAN :
            on = (c.on /\ ~\E j \in i + 1 .. n :
                    c.type = "radio" /\ C[j].type = "radio" /\ C[j].name = c.name /\ C[j].on)
      OBVIOUS
    <2>4. p[i] = [c EXCEPT !.on = on]
      BY <1>2, <1>3, <2>2, <2>3
    <2>5. /\ DOMAIN p[i] = {"type", "name", "value", "on"} /\ p[i].on = on
          /\ p[i].type = c.type /\ p[i].name = c.name /\ p[i].value = c.value
      BY <2>2, <2>4
    <2>6. QED
      BY <2>2, <2>3, <2>5
  <1>6. QED
    BY <1>3, <1>4, <1>5 DEF IsPage

\* The fields of a form have names of their own.
LEMMA FieldNamed ==
  ASSUME NEW f, NEW g, MyField(Form, f) = MyField(Form, g)
  PROVE  f = g
  <1>1. CASE Form = ""
    <2>1. <<f>> = <<g>>
      BY <1>1 DEF MyField
    <2>2. QED
      BY <2>1
  <1>2. CASE Form # ""
    <2>1. <<Form, f>> = <<Form, g>>
      BY <1>2 DEF MyField
    <2>2. QED
      BY <2>1
  <1>3. QED
    BY <1>1, <1>2

\* The controls a browser has for the fields with the values that are theirs.
IsMade(C, n, cache, request) ==
  /\ n \in Nat /\ DOMAIN fields = 1 .. n
  /\ \A i \in 1 .. n : IsWidget(fields[i])
  /\ \A i \in 1 .. n : GetFormField(cache, request, MyField(Form, fields[i].field)) \in Seq(Nat)
  /\ C = [i \in 1 .. n |->
            Control(Widget(fields[i], GetFormField(cache, request, MyField(Form, fields[i].field))))]

\* A rendered form is a page of the controls of its fields.
LEMMA RenderedPage ==
  ASSUME NEW cache, NEW request, NEW n, NEW C, IsMade(C, n, cache, request)
  PROVE  IsPage(Rendered(cache, request), C, n)
  <1>1. PICK widgets : widgets = [i \in DOMAIN fields |->
            Widget(fields[i], GetFormField(cache, request, MyField(Form, fields[i].field)))]
    OBVIOUS
  <1>2. n \in Nat /\ DOMAIN widgets = 1 .. n
    BY <1>1 DEF IsMade
  <1>3. C = [i \in 1 .. n |-> Control(widgets[i])]
    BY <1>1 DEF IsMade
  <1>4. IsPage(Browse(widgets), C, n)
    BY <1>2, <1>3, Browsed
  <1>5. QED
    BY <1>1, <1>4 DEF Rendered

PostsAs(p, name, v) == name \in DOMAIN PostedBy(p) /\ PostedBy(p)[name] = v

\* Of the controls that post a name the browser takes one.
LEMMA PostedIs ==
  ASSUME NEW p, NEW name, NEW v, NEW k \in DOMAIN p, p[k].on, p[k].name = name,
         \A i \in DOMAIN p : p[i].on /\ p[i].name = name => p[i].value = v
  PROVE  PostsAs(p, name, v)
  <1>1. PICK on : on = {i \in DOMAIN p : p[i].on}
    OBVIOUS
  <1>2. PostedBy(p) = [m \in {p[i].name : i \in on} |-> p[CHOOSE i \in on : p[i].name = m].value]
    BY <1>1 DEF PostedBy
  <1>3. k \in on /\ name \in {p[i].name : i \in on}
    BY <1>1
  <1>4. PICK i : i = (CHOOSE j \in on : p[j].name = name)
    OBVIOUS
  <1>5. i \in on /\ p[i].name = name
    BY <1>3, <1>4
  <1>6. p[i].value = v
    BY <1>1, <1>5
  <1>7. QED
    BY <1>2, <1>3, <1>4, <1>6 DEF PostsAs

\* A rendered page posts what a field can show.
LEMMA RenderedPosts ==
  ASSUME NEW cache, NEW request, NEW n, NEW C, IsMade(C, n, cache, request),
         NEW f \in FieldNames, NEW v \in Seq(Nat),
         v = GetFormField(cache, request, MyField(Form, f)), Shows(f, v)
  PROVE  PostsAs(Rendered(cache, request), MyField(Form, f), v)
  <1>1. PICK p : p = Rendered(cache, request) /\ IsPage(p, C, n)
    BY RenderedPage
  <1>2. n \in Nat /\ DOMAIN fields = 1 .. n /\ DOMAIN p = 1 .. n
    BY <1>1 DEF IsMade, IsPage
  <1>3. ASSUME NEW i \in 1 .. n
        PROVE  C[i].name = MyField(Form, fields[i].field)
    <2>1. PICK u \in Seq(Nat) : u = GetFormField(cache, request, MyField(Form, fields[i].field))
      BY DEF IsMade
    <2>2. C[i] = Control(Widget(fields[i], u)) /\ IsWidget(fields[i])
      BY <2>1 DEF IsMade
    <2>3. Kept(fields[i], u)
      BY <2>2, WidgetKept
    <2>4. QED
      BY <2>2, <2>3 DEF Kept, MadeOf
  <1>4. ASSUME NEW i \in 1 .. n, fields[i].field = f
        PROVE  Keeps(fields[i], v, C[i])
    <2>1. C[i] = Control(Widget(fields[i], v)) /\ IsWidget(fields[i])
      BY <1>4 DEF IsMade
    <2>2. Kept(fields[i], v)
      BY <2>1, WidgetKept
    <2>3. ShownBy(fields[i], v)
      BY <1>2, <1>4 DEF Shows
    <2>4. QED
      BY <2>1, <2>2, <2>3 DEF Kept
  <1>5. ASSUME NEW i \in 1 .. n, C[i].name = MyField(Form, f)
        PROVE  fields[i].field = f
    BY <1>3, <1>5, FieldNamed
  <1>6. \A i \in DOMAIN p : p[i].on /\ p[i].name = MyField(Form, f) => p[i].value = v
    <2>1. SUFFICES ASSUME NEW i \in 1 .. n, p[i].on, p[i].name = MyField(Form, f)
                   PROVE  p[i].value = v
      BY <1>2
    <2>2. C[i].on /\ p[i].value = C[i].value /\ C[i].name = MyField(Form, f)
      BY <1>1, <2>1 DEF IsPage
    <2>3. Keeps(fields[i], v, C[i])
      BY <1>4, <1>5, <2>2
    <2>4. QED
      BY <2>2, <2>3 DEF Keeps
  <1>7. PICK k \in 1 .. n : p[k].on /\ p[k].name = MyField(Form, f)
    <2>1. PICK i \in 1 .. n : fields[i].field = f
      BY <1>2 DEF FieldNames
    <2>2. CASE fields[i].kind \notin RadioKinds
      <3>1. C[i].on /\ C[i].type # "radio"
        BY <1>4, <2>1, <2>2 DEF Keeps
      <3>2. p[i].on /\ p[i].name = C[i].name
        BY <1>1, <3>1 DEF IsPage
      <3>3. QED
        BY <1>3, <2>1, <3>2
    <2>3. CASE fields[i].kind \in RadioKinds
      <3>1. PICK j \in 1 .. n : fields[j].kind \in RadioKinds /\ fields[j].field = f /\ fields[j].value = v
        BY <1>2, <2>1, <2>3 DEF Shows, RadioKinds
      <3>2. PICK T : T = {m \in 1 .. n : fields[m].field = f /\ C[m].type = "radio" /\ C[m].on}
        OBVIOUS
      <3>3. j \in T
        BY <1>4, <3>1, <3>2 DEF Keeps
      <3>4. PICK k \in T : \A m \in T : m <= k
        <4>1. T \in SUBSET (0 .. n) /\ T # {}
          BY <3>2, <3>3
        <4>2. QED
          BY <1>2, <4>1, GreatestNumber
      <3>5. k \in 1 .. n /\ C[k].on /\ fields[k].field = f
        BY <3>2, <3>4
      <3>6. ASSUME NEW m \in k + 1 .. n, C[m].type = "radio", C[m].name = C[k].name, C[m].on
            PROVE  FALSE
        <4>1. m \in 1 .. n /\ k < m
          BY <3>5
        <4>2. fields[m].field = f
          BY <1>3, <1>5, <3>5, <3>6, <4>1
        <4>3. m \in T
          BY <3>2, <3>6, <4>1, <4>2
        <4>4. QED
          BY <3>4, <3>5, <4>1, <4>3
      <3>7. p[k].on /\ p[k].name = C[k].name
        BY <1>1, <3>5, <3>6 DEF IsPage
      <3>8. QED
        BY <1>3, <3>5, <3>7
    <2>4. QED
      BY <2>2, <2>3
  <1>8. PostsAs(p, MyField(Form, f), v)
    BY <1>2, <1>6, <1>7, PostedIs
  <1>9. QED
    BY <1>1, <1>8

-----------------------------------------------------------------------------
(* FormPages: what a request finds. *)

\* What is shown of a field: what was posted, or else the row's or nothing.
LEMMA FieldValue ==
  ASSUME NEW request, NEW cache \in Caches(request), NEW f \in FieldNames
  PROVE  /\ MyField(Form, f) \in DOMAIN request =>
              GetFormField(cache, request, MyField(Form, f)) = request[MyField(Form, f)]
         /\ MyField(Form, f) \notin DOMAIN request =>
              GetFormField(cache, request, MyField(Form, f)) \in {row[f], <<>>}
         /\ request = NoFields => GetFormField(cache, request, MyField(Form, f)) = row[f]
  <1>1. PICK name : name = MyField(Form, f)
    OBVIOUS
  <1>2. DOMAIN NoFields = {}
    BY DEF NoFields
  <1>3. CASE cache = DbToForm(NoFields, request)
    <2>1. PICK set : set = {MyField(Form, g) : g \in FieldNames} \ DOMAIN request
      OBVIOUS
    <2>2. cache = [n \in set |-> row[CHOOSE g \in FieldNames : MyField(Form, g) = n]]
      <3>1. DOMAIN NoFields \cup set = set
        BY <1>2
      <3>2. QED
        BY <1>3, <2>1, <3>1 DEF DbToForm
    <2>3. DOMAIN cache = set
      BY <2>2
    <2>4. CASE name \in DOMAIN request
      <3>1. name \notin DOMAIN cache
        BY <2>1, <2>3, <2>4
      <3>2. GetFormField(cache, request, name) = request[name]
        BY <2>4, <3>1 DEF GetFormField
      <3>3. QED
        BY <1>1, <1>2, <2>4, <3>2
    <2>5. CASE name \notin DOMAIN request
      <3>1. name \in set
        BY <1>1, <2>1, <2>5
      <3>2. PICK g : g = (CHOOSE h \in FieldNames : MyField(Form, h) = name)
        OBVIOUS
      <3>3. MyField(Form, g) = name
        BY <1>1, <3>2
      <3>4. g = f
        BY <1>1, <3>3, FieldNamed
      <3>5. cache[name] = row[g]
        BY <2>2, <3>1, <3>2
      <3>6. GetFormField(cache, request, name) = row[f]
        BY <2>3, <3>1, <3>4, <3>5 DEF GetFormField
      <3>7. QED
        BY <1>1, <2>5, <3>6
    <2>6. request = NoFields => name \notin DOMAIN request
      BY <1>2
    <2>7. QED
      BY <1>1, <2>4, <2>5, <2>6
  <1>4. CASE cache = NoFields /\ request # NoFields
    BY <1>2, <1>4 DEF GetFormField
  <1>5. QED
    BY <1>3, <1>4 DEF Caches

\* The controls of a form's page are those of its widgets.
PageTyped(p) ==
  \A i \in DOMAIN p :
    /\ i \in DOMAIN fields /\ DOMAIN p[i] = {"type", "name", "value", "on"}
    /\ p[i].value \in Seq(Nat) /\ (p[i].type = "select" => fields[i].kind \in ListKinds)

AreTexts(map) == \A n \in DOMAIN map : map[n] \in Seq(Nat)
RowTyped == \A f \in FieldNames : row[f] \in Seq(Nat)
FieldsTyped == fields = <<>> \/ fields \in Layouts

StoredRight ==
  stored # <<>> =>
    /\ MinRank # 0 => stored[1] >= MinRank
    /\ \A f \in FieldNames : row[f] = IF MyField(Form, f) \in DOMAIN front
                                      THEN front[MyField(Form, f)] ELSE <<>>
    /\ \A i \in Checked : Holds(Checks[i], MyField(Form, Checks[i].field) \in DOMAIN front,
                                row[Checks[i].field])

\* The inductive invariant: what is kept is text, the page as it came is the last request's,
\* and what is stored is what was posted then.
FormPagesInv ==
  /\ FieldsTyped /\ RowTyped /\ AreTexts(front) /\ PageTyped(page)
  /\ fields = <<>> => page = <<>> /\ rendered = <<>> /\ stored = <<>>
  /\ rendered # <<>> => \E cache \in Caches(front) : rendered = Rendered(cache, front)
  /\ StoredRight

\* Whatever is shown is text, and so is made into controls.
LEMMA FormMade ==
  ASSUME FieldsTyped, RowTyped, fields # <<>>, NEW request, AreTexts(request),
         NEW cache \in Caches(request)
  PROVE  \E n, C : IsMade(C, n, cache, request)
  <1>1. PICK n \in Nat : DOMAIN fields = 1 .. n /\ \A i \in 1 .. n : IsWidget(fields[i])
    BY FormPagesAssumption DEF FieldsTyped
  <1>2. ASSUME NEW i \in 1 .. n
        PROVE  GetFormField(cache, request, MyField(Form, fields[i].field)) \in Seq(Nat)
    <2>1. PICK f \in FieldNames : f = fields[i].field
      BY <1>1 DEF FieldNames
    <2>2. PICK x : x = GetFormField(cache, request, MyField(Form, f))
      OBVIOUS
    <2>3. <<>> \in Seq(Nat) /\ row[f] \in Seq(Nat)
      BY EmptySeq DEF RowTyped
    <2>4. (MyField(Form, f) \in DOMAIN request /\ x = request[MyField(Form, f)]) \/ x \in {row[f], <<>>}
      BY <2>2, FieldValue
    <2>5. x \in Seq(Nat)
      BY <2>3, <2>4 DEF AreTexts
    <2>6. QED
      BY <2>1, <2>2, <2>5
  <1>3. PICK C : C = [i \in 1 .. n |->
            Control(Widget(fields[i], GetFormField(cache, request, MyField(Form, fields[i].field))))]
    OBVIOUS
  <1>4. IsMade(C, n, cache, request)
    BY <1>1, <1>2, <1>3 DEF IsMade
  <1>5. QED
    BY <1>4

\* Its controls are those of its widgets.
LEMMA RenderedTyped ==
  ASSUME FieldsTyped, RowTyped, fields # <<>>, NEW request, AreTexts(request),
         NEW cache \in Caches(request)
  PROVE  PageTyped(Rendered(cache, request))
  <1>1. PICK n, C : IsMade(C, n, cache, request)
    BY FormMade
  <1>2. PICK p : p = Rendered(cache, request) /\ IsPage(p, C, n)
    BY <1>1, RenderedPage
  <1>3. ASSUME NEW i \in 1 .. n PROVE MadeOf(fields[i], C[i])
    <2>1. PICK u \in Seq(Nat) : u = GetFormField(cache, request, MyField(Form, fields[i].field))
      BY <1>1 DEF IsMade
    <2>2. C[i] = Control(Widget(fields[i], u)) /\ IsWidget(fields[i])
      BY <1>1, <2>1 DEF IsMade
    <2>3. Kept(fields[i], u)
      BY <2>2, WidgetKept
    <2>4. QED
      BY <2>2, <2>3 DEF Kept
  <1>4. DOMAIN fields = 1 .. n /\ DOMAIN p = 1 .. n
    BY <1>1, <1>2 DEF IsMade, IsPage
  <1>5. ASSUME NEW i \in 1 .. n
        PROVE  /\ DOMAIN p[i] = {"type", "name", "value", "on"} /\ p[i].value \in Seq(Nat)
               /\ p[i].type = "select" => fields[i].kind \in ListKinds
    BY <1>2, <1>3 DEF IsPage, MadeOf
  <1>6. PageTyped(p)
    BY <1>4, <1>5 DEF PageTyped
  <1>7. QED
    BY <1>2, <1>6

\* What is posted is text.
LEMMA PostedTyped ==
  ASSUME PageTyped(page)
  PROVE  AreTexts(PostedBy(page))
  <1>1. PICK on : on = {i \in DOMAIN page : page[i].on}
    OBVIOUS
  <1>2. PostedBy(page) = [m \in {page[i].name : i \in on} |-> page[CHOOSE i \in on : page[i].name = m].value]
    BY <1>1 DEF PostedBy
  <1>3. ASSUME NEW m \in {page[i].name : i \in on}
        PROVE  page[CHOOSE i \in on : page[i].name = m].value \in Seq(Nat)
    <2>1. (CHOOSE i \in on : page[i].name = m) \in on
      OBVIOUS
    <2>2. QED
      BY <1>1, <2>1 DEF PageTyped
  <1>4. QED
    BY <1>2, <1>3 DEF AreTexts

-----------------------------------------------------------------------------
(* FormPages: its steps. *)

\* In the beginning there is no form.
LEMMA FormInit == FormPagesInit => FormPagesInv
  <1>1. SUFFICES ASSUME FormPagesInit PROVE FormPagesInv
    OBVIOUS
  <1>2. fields = <<>> /\ row = NoFields /\ front = NoFields /\ page = <<>>
        /\ rendered = <<>> /\ stored = <<>>
    BY <1>1 DEF FormPagesInit
  <1>3. DOMAIN page = {} /\ DOMAIN front = {} /\ DOMAIN fields = {}
    BY <1>2 DEF NoFields
  <1>4. FieldNames = {}
    BY <1>3 DEF FieldNames
  <1>5. QED
    BY <1>2, <1>3, <1>4 DEF FormPagesInv, FieldsTyped, RowTyped, AreTexts, PageTyped, StoredRight

\* A form is chosen before there is a page.
LEMMA FormChosen ==
  ASSUME FormPagesInv, ChooseForm
  PROVE  FormPagesInv'
  <1>1. /\ page' = <<>> /\ rendered' = <<>> /\ stored' = <<>> /\ front' = front
        /\ fields' \in Layouts /\ row' \in [FieldNames' -> Typed]
    BY DEF ChooseForm, FormPagesInv
  <1>2. \A f \in FieldNames' : row'[f] \in Seq(Nat)
    BY <1>1, FormPagesAssumption
  <1>3. DOMAIN page' = {}
    BY <1>1
  <1>4. AreTexts(front)'
    BY <1>1 DEF FormPagesInv, AreTexts
  <1>5. QED
    BY <1>1, <1>2, <1>3, <1>4 DEF FormPagesInv, FieldsTyped, RowTyped, PageTyped, StoredRight

\* What an answered request leaves.
FormAnswered(request) ==
  /\ front' = request /\ UNCHANGED fields
  /\ \/ page' = <<>> /\ rendered' = <<>> /\ stored' = <<>> /\ UNCHANGED row
     \/ /\ stored' = <<>> /\ UNCHANGED row
        /\ \E cache \in Caches(request) : page' = Rendered(cache, request) /\ rendered' = page'
     \/ /\ page' = <<>> /\ rendered' = <<>> /\ stored' = <<rank>> /\ HasRank(MinRank)
        /\ Failing(NoFields, request) = {}
        /\ row' = [f \in FieldNames |-> GetFormField(NoFields, request, MyField(Form, f))]

\* A handler behind its t_assert_rank does one of the three.
LEMMA GuardedAnswers ==
  ASSUME NEW request, Guarded(request)
  PROVE  FormAnswered(request)
  <1>1. UNCHANGED fields /\ rendered' = page'
    BY DEF Guarded
  <1>2. CASE ~HasRank(MinRank)
    BY <1>1, <1>2 DEF Guarded, FormAnswered
  <1>3. CASE HasRank(MinRank) /\ request # NoFields /\ Failing(NoFields, request) = {}
    <2>1. Handle(request)
      BY <1>3 DEF Guarded
    <2>2. /\ front' = request /\ page' = <<>> /\ stored' = <<rank>>
          /\ row' = [f \in FieldNames |-> GetFormField(NoFields, request, MyField(Form, f))]
      BY <1>3, <2>1 DEF Handle
    <2>3. QED
      BY <1>1, <1>3, <2>2 DEF FormAnswered
  <1>4. CASE HasRank(MinRank) /\ ~(request # NoFields /\ Failing(NoFields, request) = {})
    <2>1. Handle(request)
      BY <1>4 DEF Guarded
    <2>2. /\ front' = request /\ stored' = <<>> /\ UNCHANGED row
          /\ \E cache \in Caches(request) : page' = Rendered(cache, request)
      BY <1>4, <2>1 DEF Handle
    <2>3. QED
      BY <1>1, <2>2 DEF FormAnswered
  <1>5. QED
    BY <1>2, <1>3, <1>4

\* Without a cache the checks and the row get what was posted.
LEMMA PostedValue ==
  ASSUME NEW request, NEW name
  PROVE  /\ GetFormField(NoFields, request, name) =
              IF name \in DOMAIN request THEN request[name] ELSE <<>>
         /\ HasFormField(NoFields, request, name) <=> name \in DOMAIN request
  <1>1. DOMAIN NoFields = {}
    BY DEF NoFields
  <1>2. QED
    BY <1>1 DEF GetFormField, HasFormField

\* A check looks at the request alone then.
LEMMA PostedChecked ==
  ASSUME NEW request, NEW name, NEW check, NEW value,
         Holds(check, HasFormField(NoFields, request, name), value)
  PROVE  Holds(check, name \in DOMAIN request, value)
  <1>1. DOMAIN NoFields = {}
    BY DEF NoFields
  <1>2. PICK D : D = DOMAIN request /\ D = DOMAIN NoFields \cup D
    BY <1>1
  <1>3. Holds(check, name \in DOMAIN NoFields \cup D, value)
    BY <1>2, Zenon DEF HasFormField
  <1>4. Holds(check, name \in D, value)
    BY <1>2, <1>3, Zenon
  <1>5. QED
    BY <1>2, <1>4, Zenon

\* Whatever it leaves is what the invariant says of the request.
LEMMA RequestAnswered ==
  ASSUME FormPagesInv, fields # <<>>, NEW request, AreTexts(request), FormAnswered(request)
  PROVE  FormPagesInv'
  <1>1. FieldsTyped /\ RowTyped
    BY DEF FormPagesInv
  <1>2. /\ front' = request /\ UNCHANGED fields /\ FieldsTyped' /\ AreTexts(front)'
        /\ FieldNames' = FieldNames
    BY <1>1 DEF FormAnswered, FieldsTyped, AreTexts, FieldNames
  <1>3. CASE page' = <<>> /\ rendered' = <<>> /\ stored' = <<>> /\ UNCHANGED row
    <2>1. PageTyped(page)' /\ StoredRight' /\ RowTyped'
      BY <1>1, <1>2, <1>3 DEF PageTyped, StoredRight, RowTyped
    <2>2. QED
      BY <1>2, <1>3, <2>1 DEF FormPagesInv
  <1>4. ASSUME stored' = <<>>, UNCHANGED row, NEW cache \in Caches(request),
               page' = Rendered(cache, request), rendered' = page'
        PROVE  FormPagesInv'
    <2>1. PageTyped(Rendered(cache, request))
      BY <1>1, RenderedTyped
    <2>2. PICK p : p = Rendered(cache, request) /\ PageTyped(p) /\ page' = p
      BY <1>4, <2>1
    <2>3. PageTyped(page)'
      BY <1>2, <2>2 DEF PageTyped
    <2>4. StoredRight' /\ RowTyped'
      BY <1>1, <1>2, <1>4 DEF StoredRight, RowTyped
    <2>5. (\E c \in Caches(front) : rendered = Rendered(c, front))'
      <3>1. Caches(front)' = Caches(request)
        BY <1>2, <1>4 DEF Caches, DbToForm
      <3>2. Rendered(cache, front)' = Rendered(cache, request)
        BY <1>2 DEF Rendered
      <3>3. QED
        BY <1>4, <3>1, <3>2
    <2>6. QED
      BY <1>2, <2>3, <2>4, <2>5 DEF FormPagesInv
  <1>5. CASE /\ page' = <<>> /\ rendered' = <<>> /\ stored' = <<rank>> /\ HasRank(MinRank)
             /\ Failing(NoFields, request) = {}
             /\ row' = [f \in FieldNames |-> GetFormField(NoFields, request, MyField(Form, f))]
    <2>1. ASSUME NEW f \in FieldNames
          PROVE  row'[f] = IF MyField(Form, f) \in DOMAIN request
                           THEN request[MyField(Form, f)] ELSE <<>>
      BY <1>5, PostedValue
    <2>2. RowTyped'
      <3>1. <<>> \in Seq(Nat)
        OBVIOUS
      <3>2. ASSUME NEW f \in FieldNames PROVE row'[f] \in Seq(Nat)
        BY <2>1, <3>1 DEF AreTexts
      <3>3. QED
        BY <1>2, <3>2 DEF RowTyped
    <2>3. PageTyped(page)'
      BY <1>5 DEF PageTyped
    <2>4. MinRank # 0 => rank >= MinRank
      BY <1>5 DEF HasRank
    <2>5. ASSUME NEW i \in Checked
          PROVE  Holds(Checks[i], MyField(Form, Checks[i].field) \in DOMAIN request,
                       row'[Checks[i].field])
      <3>1. Checks[i].field \in FieldNames
        BY DEF Checked
      <3>2. PICK name : name = MyField(Form, Checks[i].field)
        OBVIOUS
      <3>3. Holds(Checks[i], HasFormField(NoFields, request, name),
                  GetFormField(NoFields, request, name))
        BY <1>5, <3>2 DEF Failing
      <3>4. GetFormField(NoFields, request, name) = row'[Checks[i].field]
        BY <1>5, <3>1, <3>2
      <3>5. Holds(Checks[i], name \in DOMAIN request, GetFormField(NoFields, request, name))
        BY <3>3, PostedChecked
      <3>6. QED
        BY <3>2, <3>4, <3>5
    <2>6. Checked' = Checked
      BY <1>2 DEF Checked
    <2>7. StoredRight'
      BY <1>2, <1>5, <2>1, <2>4, <2>5, <2>6 DEF StoredRight
    <2>8. QED
      BY <1>2, <1>5, <2>2, <2>3, <2>7 DEF FormPagesInv
  <1>6. QED
    BY <1>3, <1>4, <1>5 DEF FormAnswered

\* Opening a form is a request without fields.
LEMMA FormOpened ==
  ASSUME FormPagesInv, OpenForm
  PROVE  FormPagesInv'
  <1>1. fields # <<>> /\ FormAnswered(NoFields)
    BY GuardedAnswers DEF OpenForm
  <1>2. AreTexts(NoFields)
    BY DEF AreTexts, NoFields
  <1>3. QED
    BY <1>1, <1>2, RequestAnswered

\* Submitting it is one with the fields of the page.
LEMMA FormSubmitted ==
  ASSUME FormPagesInv, Submit
  PROVE  FormPagesInv'
  <1>1. page # <<>> /\ FormAnswered(PostedBy(page))
    BY GuardedAnswers DEF Submit
  <1>2. fields # <<>> /\ AreTexts(PostedBy(page))
    BY <1>1, PostedTyped DEF FormPagesInv
  <1>3. QED
    BY <1>1, <1>2, RequestAnswered

\* What a user changes stays a page of the form.
LEMMA EditedTyped ==
  ASSUME FormPagesInv, NEW i \in DOMAIN page, EditControl(i)
  PROVE  PageTyped(page')
  <1>1. PageTyped(page) /\ FieldsTyped
    BY DEF FormPagesInv
  <1>2. ASSUME NEW v \in Seq(Nat), page' = [page EXCEPT ![i].value = v]
        PROVE  PageTyped(page')
    BY <1>1, <1>2 DEF PageTyped
  <1>3. CASE page[i].type \in {"text", "password"}
    <2>1. PICK v \in Typed : page' = [page EXCEPT ![i].value = v]
      BY <1>3 DEF EditControl
    <2>2. v \in Seq(Nat)
      BY FormPagesAssumption
    <2>3. QED
      BY <1>2, <2>1, <2>2
  <1>4. CASE page[i].type = "select"
    <2>1. PICK v \in ToSet(fields[i].options) : page' = [page EXCEPT ![i].value = v]
      BY <1>4 DEF EditControl
    <2>2. i \in DOMAIN fields /\ fields[i].kind \in ListKinds
      BY <1>1, <1>4 DEF PageTyped
    <2>3. IsWidget(fields[i])
      BY <1>1, <2>2, FormPagesAssumption DEF FieldsTyped
    <2>4. fields[i].options \in Seq(Seq(Nat))
      BY <2>2, <2>3 DEF IsWidget, ListKinds
    <2>5. v \in Seq(Nat)
      BY <2>1, <2>4 DEF ToSet
    <2>6. QED
      BY <1>2, <2>1, <2>5
  <1>5. CASE page[i].type = "checkbox"
    <2>1. page' = [page EXCEPT ![i].on = ~page[i].on]
      BY <1>5 DEF EditControl
    <2>2. PICK on : on = ~page[i].on
      OBVIOUS
    <2>3. page' = [page EXCEPT ![i].on = on]
      BY <2>1, <2>2
    <2>4. QED
      BY <1>1, <2>3 DEF PageTyped
  <1>6. CASE page[i].type = "radio"
    <2>1. page' = [j \in DOMAIN page |->
                     IF page[j].name = page[i].name THEN [page[j] EXCEPT !.on = (j = i)] ELSE page[j]]
      BY <1>6 DEF EditControl
    <2>2. ASSUME NEW j \in DOMAIN page
          PROVE  /\ DOMAIN page'[j] = {"type", "name", "value", "on"}
                 /\ page'[j].value = page[j].value /\ page'[j].type = page[j].type
      <3>1. PICK c : c = page[j] /\ DOMAIN c = {"type", "name", "value", "on"}
        BY <1>1 DEF PageTyped
      <3>2. PICK on : on = (j = i)
        OBVIOUS
      <3>3. page'[j] = [c EXCEPT !.on = on] \/ page'[j] = c
        BY <2>1, <3>1, <3>2
      <3>4. QED
        BY <3>1, <3>3
    <2>3. DOMAIN page' = DOMAIN page
      BY <2>1
    <2>4. QED
      BY <1>1, <2>2, <2>3 DEF PageTyped
  <1>7. CASE page[i].type \notin {"text", "password", "select", "checkbox", "radio"}
    BY <1>7 DEF EditControl
  <1>8. QED
    BY <1>3, <1>4, <1>5, <1>6, <1>7

\* What does not touch the form, the row or the last request keeps what is said of them.
LEMMA Unedited ==
  ASSUME FormPagesInv, UNCHANGED <<fields, row, front, rendered, stored>>, PageTyped(page'),
         fields = <<>> => page' = <<>>
  PROVE  FormPagesInv'
  <1>1. UNCHANGED <<FieldNames, Checked>>
    BY DEF FieldNames, Checked
  <1>2. FieldsTyped' /\ RowTyped' /\ AreTexts(front)' /\ PageTyped(page)' /\ StoredRight'
    BY <1>1 DEF FormPagesInv, FieldsTyped, RowTyped, AreTexts, PageTyped, StoredRight
  <1>3. rendered' # <<>> => (\E c \in Caches(front) : rendered = Rendered(c, front))'
    <2>1. Caches(front)' = Caches(front)
      BY DEF Caches, DbToForm, FieldNames
    <2>2. \A c : Rendered(c, front)' = Rendered(c, front)
      BY DEF Rendered
    <2>3. QED
      BY <2>1, <2>2 DEF FormPagesInv
  <1>4. QED
    BY <1>2, <1>3 DEF FormPagesInv

\* Every step keeps the invariant.
LEMMA FormStepKept == FormPagesInv /\ [FormPagesNext]_formpagevars => FormPagesInv'
  <1>1. SUFFICES ASSUME FormPagesInv, [FormPagesNext]_formpagevars PROVE FormPagesInv'
    OBVIOUS
  <1>2. ASSUME NEW i \in DOMAIN page, EditControl(i) PROVE FormPagesInv'
    <2>1. PageTyped(page')
      BY <1>1, <1>2, EditedTyped
    <2>2. UNCHANGED <<fields, row, front, rendered, stored>>
      BY <1>2 DEF EditControl
    <2>3. fields # <<>>
      <3>1. i \in DOMAIN fields
        BY <1>1 DEF FormPagesInv, PageTyped
      <3>2. QED
        BY <3>1
    <2>4. QED
      BY <1>1, <2>1, <2>2, <2>3, Unedited
  <1>3. ASSUME UNCHANGED <<fields, row, front, page, rendered, stored>> PROVE FormPagesInv'
    <2>1. PageTyped(page') /\ (fields = <<>> => page' = <<>>)
      BY <1>1, <1>3 DEF FormPagesInv
    <2>2. QED
      BY <1>1, <1>3, <2>1, Unedited
  <1>4. CASE RankChanges
    BY <1>3, <1>4 DEF RankChanges
  <1>5. CASE UNCHANGED formpagevars
    BY <1>3, <1>5 DEF formpagevars
  <1>6. QED
    BY <1>1, <1>2, <1>4, <1>5, FormChosen, FormOpened, FormSubmitted DEF FormPagesNext

\* The invariant has what comes back.
LEMMA FormsReturn == FormPagesInv => FormReturns
  <1>1. SUFFICES ASSUME FormPagesInv PROVE FormReturns
    OBVIOUS
  <1>2. ASSUME page = rendered, page # <<>>, NEW f \in FieldNames
        PROVE  /\ MyField(Form, f) \in DOMAIN front /\ Shows(f, front[MyField(Form, f)]) =>
                    PostsAs(page, MyField(Form, f), front[MyField(Form, f)])
               /\ front = NoFields /\ Shows(f, row[f]) => PostsAs(page, MyField(Form, f), row[f])
    <2>1. PICK cache \in Caches(front) : page = Rendered(cache, front)
      BY <1>1, <1>2 DEF FormPagesInv
    <2>2. FieldsTyped /\ RowTyped /\ AreTexts(front) /\ fields # <<>>
      BY <1>1, <1>2 DEF FormPagesInv
    <2>3. PICK n, C : IsMade(C, n, cache, front)
      BY <2>2, FormMade
    <2>4. PICK name : name = MyField(Form, f)
      OBVIOUS
    <2>5. ASSUME name \in DOMAIN front, Shows(f, front[name]) PROVE PostsAs(page, name, front[name])
      <3>1. PICK v \in Seq(Nat) : v = front[name]
        BY <2>2, <2>5 DEF AreTexts
      <3>2. v = GetFormField(cache, front, MyField(Form, f))
        BY <2>4, <2>5, <3>1, FieldValue
      <3>3. Shows(f, v)
        BY <2>5, <3>1
      <3>4. PostsAs(Rendered(cache, front), MyField(Form, f), v)
        BY <2>3, <3>2, <3>3, RenderedPosts
      <3>5. QED
        BY <2>1, <2>4, <3>1, <3>4
    <2>6. ASSUME front = NoFields, Shows(f, row[f]) PROVE PostsAs(page, name, row[f])
      <3>1. PICK v \in Seq(Nat) : v = row[f]
        BY <2>2 DEF RowTyped
      <3>2. v = GetFormField(cache, front, MyField(Form, f))
        BY <2>6, <3>1, FieldValue
      <3>3. Shows(f, v)
        BY <2>6, <3>1
      <3>4. PostsAs(Rendered(cache, front), MyField(Form, f), v)
        BY <2>3, <3>2, <3>3, RenderedPosts
      <3>5. QED
        BY <2>1, <2>4, <3>1, <3>4
    <2>7. QED
      BY <2>4, <2>5, <2>6
  <1>3. ASSUME page = rendered, page # <<>>, NEW f \in FieldNames, NEW name, name = MyField(Form, f)
        PROVE  /\ name \in DOMAIN front /\ Shows(f, front[name]) =>
                    name \in DOMAIN PostedBy(page) /\ PostedBy(page)[name] = front[name]
               /\ front = NoFields /\ Shows(f, row[f]) =>
                    name \in DOMAIN PostedBy(page) /\ PostedBy(page)[name] = row[f]
    BY <1>2, <1>3 DEF PostsAs
  <1>4. StoredRight
    BY <1>1 DEF FormPagesInv
  <1>5. QED
    BY <1>3, <1>4 DEF FormReturns, StoredRight

\* A form that comes back with errors posts again what the user posted, and a form that is
\* opened posts the row, whatever characters are in it and however many fields of whatever kinds
\* the form has, as long as the widgets can show it; what is stored comes from a session of the
\* rank, is what was posted, and passes every check.
THEOREM FormsComeBack == FormPagesSpec => []FormReturns
  <1>1. FormPagesSpec => []FormPagesInv
    BY FormInit, FormStepKept, PTL DEF FormPagesSpec
  <1>2. QED
    BY <1>1, FormsReturn, PTL

-----------------------------------------------------------------------------
(* Files that are sent. *)

-----------------------------------------------------------------------------
(* Files that are sent. *)

\* F makes, of a function, its value at a place, which depends on those at later ones.
LooksAhead(F, S, n) ==
  /\ \A i \in 1 .. n, x \in [1 .. n -> S] : F[<<i, x>>] \in S
  /\ \A i \in 1 .. n, x \in [1 .. n -> S], y \in [1 .. n -> S] :
       (\A j \in i + 1 .. n : x[j] = y[j]) => F[<<i, x>>] = F[<<i, y>>]

\* f is the function whose values it makes.
IsMadeBy(f, F, n) == \A i \in 1 .. n : f[i] = F[<<i, f>>]

\* h has what G makes of start after any number of times.
IsIteration(h, S, start, G) ==
  h \in [Nat -> S] /\ h[0] = start /\ \A n \in Nat : h[n + 1] = G[h[n]]

\* There is one.
LEMMA Iterations ==
  ASSUME NEW S, NEW start \in S, NEW G \in [S -> S]
  PROVE  \E h : IsIteration(h, S, start, G)
  <1>1. \E h \in [Nat -> S] : h[0] = start /\ \A n \in Nat : h[n + 1] = G[h[n]]
    BY Iterates
  <1>2. QED
    BY <1>1 DEF IsIteration

\* There is such a function.
LEMMA RecursionExists ==
  ASSUME NEW S, S # {}, NEW n \in Nat, NEW F, LooksAhead(F, S, n)
  PROVE  \E f \in [1 .. n -> S] : IsMadeBy(f, F, n)
  <1>1. PICK Fns : Fns = [1 .. n -> S]
    OBVIOUS
  <1>2. PICK G : G = [x \in Fns |-> [i \in 1 .. n |-> F[<<i, x>>]]]
    OBVIOUS
  <1>3. G \in [Fns -> Fns]
    BY <1>1, <1>2 DEF LooksAhead
  <1>4. PICK start \in Fns : TRUE
    <2>1. PICK d \in S : TRUE
      OBVIOUS
    <2>2. [i \in 1 .. n |-> d] \in Fns
      BY <1>1
    <2>3. QED
      BY <2>2
  <1>5. PICK h : h \in [Nat -> Fns] /\ h[0] = start /\ \A m \in Nat : h[m + 1] = G[h[m]]
    <2>1. \E f : IsIteration(f, Fns, start, G)
      BY <1>3, Iterations
    <2>2. QED
      BY <2>1 DEF IsIteration
  <1>6. ASSUME NEW m \in Nat, NEW i \in 1 .. n
        PROVE  h[m] \in [1 .. n -> S] /\ h[m + 1][i] = F[<<i, h[m]>>]
    <2>1. h[m] \in Fns /\ h[m + 1] = G[h[m]]
      BY <1>5
    <2>2. QED
      BY <1>1, <1>2, <2>1
  <1> DEFINE Done == {k \in Nat : \A m \in Nat : k <= m =>
                        \A i \in 1 .. n : n + 1 - i <= k => h[m][i] = h[k][i]}
  <1>7. 0 \in Done
    OBVIOUS
  <1>8. ASSUME NEW k \in Done PROVE k + 1 \in Done
    <2>1. k \in Nat
      OBVIOUS
    <2>2. SUFFICES ASSUME NEW m \in Nat, k + 1 <= m, NEW i \in 1 .. n, n + 1 - i <= k + 1
                   PROVE  h[m][i] = h[k + 1][i]
      BY <2>1
    <2>3. PICK p \in Nat : p = m - 1 /\ p + 1 = m /\ k <= p
      <3>1. m - 1 \in Nat /\ (m - 1) + 1 = m /\ k <= m - 1
        BY <2>1, <2>2
      <3>2. QED
        BY <3>1
    <2>4. \A j \in i + 1 .. n : h[p][j] = h[k][j]
      <3>1. ASSUME NEW j \in i + 1 .. n PROVE j \in 1 .. n /\ n + 1 - j <= k
        BY <2>1, <2>2
      <3>2. QED
        BY <2>3, <3>1
    <2>5. h[p] \in [1 .. n -> S] /\ h[k] \in [1 .. n -> S]
      BY <1>6, <2>1, <2>2
    <2>6. F[<<i, h[p]>>] = F[<<i, h[k]>>]
      BY <2>4, <2>5 DEF LooksAhead
    <2>7. h[p + 1][i] = F[<<i, h[p]>>] /\ h[k + 1][i] = F[<<i, h[k]>>]
      BY <1>6, <2>1
    <2>8. QED
      BY <2>3, <2>6, <2>7
  <1>9. n \in Done
    <2> HIDE DEF Done
    <2>1. Done \in SUBSET Nat
      BY DEF Done
    <2>2. QED
      BY <1>7, <1>8, <2>1, AllNumbers
  <1>10. PICK f : f = h[n]
    OBVIOUS
  <1>11. f \in [1 .. n -> S]
    BY <1>1, <1>5, <1>10
  <1>12. ASSUME NEW i \in 1 .. n PROVE f[i] = F[<<i, f>>]
    <2>1. n <= n + 1 /\ n + 1 - i <= n /\ n + 1 \in Nat
      OBVIOUS
    <2>2. h[n + 1][i] = h[n][i]
      BY <1>9, <2>1
    <2>3. QED
      BY <1>6, <1>10, <2>2
  <1>13. QED
    BY <1>11, <1>12 DEF IsMadeBy

\* The ends of the lines from place i on, before place e.
LineEnds(s, i, e) == {j \in i + 1 .. e - 1 : SubSeq(s, j - 1, j) = CRLF}

\* What Block's function has at place i, if it is f.
BlockAt(s, e, f, i) ==
  CASE LineEnds(s, i, e) = {} -> [ok |-> FALSE, lines |-> <<>>, content |-> <<>>]
    [] LineEnds(s, i, e) # {} /\ i + 1 \in LineEnds(s, i, e) ->
         [ok |-> TRUE, lines |-> <<>>, content |-> SubSeq(s, i + 2, e - 1)]
    [] OTHER -> [f[First(LineEnds(s, i, e)) + 1] EXCEPT !.lines = <<Line(s[i])>> \o @]

IsBlockFunction(f, s, e, n) == \A i \in 1 .. n : f[i] = BlockAt(s, e, f, i)

\* A set of places has a first one.
LEMMA FirstIs ==
  ASSUME NEW T \in SUBSET Nat, T # {}
  PROVE  First(T) \in T /\ \A j \in T : First(T) <= j
  BY LeastNumber DEF First

\* Block has such a function's values.
LEMMA BlockRead ==
  ASSUME NEW s, NEW n \in Nat, n = Len(s), NEW start \in 1 .. n, NEW e \in 1 .. n
  PROVE  \E f : Block(s, start, e) = f[start] /\ IsBlockFunction(f, s, e, n)
  <1>1. PICK L : L = {Line(s[i]) : i \in 1 .. n}
    OBVIOUS
  <1>2. PICK C : C = {<<>>} \cup {SubSeq(s, i + 2, e - 1) : i \in 1 .. n}
    OBVIOUS
  <1>3. PICK S : S = [ok : BOOLEAN, lines : Seq(L), content : C]
    OBVIOUS
  <1>4. PICK Fns : Fns = [1 .. n -> S]
    OBVIOUS
  <1>5. PICK F : F = [p \in (1 .. n) \X Fns |-> BlockAt(s, e, p[2], p[1])]
    OBVIOUS
  <1>6. \A i \in 1 .. n, x \in Fns : F[<<i, x>>] = BlockAt(s, e, x, i)
    BY <1>5
  <1>7. ASSUME NEW i \in 1 .. n, LineEnds(s, i, e) # {}
        PROVE  First(LineEnds(s, i, e)) + 1 \in i + 1 .. n
    <2>1. LineEnds(s, i, e) \in SUBSET Nat
      BY DEF LineEnds
    <2>2. First(LineEnds(s, i, e)) \in LineEnds(s, i, e)
      BY <1>7, <2>1, FirstIs
    <2>3. First(LineEnds(s, i, e)) \in i + 1 .. e - 1
      BY <2>2 DEF LineEnds
    <2>4. QED
      BY <2>3
  <1>8. [ok |-> FALSE, lines |-> <<>>, content |-> <<>>] \in S
    BY <1>2, <1>3
  <1>9. ASSUME NEW i \in 1 .. n, NEW x \in Fns PROVE BlockAt(s, e, x, i) \in S
    <2>1. CASE LineEnds(s, i, e) = {}
      BY <1>8, <2>1 DEF BlockAt
    <2>2. CASE LineEnds(s, i, e) # {} /\ i + 1 \in LineEnds(s, i, e)
      <3>1. [ok |-> TRUE, lines |-> <<>>, content |-> SubSeq(s, i + 2, e - 1)] \in S
        BY <1>2, <1>3
      <3>2. QED
        BY <2>2, <3>1 DEF BlockAt
    <2>3. CASE LineEnds(s, i, e) # {} /\ i + 1 \notin LineEnds(s, i, e)
      <3>1. PICK j \in i + 1 .. n : j = First(LineEnds(s, i, e)) + 1
        BY <1>7, <2>3
      <3>2. j \in 1 .. n
        OBVIOUS
      <3>3. x[j] \in S
        BY <1>4, <3>2
      <3>4. PICK l \in L : l = Line(s[i])
        BY <1>1
      <3>5. PICK y \in S : y = x[j]
        BY <3>3
      <3>6. <<l>> \o y.lines \in Seq(L)
        BY <1>3
      <3>7. [y EXCEPT !.lines = <<l>> \o @] \in S
        BY <1>3, <3>6
      <3>8. BlockAt(s, e, x, i)
              = [x[First(LineEnds(s, i, e)) + 1] EXCEPT !.lines = <<Line(s[i])>> \o @]
        BY <2>3 DEF BlockAt
      <3>9. QED
        BY <3>1, <3>4, <3>5, <3>7, <3>8
    <2>4. QED
      BY <2>1, <2>2, <2>3
  <1>10. ASSUME NEW i \in 1 .. n, NEW x, NEW y, \A j \in i + 1 .. n : x[j] = y[j]
         PROVE  BlockAt(s, e, x, i) = BlockAt(s, e, y, i)
    <2>1. CASE LineEnds(s, i, e) # {}
      <3>1. x[First(LineEnds(s, i, e)) + 1] = y[First(LineEnds(s, i, e)) + 1]
        BY <1>7, <1>10, <2>1
      <3>2. QED
        BY <3>1 DEF BlockAt
    <2>2. CASE LineEnds(s, i, e) = {}
      BY <2>2 DEF BlockAt
    <2>3. QED
      BY <2>1, <2>2
  <1>11. PICK g \in Fns : \A i \in 1 .. n : g[i] = F[<<i, g>>]
    <2>1. S # {}
      BY <1>8
    <2>2. LooksAhead(F, S, n)
      <3>1. \A i \in 1 .. n, x \in Fns : F[<<i, x>>] \in S
        BY <1>6, <1>9
      <3>2. ASSUME NEW i \in 1 .. n, NEW x \in Fns, NEW y \in Fns,
                   \A j \in i + 1 .. n : x[j] = y[j]
            PROVE  F[<<i, x>>] = F[<<i, y>>]
        <4>1. BlockAt(s, e, x, i) = BlockAt(s, e, y, i)
          BY <1>10, <3>2
        <4>2. QED
          BY <1>6, <4>1
      <3>3. \A i \in 1 .. n, x \in Fns, y \in Fns :
              (\A j \in i + 1 .. n : x[j] = y[j]) => F[<<i, x>>] = F[<<i, y>>]
        BY <3>2
      <3>4. LooksAhead(F, S, n) =
              /\ \A i \in 1 .. n, x \in Fns : F[<<i, x>>] \in S
              /\ \A i \in 1 .. n, x \in Fns, y \in Fns :
                   (\A j \in i + 1 .. n : x[j] = y[j]) => F[<<i, x>>] = F[<<i, y>>]
        BY ONLY <1>4 DEF LooksAhead
      <3>5. QED
        BY <3>1, <3>3, <3>4
    <2>3. \E f \in [1 .. n -> S] : IsMadeBy(f, F, n)
      BY <2>1, <2>2, RecursionExists
    <2>4. QED
      BY <1>4, <2>3 DEF IsMadeBy
  <1> DEFINE from == CHOOSE f : f = [i \in 1 .. Len(s) |->
        LET ends == {j \in i + 1 .. e - 1 : SubSeq(s, j - 1, j) = CRLF} IN
        CASE ends = {} -> [ok |-> FALSE, lines |-> <<>>, content |-> <<>>]
          [] ends # {} /\ i + 1 \in ends ->
               [ok |-> TRUE, lines |-> <<>>, content |-> SubSeq(s, i + 2, e - 1)]
          [] OTHER -> [f[First(ends) + 1] EXCEPT !.lines = <<Line(s[i])>> \o @]]
  <1>12. from = CHOOSE f : f = [i \in 1 .. n |-> BlockAt(s, e, f, i)]
    BY DEF BlockAt, LineEnds
  <1>13. Block(s, start, e) = from[start]
    BY DEF Block
  <1> HIDE DEF from
  <1>14. g = [i \in 1 .. n |-> BlockAt(s, e, g, i)]
    BY <1>4, <1>6, <1>11
  <1>15. from = [i \in 1 .. n |-> BlockAt(s, e, from, i)]
    BY <1>12, <1>14
  <1>16. \A i \in 1 .. n : from[i] = BlockAt(s, e, from, i)
    BY <1>15
  <1>17. QED
    BY <1>13, <1>16 DEF IsBlockFunction

\* What Blocks' function has at place start, if it is f.
BlocksAt(s, f, start) ==
  LET ends  == Delimiters(s, start)
      end   == First(ends) - 3
      block == Block(s, start, end)
      next  == end + 4 + Len(Boundary)
      last  == \/ next < Len(s) /\ s[next] = Dash /\ s[next + 1] = Dash
               \/ next + 1 > Len(s)
      rest  == IF last THEN [ok |-> TRUE, blocks |-> <<>>] ELSE f[next + 2] IN
  IF ends = {} THEN [ok |-> FALSE, blocks |-> <<>>]
  ELSE IF start = end THEN rest
  ELSE [ok |-> block.ok /\ rest.ok, blocks |-> <<block>> \o rest.blocks]

\* Blocks has such a function's values.
LEMMA BlocksRead ==
  ASSUME NEW s, NEW n \in Nat, n = Len(s), NEW first \in 1 .. n + 1
  PROVE  \E f : Blocks(s, first) = f[first] /\ \A i \in 1 .. n + 1 : f[i] = BlocksAt(s, f, i)
  <1>1. PICK B : B = {Block(s, i, First(Delimiters(s, i)) - 3) : i \in 1 .. n + 1}
    OBVIOUS
  <1>2. PICK S : S = [ok : BOOLEAN, blocks : Seq(B)]
    OBVIOUS
  <1>3. PICK m \in Nat : m = n + 1
    OBVIOUS
  <1>4. PICK Fns : Fns = [1 .. m -> S]
    OBVIOUS
  <1>5. PICK F : F = [p \in (1 .. m) \X Fns |-> BlocksAt(s, p[2], p[1])]
    OBVIOUS
  <1>6. \A i \in 1 .. m, x \in Fns : F[<<i, x>>] = BlocksAt(s, x, i)
    BY <1>5
  <1>7. PICK b \in Nat : b = Len(Boundary)
    BY UploadAssumption
  <1> DEFINE End(i) == First(Delimiters(s, i)) - 3
             Following(i) == End(i) + 4 + Len(Boundary)
             IsLast(i) == \/ Following(i) < Len(s) /\ s[Following(i)] = Dash
                              /\ s[Following(i) + 1] = Dash
                          \/ Following(i) + 1 > Len(s)
             Rest(f, i) == IF IsLast(i) THEN [ok |-> TRUE, blocks |-> <<>>] ELSE f[Following(i) + 2]
  <1>8. ASSUME NEW i \in 1 .. m, Delimiters(s, i) # {}, ~IsLast(i)
        PROVE  Following(i) + 2 \in i + 1 .. m
    <2>1. Delimiters(s, i) \in SUBSET Nat
      BY <1>3 DEF Delimiters
    <2>2. First(Delimiters(s, i)) \in Delimiters(s, i)
      BY <1>8, <2>1, FirstIs
    <2>3. First(Delimiters(s, i)) \in i .. n
      BY <2>2 DEF Delimiters
    <2>4. PICK c \in i .. n : c = First(Delimiters(s, i))
      BY <2>3
    <2>5. Following(i) = c + 1 + b
      BY <1>7, <2>4
    <2>6. Following(i) + 1 <= n
      BY <1>8, <2>5
    <2>7. QED
      BY <1>3, <2>5, <2>6
  <1>9. [ok |-> TRUE, blocks |-> <<>>] \in S /\ [ok |-> FALSE, blocks |-> <<>>] \in S
    BY <1>2
  <1>10. ASSUME NEW i \in 1 .. m, NEW x
         PROVE  BlocksAt(s, x, i) = IF Delimiters(s, i) = {} THEN [ok |-> FALSE, blocks |-> <<>>]
                  ELSE IF i = End(i) THEN Rest(x, i)
                  ELSE [ok |-> Block(s, i, End(i)).ok /\ Rest(x, i).ok,
                        blocks |-> <<Block(s, i, End(i))>> \o Rest(x, i).blocks]
    BY DEF BlocksAt
  <1> HIDE DEF IsLast, Following, End
  <1>11. ASSUME NEW i \in 1 .. m, NEW x \in Fns, Delimiters(s, i) # {} PROVE Rest(x, i) \in S
    <2>1. CASE IsLast(i)
      BY <1>9, <2>1
    <2>2. CASE ~IsLast(i)
      <3>1. PICK j \in i + 1 .. m : j = Following(i) + 2
        BY <1>8, <1>11, <2>2
      <3>2. x[j] \in S
        BY <1>4, <3>1
      <3>3. QED
        BY <2>2, <3>1, <3>2
    <2>3. QED
      BY <2>1, <2>2
  <1>12. ASSUME NEW i \in 1 .. m, NEW x \in Fns PROVE BlocksAt(s, x, i) \in S
    <2>1. CASE Delimiters(s, i) = {}
      BY <1>9, <1>10, <2>1
    <2>2. CASE Delimiters(s, i) # {}
      <3>1. PICK y \in S : y = Rest(x, i)
        BY <1>11, <2>2
      <3>2. PICK block \in B : block = Block(s, i, End(i))
        BY <1>1, <1>3 DEF End
      <3>3. <<block>> \o y.blocks \in Seq(B)
        BY <1>2
      <3>4. PICK ok \in BOOLEAN : ok = (block.ok /\ y.ok)
        OBVIOUS
      <3>5. [ok |-> ok, blocks |-> <<block>> \o y.blocks] \in S
        BY <1>2, <3>3
      <3> HIDE DEF Rest
      <3>6. QED
        BY <1>10, <2>2, <3>1, <3>2, <3>4, <3>5
    <2>3. QED
      BY <2>1, <2>2
  <1>13. ASSUME NEW i \in 1 .. m, NEW x, NEW y, \A j \in i + 1 .. m : x[j] = y[j]
         PROVE  BlocksAt(s, x, i) = BlocksAt(s, y, i)
    <2>1. CASE Delimiters(s, i) = {}
      BY <1>10, <2>1
    <2>2. CASE Delimiters(s, i) # {}
      <3>1. Rest(x, i) = Rest(y, i)
        <4>1. CASE IsLast(i)
          BY <4>1
        <4>2. CASE ~IsLast(i)
          <5>1. x[Following(i) + 2] = y[Following(i) + 2]
            BY <1>8, <1>13, <2>2, <4>2
          <5>2. QED
            BY <4>2, <5>1
        <4>3. QED
          BY <4>1, <4>2
      <3> HIDE DEF Rest
      <3>2. QED
        BY <1>10, <2>2, <3>1
    <2>3. QED
      BY <2>1, <2>2
  <1>14. PICK g \in Fns : \A i \in 1 .. m : g[i] = F[<<i, g>>]
    <2>1. S # {}
      BY <1>9
    <2>2. LooksAhead(F, S, m)
      <3>1. \A i \in 1 .. m, x \in Fns : F[<<i, x>>] \in S
        BY <1>6, <1>12
      <3>2. ASSUME NEW i \in 1 .. m, NEW x \in Fns, NEW y \in Fns,
                   \A j \in i + 1 .. m : x[j] = y[j]
            PROVE  F[<<i, x>>] = F[<<i, y>>]
        <4>1. BlocksAt(s, x, i) = BlocksAt(s, y, i)
          BY <1>13, <3>2
        <4>2. QED
          BY <1>6, <4>1
      <3>3. \A i \in 1 .. m, x \in Fns, y \in Fns :
              (\A j \in i + 1 .. m : x[j] = y[j]) => F[<<i, x>>] = F[<<i, y>>]
        BY <3>2
      <3>4. LooksAhead(F, S, m) =
              /\ \A i \in 1 .. m, x \in Fns : F[<<i, x>>] \in S
              /\ \A i \in 1 .. m, x \in Fns, y \in Fns :
                   (\A j \in i + 1 .. m : x[j] = y[j]) => F[<<i, x>>] = F[<<i, y>>]
        BY ONLY <1>4 DEF LooksAhead
      <3>5. QED
        BY <3>1, <3>3, <3>4
    <2>3. \E f \in [1 .. m -> S] : IsMadeBy(f, F, m)
      BY <2>1, <2>2, RecursionExists
    <2>4. QED
      BY <1>4, <2>3 DEF IsMadeBy
  <1> DEFINE from == CHOOSE f : f = [start \in 1 .. Len(s) + 1 |->
        LET ends  == Delimiters(s, start)
            end   == First(ends) - 3
            block == Block(s, start, end)
            next  == end + 4 + Len(Boundary)
            last  == \/ next < Len(s) /\ s[next] = Dash /\ s[next + 1] = Dash
                     \/ next + 1 > Len(s)
            rest  == IF last THEN [ok |-> TRUE, blocks |-> <<>>] ELSE f[next + 2] IN
        IF ends = {} THEN [ok |-> FALSE, blocks |-> <<>>]
        ELSE IF start = end THEN rest
        ELSE [ok |-> block.ok /\ rest.ok, blocks |-> <<block>> \o rest.blocks]]
  <1>15. from = CHOOSE f : f = [i \in 1 .. n + 1 |-> BlocksAt(s, f, i)]
    BY DEF BlocksAt
  <1>16. Blocks(s, first) = from[first]
    BY DEF Blocks
  <1> HIDE DEF from
  <1>17. g = [i \in 1 .. n + 1 |-> BlocksAt(s, g, i)]
    BY <1>3, <1>4, <1>6, <1>14
  <1>18. from = [i \in 1 .. n + 1 |-> BlocksAt(s, from, i)]
    BY <1>15, <1>17
  <1>19. \A i \in 1 .. n + 1 : from[i] = BlocksAt(s, from, i)
    BY <1>18
  <1>20. QED
    BY <1>16, <1>19

\* The fields after two blocks.
TwoFolded(base, x, y) == FoldLeft(WithBlock, base, <<x, y>>)

\* The fields of two blocks.
LEMMA TwoBlocks ==
  ASSUME NEW base, NEW x, NEW y
  PROVE  TwoFolded(base, x, y) = WithBlock(WithBlock(base, x), y)
  <1>1. PICK s : s = <<x, y>>
    OBVIOUS
  <1>2. DOMAIN s = 1 .. 2 /\ s[1] = x /\ s[2] = y
    BY <1>1
  <1> DEFINE it == CHOOSE g : g = [d \in SUBSET (DOMAIN s) |->
                     IF d = {} THEN base ELSE WithBlock(g[d \ {Max(d)}], s[Max(d)])]
  <1>3. FoldLeft(WithBlock, base, s) = it[DOMAIN s]
    BY DEF FoldLeft, MapThenFoldSet
  <1>4. Max({1}) = 1 /\ Max({2}) = 2 /\ Max({1, 2}) = 2
    <2>1. ASSUME NEW d \in SUBSET (1 .. 2), d # {} PROVE Max(d) \in d /\ \A i \in d : i <= Max(d)
      BY <2>1, GreatestIs
    <2>2. {1} \in SUBSET (1 .. 2) /\ {2} \in SUBSET (1 .. 2) /\ {1, 2} \in SUBSET (1 .. 2)
      OBVIOUS
    <2>3. Max({1}) \in {1} /\ Max({2}) \in {2} /\ Max({1, 2}) \in {1, 2} /\ 2 <= Max({1, 2})
      BY <2>1, <2>2
    <2>4. QED
      BY <2>3
  <1>5. {1} \ {1} = {} /\ {2} \ {2} = {} /\ {1, 2} \ {2} = {1} /\ 1 .. 2 = {1, 2}
    OBVIOUS
  <1>6. ASSUME NEW d \in SUBSET (1 .. 2) PROVE d = {} \/ d = {1} \/ d = {2} \/ d = {1, 2}
    <2>1. d \subseteq {1, 2}
      BY <1>5
    <2>2. CASE 1 \in d /\ 2 \in d
      BY <2>1, <2>2
    <2>3. CASE 1 \in d /\ 2 \notin d
      BY <2>1, <2>3
    <2>4. CASE 1 \notin d /\ 2 \in d
      BY <2>1, <2>4
    <2>5. CASE 1 \notin d /\ 2 \notin d
      BY <2>1, <2>5
    <2>6. QED
      BY <2>2, <2>3, <2>4, <2>5
  <1>7. PICK g : g = [d \in SUBSET (1 .. 2) |->
                        IF d = {} THEN base
                        ELSE IF d = {1} THEN WithBlock(base, x)
                        ELSE IF d = {2} THEN WithBlock(base, y)
                        ELSE WithBlock(WithBlock(base, x), y)]
    OBVIOUS
  <1>8. /\ g[{}] = base /\ g[{1}] = WithBlock(base, x) /\ g[{2}] = WithBlock(base, y)
        /\ g[{1, 2}] = WithBlock(WithBlock(base, x), y)
    <2>1. {} \in SUBSET (1 .. 2) /\ {1} \in SUBSET (1 .. 2) /\ {2} \in SUBSET (1 .. 2)
          /\ {1, 2} \in SUBSET (1 .. 2)
      OBVIOUS
    <2>2. {1} # {} /\ {2} # {} /\ {2} # {1} /\ {1, 2} # {} /\ {1, 2} # {1} /\ {1, 2} # {2}
      OBVIOUS
    <2>3. QED
      BY <1>7, <2>1, <2>2
  <1>9. ASSUME NEW d \in SUBSET (1 .. 2)
        PROVE  g[d] = IF d = {} THEN base ELSE WithBlock(g[d \ {Max(d)}], s[Max(d)])
    <2>1. CASE d = {}
      BY <1>8, <2>1
    <2>2. CASE d = {1}
      <3>1. d # {} /\ Max(d) = 1 /\ d \ {Max(d)} = {}
        BY <1>4, <1>5, <2>2
      <3>2. QED
        BY <1>2, <1>8, <2>2, <3>1
    <2>3. CASE d = {2}
      <3>1. d # {} /\ Max(d) = 2 /\ d \ {Max(d)} = {}
        BY <1>4, <1>5, <2>3
      <3>2. QED
        BY <1>2, <1>8, <2>3, <3>1
    <2>4. CASE d = {1, 2}
      <3>1. d # {} /\ Max(d) = 2 /\ d \ {Max(d)} = {1}
        BY <1>4, <1>5, <2>4
      <3>2. QED
        BY <1>2, <1>8, <2>4, <3>1
    <2>5. QED
      BY <1>6, <2>1, <2>2, <2>3, <2>4
  <1>10. g = [d \in SUBSET (DOMAIN s) |->
                IF d = {} THEN base ELSE WithBlock(g[d \ {Max(d)}], s[Max(d)])]
    <2>1. g = [d \in SUBSET (1 .. 2) |-> g[d]]
      BY <1>7
    <2>2. QED
      BY <1>2, <1>9, <2>1
  <1>11. it = [d \in SUBSET (DOMAIN s) |->
                IF d = {} THEN base ELSE WithBlock(it[d \ {Max(d)}], s[Max(d)])]
    BY <1>10
  <1> HIDE DEF it
  <1>12. it[{}] = base
    BY <1>2, <1>11
  <1>13. it[{1}] = WithBlock(base, x)
    <2>1. {1} \in SUBSET (DOMAIN s) /\ {1} # {}
      BY <1>2
    <2>2. it[{1}] = WithBlock(it[{1} \ {Max({1})}], s[Max({1})])
      BY <1>11, <2>1
    <2>3. QED
      BY <1>2, <1>4, <1>5, <1>12, <2>2
  <1>14. it[{1, 2}] = WithBlock(it[{1}], y)
    <2>1. {1, 2} \in SUBSET (DOMAIN s) /\ {1, 2} # {}
      BY <1>2
    <2>2. it[{1, 2}] = WithBlock(it[{1, 2} \ {Max({1, 2})}], s[Max({1, 2})])
      BY <1>11, <2>1
    <2>3. QED
      BY <1>2, <1>4, <1>5, <2>2
  <1>15. FoldLeft(WithBlock, base, s) = WithBlock(WithBlock(base, x), y)
    BY <1>2, <1>3, <1>5, <1>13, <1>14
  <1>16. QED
    BY <1>1, <1>15 DEF TwoFolded

-----------------------------------------------------------------------------
(* Where the parts of an upload are. *)

\* p is in s behind the first o characters.
At(s, o, p) == o + Len(p) <= Len(s) /\ \A i \in 1 .. Len(p) : s[o + i] = p[i]

\* Where a text is, so are its two parts.
LEMMA AtParts ==
  ASSUME NEW s \in Seq(Nat), NEW p \in Seq(Nat), NEW q \in Seq(Nat), NEW o \in Nat, NEW r,
         r = p \o q, At(s, o, r)
  PROVE  /\ At(s, o, p) /\ At(s, o + Len(p), q)
         /\ r \in Seq(Nat) /\ Len(r) = Len(p) + Len(q)
  <1>1. PICK k \in Nat : k = Len(p)
    OBVIOUS
  <1>2. PICK m \in Nat : m = Len(q)
    OBVIOUS
  <1>3. /\ r \in Seq(Nat) /\ Len(r) = k + m
        /\ (\A i \in 1 .. k : r[i] = p[i]) /\ \A i \in 1 .. m : r[k + i] = q[i]
    BY <1>1, <1>2
  <1>4. o + (k + m) <= Len(s) /\ \A i \in 1 .. k + m : s[o + i] = r[i]
    BY <1>3 DEF At
  <1>5. At(s, o, p)
    <2>1. \A i \in 1 .. k : i \in 1 .. k + m
      OBVIOUS
    <2>2. o + k <= Len(s)
      BY <1>4
    <2>3. \A i \in 1 .. k : s[o + i] = p[i]
      BY <1>3, <1>4, <2>1
    <2>4. QED
      BY <1>1, <2>2, <2>3 DEF At
  <1>6. At(s, o + k, q)
    <2>1. ASSUME NEW i \in 1 .. m PROVE s[(o + k) + i] = q[i]
      <3>1. k + i \in 1 .. k + m /\ o + (k + i) = (o + k) + i
        OBVIOUS
      <3>2. s[o + (k + i)] = r[k + i]
        BY <1>4, <3>1
      <3>3. QED
        BY <1>3, <3>1, <3>2
    <2>2. (o + k) + m <= Len(s)
      BY <1>4
    <2>3. QED
      BY <1>2, <2>1, <2>2 DEF At
  <1>7. QED
    BY <1>1, <1>2, <1>3, <1>5, <1>6

\* The same for what is put behind all that is before it.
LEMMA Behind ==
  ASSUME NEW s \in Seq(Nat), NEW p \in Seq(Nat), NEW q \in Seq(Nat), NEW l \in Nat, l = Len(p),
         At(s, 0, p \o q)
  PROVE  At(s, 0, p) /\ At(s, l, q)
  <1>1. PICK o \in Nat : o = 0
    OBVIOUS
  <1>2. PICK r : r = p \o q
    OBVIOUS
  <1>3. At(s, o, r)
    BY <1>1, <1>2
  <1>4. At(s, o, p) /\ At(s, o + Len(p), q)
    BY <1>2, <1>3, AtParts
  <1>5. o + Len(p) = l
    BY <1>1
  <1>6. QED
    BY <1>1, <1>4, <1>5

\* The parts of an upload of a text of n characters, with a boundary of b.
IsUpload(s, t, b, n) ==
  /\ s \in Seq(Nat) /\ Len(s) = 31 + 3 * b + 2 * n
  /\ At(s, 0, Delimiter)
  /\ At(s, 2 + b, CRLF)
  /\ At(s, 4 + b, <<Disposition(1, 2)>>)
  /\ At(s, 5 + b, CRLF)
  /\ At(s, 7 + b, <<ContentType(3)>>)
  /\ At(s, 8 + b, CRLF)
  /\ At(s, 10 + b, CRLF)
  /\ At(s, 12 + b, t)
  /\ At(s, 12 + b + n, CRLF)
  /\ At(s, 14 + b + n, Delimiter)
  /\ At(s, 16 + 2 * b + n, CRLF)
  /\ At(s, 18 + 2 * b + n, <<Disposition(4, 0)>>)
  /\ At(s, 19 + 2 * b + n, CRLF)
  /\ At(s, 21 + 2 * b + n, CRLF)
  /\ At(s, 23 + 2 * b + n, t)
  /\ At(s, 23 + 2 * b + 2 * n, CRLF)
  /\ At(s, 25 + 2 * b + 2 * n, Delimiter)
  /\ At(s, 27 + 3 * b + 2 * n, <<Dash, Dash>>)
  /\ At(s, 29 + 3 * b + 2 * n, CRLF)

\* A text put behind another.
LEMMA Joined ==
  ASSUME NEW p \in Seq(Nat), NEW q \in Seq(Nat), NEW r, r = p \o q
  PROVE  r \in Seq(Nat) /\ Len(r) = Len(p) + Len(q)
  OBVIOUS

\* An upload has those parts.
LEMMA UploadIs ==
  ASSUME NEW t \in Seq(Nat), NEW n \in Nat, n = Len(t), NEW b \in Nat, b = Len(Boundary)
  PROVE  IsUpload(Upload(t), t, b, n)

  <1>1. PICK cr : cr = CRLF
    OBVIOUS
  <1>2. cr \in Seq(Nat) /\ Len(cr) = 2
    BY <1>1 DEF CRLF, Disposition, ContentType, Dash
  <1>3. PICK d1 : d1 = <<Disposition(1, 2)>>
    OBVIOUS
  <1>4. d1 \in Seq(Nat) /\ Len(d1) = 1
    BY <1>3 DEF CRLF, Disposition, ContentType, Dash
  <1>5. PICK d2 : d2 = <<Disposition(4, 0)>>
    OBVIOUS
  <1>6. d2 \in Seq(Nat) /\ Len(d2) = 1
    BY <1>5 DEF CRLF, Disposition, ContentType, Dash
  <1>7. PICK ct : ct = <<ContentType(3)>>
    OBVIOUS
  <1>8. ct \in Seq(Nat) /\ Len(ct) = 1
    BY <1>7 DEF CRLF, Disposition, ContentType, Dash
  <1>9. PICK dd : dd = <<Dash, Dash>>
    OBVIOUS
  <1>10. dd \in Seq(Nat) /\ Len(dd) = 2
    BY <1>9 DEF CRLF, Disposition, ContentType, Dash
  <1>11. PICK dl : dl = Delimiter
    OBVIOUS
  <1>12. dl = dd \o Boundary
    BY <1>11, <1>9 DEF Delimiter
  <1>13. dl \in Seq(Nat) /\ Len(dl) = 2 + b
    BY <1>12, <1>10, UploadAssumption, Joined
  <1>14. PICK p1 : p1 = dl
    OBVIOUS
  <1>15. p1 \in Seq(Nat) /\ Len(p1) = 2 + b
    BY <1>13, <1>14
  <1>16. PICK p2 : p2 = p1 \o cr
    OBVIOUS
  <1>17. p2 \in Seq(Nat) /\ Len(p2) = Len(p1) + Len(cr)
    BY <1>2, <1>15, <1>16, Joined
  <1>18. p2 \in Seq(Nat) /\ Len(p2) = 4 + b
    BY <1>2, <1>15, <1>17
  <1>19. PICK p3 : p3 = p2 \o d1
    OBVIOUS
  <1>20. p3 \in Seq(Nat) /\ Len(p3) = Len(p2) + Len(d1)
    BY <1>4, <1>18, <1>19, Joined
  <1>21. p3 \in Seq(Nat) /\ Len(p3) = 5 + b
    BY <1>4, <1>18, <1>20
  <1>22. PICK p4 : p4 = p3 \o cr
    OBVIOUS
  <1>23. p4 \in Seq(Nat) /\ Len(p4) = Len(p3) + Len(cr)
    BY <1>2, <1>21, <1>22, Joined
  <1>24. p4 \in Seq(Nat) /\ Len(p4) = 7 + b
    BY <1>2, <1>21, <1>23
  <1>25. PICK p5 : p5 = p4 \o ct
    OBVIOUS
  <1>26. p5 \in Seq(Nat) /\ Len(p5) = Len(p4) + Len(ct)
    BY <1>8, <1>24, <1>25, Joined
  <1>27. p5 \in Seq(Nat) /\ Len(p5) = 8 + b
    BY <1>8, <1>24, <1>26
  <1>28. PICK p6 : p6 = p5 \o cr
    OBVIOUS
  <1>29. p6 \in Seq(Nat) /\ Len(p6) = Len(p5) + Len(cr)
    BY <1>2, <1>27, <1>28, Joined
  <1>30. p6 \in Seq(Nat) /\ Len(p6) = 10 + b
    BY <1>2, <1>27, <1>29
  <1>31. PICK p7 : p7 = p6 \o cr
    OBVIOUS
  <1>32. p7 \in Seq(Nat) /\ Len(p7) = Len(p6) + Len(cr)
    BY <1>2, <1>30, <1>31, Joined
  <1>33. p7 \in Seq(Nat) /\ Len(p7) = 12 + b
    BY <1>2, <1>30, <1>32
  <1>34. PICK p8 : p8 = p7 \o t
    OBVIOUS
  <1>35. p8 \in Seq(Nat) /\ Len(p8) = Len(p7) + Len(t)
    BY <1>33, <1>34, Joined
  <1>36. p8 \in Seq(Nat) /\ Len(p8) = 12 + b + n
    BY <1>33, <1>35
  <1>37. PICK p9 : p9 = p8 \o cr
    OBVIOUS
  <1>38. p9 \in Seq(Nat) /\ Len(p9) = Len(p8) + Len(cr)
    BY <1>2, <1>36, <1>37, Joined
  <1>39. p9 \in Seq(Nat) /\ Len(p9) = 14 + b + n
    BY <1>2, <1>36, <1>38
  <1>40. PICK p10 : p10 = p9 \o dl
    OBVIOUS
  <1>41. p10 \in Seq(Nat) /\ Len(p10) = Len(p9) + Len(dl)
    BY <1>13, <1>39, <1>40, Joined
  <1>42. p10 \in Seq(Nat) /\ Len(p10) = 16 + 2 * b + n
    BY <1>13, <1>39, <1>41
  <1>43. PICK p11 : p11 = p10 \o cr
    OBVIOUS
  <1>44. p11 \in Seq(Nat) /\ Len(p11) = Len(p10) + Len(cr)
    BY <1>2, <1>42, <1>43, Joined
  <1>45. p11 \in Seq(Nat) /\ Len(p11) = 18 + 2 * b + n
    BY <1>2, <1>42, <1>44
  <1>46. PICK p12 : p12 = p11 \o d2
    OBVIOUS
  <1>47. p12 \in Seq(Nat) /\ Len(p12) = Len(p11) + Len(d2)
    BY <1>6, <1>45, <1>46, Joined
  <1>48. p12 \in Seq(Nat) /\ Len(p12) = 19 + 2 * b + n
    BY <1>6, <1>45, <1>47
  <1>49. PICK p13 : p13 = p12 \o cr
    OBVIOUS
  <1>50. p13 \in Seq(Nat) /\ Len(p13) = Len(p12) + Len(cr)
    BY <1>2, <1>48, <1>49, Joined
  <1>51. p13 \in Seq(Nat) /\ Len(p13) = 21 + 2 * b + n
    BY <1>2, <1>48, <1>50
  <1>52. PICK p14 : p14 = p13 \o cr
    OBVIOUS
  <1>53. p14 \in Seq(Nat) /\ Len(p14) = Len(p13) + Len(cr)
    BY <1>2, <1>51, <1>52, Joined
  <1>54. p14 \in Seq(Nat) /\ Len(p14) = 23 + 2 * b + n
    BY <1>2, <1>51, <1>53
  <1>55. PICK p15 : p15 = p14 \o t
    OBVIOUS
  <1>56. p15 \in Seq(Nat) /\ Len(p15) = Len(p14) + Len(t)
    BY <1>54, <1>55, Joined
  <1>57. p15 \in Seq(Nat) /\ Len(p15) = 23 + 2 * b + 2 * n
    BY <1>54, <1>56
  <1>58. PICK p16 : p16 = p15 \o cr
    OBVIOUS
  <1>59. p16 \in Seq(Nat) /\ Len(p16) = Len(p15) + Len(cr)
    BY <1>2, <1>57, <1>58, Joined
  <1>60. p16 \in Seq(Nat) /\ Len(p16) = 25 + 2 * b + 2 * n
    BY <1>2, <1>57, <1>59
  <1>61. PICK p17 : p17 = p16 \o dl
    OBVIOUS
  <1>62. p17 \in Seq(Nat) /\ Len(p17) = Len(p16) + Len(dl)
    BY <1>13, <1>60, <1>61, Joined
  <1>63. p17 \in Seq(Nat) /\ Len(p17) = 27 + 3 * b + 2 * n
    BY <1>13, <1>60, <1>62
  <1>64. PICK p18 : p18 = p17 \o dd
    OBVIOUS
  <1>65. p18 \in Seq(Nat) /\ Len(p18) = Len(p17) + Len(dd)
    BY <1>10, <1>63, <1>64, Joined
  <1>66. p18 \in Seq(Nat) /\ Len(p18) = 29 + 3 * b + 2 * n
    BY <1>10, <1>63, <1>65
  <1>67. PICK p19 : p19 = p18 \o cr
    OBVIOUS
  <1>68. p19 \in Seq(Nat) /\ Len(p19) = Len(p18) + Len(cr)
    BY <1>2, <1>66, <1>67, Joined
  <1>69. p19 \in Seq(Nat) /\ Len(p19) = 31 + 3 * b + 2 * n
    BY <1>2, <1>66, <1>68
  <1>70. p19 = Upload(t)
    BY <1>14, <1>16, <1>19, <1>22, <1>25, <1>28, <1>31, <1>34, <1>37, <1>40, <1>43, <1>46,
       <1>49, <1>52, <1>55, <1>58, <1>61, <1>64, <1>67, <1>1, <1>3, <1>5, <1>7, <1>9, <1>11 DEF
       Upload
  <1>71. PICK s : s = p19
    OBVIOUS
  <1>72. s \in Seq(Nat) /\ Len(s) = 31 + 3 * b + 2 * n
    BY <1>69, <1>71
  <1>73. At(s, 0, p19)
    BY <1>72, <1>71 DEF At
  <1>74. At(s, 0, p18) /\ At(s, 29 + 3 * b + 2 * n, cr)
    BY <1>2, <1>66, <1>72, <1>73, <1>67, Behind
  <1>75. At(s, 0, p17) /\ At(s, 27 + 3 * b + 2 * n, dd)
    BY <1>10, <1>63, <1>72, <1>74, <1>64, Behind
  <1>76. At(s, 0, p16) /\ At(s, 25 + 2 * b + 2 * n, dl)
    BY <1>13, <1>60, <1>72, <1>75, <1>61, Behind
  <1>77. At(s, 0, p15) /\ At(s, 23 + 2 * b + 2 * n, cr)
    BY <1>2, <1>57, <1>72, <1>76, <1>58, Behind
  <1>78. At(s, 0, p14) /\ At(s, 23 + 2 * b + n, t)
    BY <1>54, <1>72, <1>77, <1>55, Behind
  <1>79. At(s, 0, p13) /\ At(s, 21 + 2 * b + n, cr)
    BY <1>2, <1>51, <1>72, <1>78, <1>52, Behind
  <1>80. At(s, 0, p12) /\ At(s, 19 + 2 * b + n, cr)
    BY <1>2, <1>48, <1>72, <1>79, <1>49, Behind
  <1>81. At(s, 0, p11) /\ At(s, 18 + 2 * b + n, d2)
    BY <1>6, <1>45, <1>72, <1>80, <1>46, Behind
  <1>82. At(s, 0, p10) /\ At(s, 16 + 2 * b + n, cr)
    BY <1>2, <1>42, <1>72, <1>81, <1>43, Behind
  <1>83. At(s, 0, p9) /\ At(s, 14 + b + n, dl)
    BY <1>13, <1>39, <1>72, <1>82, <1>40, Behind
  <1>84. At(s, 0, p8) /\ At(s, 12 + b + n, cr)
    BY <1>2, <1>36, <1>72, <1>83, <1>37, Behind
  <1>85. At(s, 0, p7) /\ At(s, 12 + b, t)
    BY <1>33, <1>72, <1>84, <1>34, Behind
  <1>86. At(s, 0, p6) /\ At(s, 10 + b, cr)
    BY <1>2, <1>30, <1>72, <1>85, <1>31, Behind
  <1>87. At(s, 0, p5) /\ At(s, 8 + b, cr)
    BY <1>2, <1>27, <1>72, <1>86, <1>28, Behind
  <1>88. At(s, 0, p4) /\ At(s, 7 + b, ct)
    BY <1>8, <1>24, <1>72, <1>87, <1>25, Behind
  <1>89. At(s, 0, p3) /\ At(s, 5 + b, cr)
    BY <1>2, <1>21, <1>72, <1>88, <1>22, Behind
  <1>90. At(s, 0, p2) /\ At(s, 4 + b, d1)
    BY <1>4, <1>18, <1>72, <1>89, <1>19, Behind
  <1>91. At(s, 0, p1) /\ At(s, 2 + b, cr)
    BY <1>2, <1>15, <1>72, <1>90, <1>16, Behind
  <1>92. IsUpload(s, t, b, n)
    BY <1>14, <1>72, <1>74, <1>75, <1>76, <1>77, <1>78, <1>79, <1>80, <1>81, <1>82, <1>83,
       <1>84, <1>85, <1>86, <1>87, <1>88, <1>89, <1>90, <1>91, <1>1, <1>3, <1>5, <1>7, <1>9,
       <1>11 DEF IsUpload
  <1>93. QED
    BY <1>70, <1>71, <1>92

\* What a line end puts behind its place.
LEMMA AtLineEnd ==
  ASSUME NEW s, NEW o \in Nat, At(s, o, CRLF)
  PROVE  s[o + 1] = 13 /\ s[o + 2] = 10
  <1>1. PICK p : p = CRLF
    OBVIOUS
  <1>2. Len(p) = 2 /\ p[1] = 13 /\ p[2] = 10
    BY <1>1 DEF CRLF
  <1>3. \A i \in 1 .. 2 : s[o + i] = p[i]
    BY <1>1, <1>2 DEF At
  <1>4. QED
    BY <1>2, <1>3

\* One character.
LEMMA AtOne ==
  ASSUME NEW s, NEW o \in Nat, NEW x, At(s, o, <<x>>)
  PROVE  s[o + 1] = x
  <1>1. PICK p : p = <<x>>
    OBVIOUS
  <1>2. Len(p) = 1 /\ p[1] = x
    BY <1>1
  <1>3. \A i \in 1 .. 1 : s[o + i] = p[i]
    BY <1>1, <1>2 DEF At
  <1>4. QED
    BY <1>2, <1>3

\* A delimiter.
LEMMA AtDelimiter ==
  ASSUME NEW s \in Seq(Nat), NEW o \in Nat, At(s, o, Delimiter)
  PROVE  s[o + 1] = Dash /\ s[o + 2] = Dash /\ At(s, o + 2, Boundary)
  <1>1. PICK p : p = <<Dash, Dash>>
    OBVIOUS
  <1>2. p \in Seq(Nat) /\ Len(p) = 2 /\ p[1] = Dash /\ p[2] = Dash
    BY <1>1 DEF Dash
  <1>3. PICK r : r = Delimiter
    OBVIOUS
  <1>4. r = p \o Boundary /\ At(s, o, r)
    BY <1>1, <1>3 DEF Delimiter
  <1>5. At(s, o, p) /\ At(s, o + Len(p), Boundary)
    BY <1>2, <1>4, UploadAssumption, AtParts
  <1>6. \A i \in 1 .. 2 : s[o + i] = p[i]
    BY <1>2, <1>5 DEF At
  <1>7. QED
    BY <1>2, <1>5, <1>6

\* The characters of a delimiter.
LEMMA DelimiterIs ==
  ASSUME NEW b \in Nat, b = Len(Boundary)
  PROVE  /\ Delimiter \in Seq(Nat) /\ Len(Delimiter) = 2 + b
         /\ Delimiter[1] = Dash /\ Delimiter[2] = Dash
         /\ \A i \in 1 .. b : Delimiter[2 + i] = Boundary[i]
  <1>1. PICK r : r = Delimiter
    OBVIOUS
  <1>2. PICK p : p = <<Dash, Dash>>
    OBVIOUS
  <1>3. p \in Seq(Nat) /\ Len(p) = 2
    BY <1>2 DEF Dash
  <1>4. r = p \o Boundary
    BY <1>1, <1>2 DEF Delimiter
  <1>5. r \in Seq(Nat) /\ Len(r) = Len(p) + Len(Boundary)
    BY <1>3, <1>4, UploadAssumption, Joined
  <1>6. r \in Seq(Nat) /\ Len(r) = 2 + b
    BY <1>3, <1>5
  <1>7. PICK o \in Nat : o = 0
    OBVIOUS
  <1>8. At(r, o, Delimiter)
    <2>1. At(r, o, r)
      BY <1>6, <1>7 DEF At
    <2>2. QED
      BY <1>1, <2>1
  <1>9. r[o + 1] = Dash /\ r[o + 2] = Dash /\ At(r, o + 2, Boundary)
    BY <1>6, <1>8, AtDelimiter
  <1>10. \A i \in 1 .. b : r[(o + 2) + i] = Boundary[i]
    BY <1>9 DEF At
  <1>11. \A i \in 1 .. b : r[2 + i] = Boundary[i]
    BY <1>7, <1>10
  <1>12. QED
    BY <1>1, <1>6, <1>7, <1>9, <1>11

\* A character of a part.
LEMMA PartAt ==
  ASSUME NEW s \in Seq(Nat), NEW x \in 1 .. Len(s) + 1, NEW y \in 0 .. Len(s),
         NEW j \in 1 .. y - x + 1
  PROVE  SubSeq(s, x, y)[j] = s[x + j - 1]
  OBVIOUS

\* A part of a text is what is behind its place.
LEMMA AtSubSeq ==
  ASSUME NEW s \in Seq(Nat), NEW o \in Nat, NEW p \in Seq(Nat), At(s, o, p)
  PROVE  SubSeq(s, o + 1, o + Len(p)) = p
  <1>1. PICK k \in Nat : k = Len(p)
    OBVIOUS
  <1>2. o + k <= Len(s) /\ \A x \in 1 .. k : s[o + x] = p[x]
    BY <1>1 DEF At
  <1>3. PICK i \in Nat : i = o + 1
    OBVIOUS
  <1>4. PICK j \in Nat : j = o + k
    OBVIOUS
  <1>5. i \in 1 .. Len(s) + 1 /\ j \in 0 .. Len(s) /\ j - i + 1 = k
    BY <1>2, <1>3, <1>4
  <1>6. PICK q : q = SubSeq(s, i, j)
    OBVIOUS
  <1>7. q \in Seq(Nat) /\ Len(q) = k
    BY <1>5, <1>6, SMTT(30)
  <1>8. ASSUME NEW x \in 1 .. k PROVE q[x] = p[x]
    <2>1. q[x] = s[i + x - 1]
      BY <1>5, <1>6, PartAt
    <2>2. i + x - 1 = o + x
      BY <1>3
    <2>3. QED
      BY <1>2, <2>1, <2>2
  <1>9. q = p
    BY <1>1, <1>7, <1>8, SeqEqual
  <1>10. QED
    BY <1>1, <1>3, <1>4, <1>6, <1>9

\* A place in a text.
LEMMA Between ==
  ASSUME NEW c \in Nat, NEW h \in Nat, NEW n \in Nat, h < c, c < h + n + 4,
         c # h + 1, c # h + n + 1, c # h + n + 2, c # h + n + 3
  PROVE  h + 2 <= c /\ c <= h + n
  OBVIOUS

\* Up to a text t behind place h, s has no delimiter from f on; one ends at e.
EndsBehind(s, t, f, h, e) ==
  /\ 1 <= f /\ f <= h /\ e = h + Len(t) + 4
  /\ (\A i \in f .. h : s[i] # Dash) /\ Occurrences(t, Delimiter) = {}
  /\ At(s, h, t) /\ At(s, h + Len(t), CRLF) /\ At(s, h + Len(t) + 2, Delimiter)
  /\ h + Len(t) + 6 + Len(Boundary) < Len(s)

\* The first delimiter is that behind the text, which has none.
LEMMA DelimiterFound ==
  ASSUME NEW s \in Seq(Nat), NEW t \in Seq(Nat), NEW f \in Nat, NEW h \in Nat, NEW e \in Nat,
         EndsBehind(s, t, f, h, e)
  PROVE  Delimiters(s, f) # {} /\ First(Delimiters(s, f)) = e
  <1>1. PICK l \in Nat : l = Len(s)
    OBVIOUS
  <1>2. PICK n \in Nat : n = Len(t)
    OBVIOUS
  <1>3. PICK b \in Nat : b = Len(Boundary)
    BY UploadAssumption
  <1>4. 1 <= f /\ f <= h /\ e = h + n + 4
    BY <1>2 DEF EndsBehind
  <1> USE <1>2, <1>3, <1>4
  <1>5. e = h + n + 4 /\ e + 2 + b < l
    <2>1. h + n + 6 + b < l
      BY <1>1, <1>2, <1>3 DEF EndsBehind
    <2>2. QED
      BY <1>4, <2>1
  <1>6. s[e - 1] = Dash /\ s[e] = Dash /\ At(s, e, Boundary)
    <2>1. PICK o \in Nat : o = h + n + 2
      OBVIOUS
    <2>2. o + 1 = e - 1 /\ o + 2 = e
      BY <1>5, <2>1
    <2>3. At(s, o, Delimiter)
      BY <2>1 DEF EndsBehind
    <2>4. s[o + 1] = Dash /\ s[o + 2] = Dash /\ At(s, o + 2, Boundary)
      BY <2>3, AtDelimiter
    <2>5. QED
      BY <2>2, <2>4
  <1>7. s[h + n + 1] = 13 /\ s[h + n + 2] = 10
    <2>1. PICK o \in Nat : o = h + n
      OBVIOUS
    <2>2. At(s, o, CRLF)
      BY <2>1 DEF EndsBehind
    <2>3. s[o + 1] = 13 /\ s[o + 2] = 10
      BY <2>2, AtLineEnd
    <2>4. QED
      BY <2>1, <2>3
  <1>8. e \in Delimiters(s, f)
    <2>1. SubSeq(s, e + 1, e + b) = Boundary
      <3>1. SubSeq(s, e + 1, e + Len(Boundary)) = Boundary
        BY <1>6, UploadAssumption, AtSubSeq
      <3>2. QED
        BY <3>1
    <2>2. e \in f .. l
      BY <1>5
    <2>3. QED
      BY <1>1, <1>5, <1>6, <2>1, <2>2 DEF Delimiters
  <1>9. ASSUME NEW c \in Nat, c \in Delimiters(s, f), c < e PROVE FALSE
    <2>1. /\ c \in Nat /\ f <= c /\ c <= l /\ c + 2 + b < l /\ s[c] = Dash /\ s[c - 1] = Dash
          /\ SubSeq(s, c + 1, c + b) = Boundary
      <3>1. /\ c \in f .. Len(s) /\ c + 2 + Len(Boundary) < Len(s) /\ s[c] = Dash
            /\ s[c - 1] = Dash /\ SubSeq(s, c + 1, c + Len(Boundary)) = Boundary
        BY <1>9 DEF Delimiters
      <3>2. c \in f .. l /\ c + 2 + b < l
        BY <1>1, <3>1
      <3>3. c \in Nat /\ f <= c /\ c <= l
        BY <3>2
      <3>4. QED
        BY <3>1, <3>2, <3>3
    <2>2. ASSUME NEW j \in 1 .. b PROVE s[c + j] = Boundary[j]
      <3>1. PICK x \in Nat : x = c + 1
        BY <2>1
      <3>2. PICK y \in Nat : y = c + b
        BY <2>1
      <3>3. x \in 1 .. l + 1 /\ y \in 0 .. l /\ x + j - 1 = c + j /\ j \in 1 .. y - x + 1
        BY <2>1, <3>1, <3>2
      <3>4. SubSeq(s, x, y)[j] = s[x + j - 1]
        BY <1>1, <3>3, PartAt
      <3>5. QED
        BY <2>1, <3>1, <3>2, <3>3, <3>4
    <2>3. c > h
      <3>1. \A i \in f .. h : s[i] # Dash
        BY DEF EndsBehind
      <3>2. c \notin f .. h
        BY <2>1, <3>1
      <3>3. QED
        BY <2>1, <3>2
    <2>4. c # h + n + 1 /\ c # h + n + 2 /\ c # h + n + 3
      <3>1. PICK x \in Nat : x = h + n + 1
        OBVIOUS
      <3>2. PICK y \in Nat : y = h + n + 2
        OBVIOUS
      <3>3. s[x] # Dash /\ s[y] # Dash
        <4>1. s[x] = 13 /\ s[y] = 10
          BY <1>7, <3>1, <3>2
        <4>2. Dash = 45
          BY DEF Dash
        <4>3. QED
          BY <4>1, <4>2
      <3>4. c # x /\ c # y /\ c - 1 # y
        BY <2>1, <3>3
      <3>5. QED
        BY <2>1, <3>1, <3>2, <3>4
    <2>5. c # h + 1
      <3>1. h \in f .. h /\ \A i \in f .. h : s[i] # Dash
        BY DEF EndsBehind
      <3>2. c - 1 # h
        BY <2>1, <3>1
      <3>3. QED
        BY <2>1, <3>2
    <2>6. c \in Nat /\ h + 2 <= c /\ c <= h + n
      <3>1. c \in Nat /\ c < h + n + 4
        BY <1>5, <1>9, <2>1
      <3>2. QED
        BY <2>3, <2>4, <2>5, <3>1, Between
    <2>7. PICK k \in 2 .. n : k = c - h /\ c = h + k
      <3>1. c - h \in 2 .. n /\ c = h + (c - h)
        BY <2>6
      <3>2. QED
        BY <3>1
    <2>8. \A i \in 1 .. n : s[h + i] = t[i]
      BY DEF EndsBehind, At
    <2>9. t[k] = Dash /\ t[k - 1] = Dash
      <3>1. h + k = c /\ h + (k - 1) = c - 1 /\ k \in 1 .. n /\ k - 1 \in 1 .. n
        BY <2>1, <2>7
      <3>2. s[h + k] = t[k] /\ s[h + (k - 1)] = t[k - 1]
        BY <2>8, <3>1
      <3>3. QED
        BY <2>1, <3>1, <3>2
    <2>10. CASE k + b <= n
      <3>1. PICK d : d = Delimiter
        OBVIOUS
      <3>2. /\ d \in Seq(Nat) /\ Len(d) = 2 + b /\ d[1] = Dash /\ d[2] = Dash
            /\ \A i \in 1 .. b : d[2 + i] = Boundary[i]
        BY <3>1, DelimiterIs
      <3>3. PICK o \in Nat : o = k - 2
        <4>1. k - 2 \in Nat
          OBVIOUS
        <4>2. QED
          BY <4>1
      <3>4. ASSUME NEW i \in 1 .. 2 + b PROVE t[o + i] = d[i]
        <4>1. CASE i = 1
          BY <2>9, <3>2, <3>3, <4>1
        <4>2. CASE i = 2
          BY <2>9, <3>2, <3>3, <4>2
        <4>3. CASE i > 2
          <5>1. PICK j \in 1 .. b : j = i - 2
            <6>1. i - 2 \in 1 .. b
              BY <4>3
            <6>2. QED
              BY <6>1
          <5>2. h + (o + i) = c + j /\ o + i \in 1 .. n /\ 2 + j = i
            BY <2>1, <2>7, <2>10, <3>3, <5>1
          <5>3. s[c + j] = Boundary[j]
            BY <2>2
          <5>4. s[h + (o + i)] = t[o + i]
            BY <2>8, <5>2
          <5>5. d[2 + j] = Boundary[j]
            BY <3>2
          <5>6. QED
            BY <5>2, <5>3, <5>4, <5>5
        <4>4. QED
          BY <4>1, <4>2, <4>3
      <3>5. o + (2 + b) <= n
        BY <2>10, <3>3
      <3>6. At(t, o, d)
        BY <3>2, <3>4, <3>5 DEF At
      <3>7. SubSeq(t, o + 1, o + (2 + b)) = d
        <4>1. SubSeq(t, o + 1, o + Len(d)) = d
          BY <3>2, <3>6, AtSubSeq
        <4>2. QED
          BY <3>2, <4>1
      <3>8. o \in 0 .. Len(t) - Len(d) /\ SubSeq(t, o + 1, o + Len(d)) = d
        BY <3>2, <3>5, <3>7
      <3>9. o \in Occurrences(t, d)
        BY <3>8 DEF Occurrences
      <3>10. QED
        BY <3>1, <3>9 DEF EndsBehind
    <2>11. CASE k + b > n
      <3>1. n + 1 - k \in 1 .. b /\ c + (n + 1 - k) = h + n + 1
        <4>1. n + 1 - k \in 1 .. b
          BY <2>7, <2>11
        <4>2. (h + k) + (n + 1 - k) = h + n + 1
          OBVIOUS
        <4>3. QED
          BY <2>7, <4>1, <4>2
      <3>2. Boundary[n + 1 - k] = 13
        <4>1. PICK j \in 1 .. b : j = n + 1 - k
          BY <3>1
        <4>2. s[c + j] = Boundary[j]
          BY <2>2
        <4>3. QED
          BY <1>7, <3>1, <4>1, <4>2
      <3>3. 13 \in ToSet(Boundary)
        <4>1. n + 1 - k \in DOMAIN Boundary
          BY <3>1, UploadAssumption
        <4>2. QED
          BY <3>2, <4>1 DEF ToSet
      <3>4. QED
        BY <3>3, UploadAssumption
    <2>12. QED
      BY <2>7, <2>10, <2>11
  <1>10. Delimiters(s, f) \in SUBSET Nat
    BY DEF Delimiters
  <1>11. \A c \in Delimiters(s, f) : e <= c
    BY <1>5, <1>9, <1>10
  <1>12. First(Delimiters(s, f)) \in Delimiters(s, f) /\ First(Delimiters(s, f)) <= e
    BY <1>8, <1>10, FirstIs
  <1>13. First(Delimiters(s, f)) \in Nat
    BY <1>10, <1>12
  <1>14. QED
    BY <1>5, <1>8, <1>11, <1>12, <1>13

\* A block with its lines and content, and with one line more.
Found(lines, content) == [ok |-> TRUE, lines |-> lines, content |-> content]
WithLine(block, line) == [block EXCEPT !.lines = <<line>> \o @]

\* The first end of a line that is a symbol is behind it.
LEMMA HeaderLine ==
  ASSUME NEW s \in Seq(Nat), NEW i \in Nat, 1 <= i, NEW e \in Nat, e <= Len(s),
         At(s, i, CRLF), i + 2 < e, NEW f
  PROVE  BlockAt(s, e, f, i) = WithLine(f[i + 3], Line(s[i]))
  <1>1. PICK T : T = LineEnds(s, i, e)
    OBVIOUS
  <1>2. T \in SUBSET Nat /\ \A j \in T : i + 1 <= j
    BY <1>1 DEF LineEnds
  <1>3. i + 2 \in T
    <2>1. CRLF \in Seq(Nat) /\ Len(CRLF) = 2
      BY DEF CRLF
    <2>2. SubSeq(s, i + 1, i + Len(CRLF)) = CRLF
      BY <2>1, AtSubSeq
    <2>3. PICK j \in Nat : j = i + 2 /\ j - 1 = i + 1
      OBVIOUS
    <2>4. SubSeq(s, j - 1, j) = CRLF
      BY <2>1, <2>2, <2>3
    <2>5. j \in i + 1 .. e - 1
      BY <2>3
    <2>6. j \in LineEnds(s, i, e)
      BY <2>4, <2>5 DEF LineEnds
    <2>7. QED
      BY <1>1, <2>3, <2>6
  <1>4. i + 1 \notin T
    <2>1. SUFFICES ASSUME i + 1 \in T PROVE FALSE
      OBVIOUS
    <2>2. PICK j \in Nat : j = i + 1 /\ j - 1 = i
      OBVIOUS
    <2>3. SubSeq(s, j - 1, j) = CRLF
      BY <1>1, <2>1, <2>2 DEF LineEnds
    <2>4. i \in 1 .. Len(s) + 1 /\ j \in 0 .. Len(s) /\ 2 \in 1 .. j - i + 1 /\ i + 2 - 1 = j
      BY <2>2
    <2>5. SubSeq(s, i, j)[2] = s[i + 2 - 1]
      BY <2>4, PartAt
    <2>6. SubSeq(s, i, j)[2] = 10
      <3>1. SubSeq(s, i, j) = CRLF
        BY <2>2, <2>3
      <3>2. QED
        BY <3>1 DEF CRLF
    <2>7. s[i + 1] = 13
      BY AtLineEnd
    <2>8. QED
      BY <2>2, <2>4, <2>5, <2>6, <2>7
  <1>5. \A j \in T : i + 2 <= j
    <2>1. ASSUME NEW j \in Nat, j \in T PROVE i + 2 <= j
      <3>1. i + 1 <= j /\ j # i + 1
        BY <1>2, <1>4, <2>1
      <3>2. QED
        BY <3>1
    <2>2. QED
      BY <1>2, <2>1
  <1>6. First(T) = i + 2
    <2>1. First(T) \in T /\ First(T) <= i + 2
      BY <1>2, <1>3, FirstIs
    <2>2. First(T) \in Nat /\ i + 2 <= First(T)
      BY <1>2, <1>5, <2>1
    <2>3. QED
      BY <2>1, <2>2
  <1>7. T # {}
    BY <1>3
  <1>8. BlockAt(s, e, f, i) = [f[First(T) + 1] EXCEPT !.lines = <<Line(s[i])>> \o @]
    BY <1>1, <1>4, <1>7 DEF BlockAt
  <1>9. First(T) + 1 = i + 3
    BY <1>6
  <1>10. QED
    BY <1>8, <1>9 DEF WithLine

\* An empty line is followed by the content.
LEMMA EmptyLine ==
  ASSUME NEW s \in Seq(Nat), NEW o \in Nat, NEW e \in Nat, e <= Len(s), At(s, o, CRLF),
         NEW i \in Nat, i = o + 1, i + 1 < e, NEW f
  PROVE  BlockAt(s, e, f, i) = Found(<<>>, SubSeq(s, i + 2, e - 1))
  <1>1. PICK T : T = LineEnds(s, i, e)
    OBVIOUS
  <1>2. i + 1 \in T
    <2>1. CRLF \in Seq(Nat) /\ Len(CRLF) = 2
      BY DEF CRLF
    <2>2. SubSeq(s, o + 1, o + Len(CRLF)) = CRLF
      BY <2>1, AtSubSeq
    <2>3. PICK j \in Nat : j = i + 1 /\ j - 1 = i /\ j = o + 2
      OBVIOUS
    <2>4. SubSeq(s, j - 1, j) = CRLF
      BY <2>1, <2>2, <2>3
    <2>5. j \in i + 1 .. e - 1
      BY <2>3
    <2>6. j \in LineEnds(s, i, e)
      BY <2>4, <2>5 DEF LineEnds
    <2>7. QED
      BY <1>1, <2>3, <2>6
  <1>3. T # {}
    BY <1>2
  <1>4. QED
    BY <1>1, <1>2, <1>3 DEF BlockAt, Found

\* The content of a block, from its empty line on.
LEMMA ContentRead ==
  ASSUME NEW s \in Seq(Nat), NEW o \in Nat, NEW t \in Seq(Nat), NEW e \in Nat, e <= Len(s),
         e = o + Len(t) + 3, At(s, o, CRLF), At(s, o + 2, t), NEW i \in Nat, i = o + 1, NEW f
  PROVE  BlockAt(s, e, f, i) = Found(<<>>, t)
  <1>1. PICK n \in Nat : n = Len(t)
    OBVIOUS
  <1>2. i + 1 < e
    BY <1>1
  <1>3. BlockAt(s, e, f, i) = Found(<<>>, SubSeq(s, i + 2, e - 1))
    BY <1>2, EmptyLine
  <1>4. PICK p \in Nat : p = o + 2
    OBVIOUS
  <1>5. At(s, p, t)
    BY <1>4
  <1>6. SubSeq(s, p + 1, p + Len(t)) = t
    BY <1>5, AtSubSeq
  <1>7. p + 1 = i + 2 /\ p + n = e - 1
    BY <1>1, <1>4
  <1>8. QED
    BY <1>1, <1>3, <1>6, <1>7

\* What is said of a header line is put before the rest.
LEMMA LinePut ==
  ASSUME NEW lines, NEW content, NEW l
  PROVE  WithLine(Found(lines, content), l) = Found(<<l>> \o lines, content)
  <1>1. PICK r : r = Found(lines, content)
    OBVIOUS
  <1>2. r = [ok |-> TRUE, lines |-> lines, content |-> content] /\ r.lines = lines
    BY <1>1 DEF Found
  <1>3. PICK m : m = <<l>> \o lines
    OBVIOUS
  <1>4. WithLine(r, l) = [r EXCEPT !.lines = m]
    BY <1>2, <1>3 DEF WithLine
  <1>5. [r EXCEPT !.lines = m] = [ok |-> TRUE, lines |-> m, content |-> content]
    <2>1. PICK S : S = [ok : {TRUE}, lines : {lines, m}, content : {content}]
      OBVIOUS
    <2>2. r \in S
      BY <1>2, <2>1
    <2>3. PICK q : q = [r EXCEPT !.lines = m]
      OBVIOUS
    <2>4. q \in S /\ q.lines = m
      BY <2>1, <2>2, <2>3
    <2>5. q = [ok |-> TRUE, lines |-> m, content |-> content]
      BY <2>1, <2>4
    <2>6. QED
      BY <2>3, <2>5
  <1>6. QED
    BY <1>1, <1>3, <1>4, <1>5 DEF Found

\* At place i of s a line ends before place e, and what is behind it begins at j.
IsLine(s, e, i, j) ==
  /\ s \in Seq(Nat) /\ i \in Nat /\ 1 <= i /\ e \in Nat /\ e <= Len(s)
  /\ At(s, i, CRLF) /\ i + 2 < e /\ j = i + 3

\* A line and the content behind it.
LEMMA LineRead ==
  ASSUME NEW s, NEW e, NEW i, NEW j, IsLine(s, e, i, j),
         NEW f, NEW lines, NEW content, f[j] = Found(lines, content)
  PROVE  BlockAt(s, e, f, i) = Found(<<Line(s[i])>> \o lines, content)
  <1>1. BlockAt(s, e, f, i) = WithLine(f[i + 3], Line(s[i]))
    BY HeaderLine DEF IsLine
  <1>2. f[i + 3] = Found(lines, content)
    BY DEF IsLine
  <1>3. QED
    BY <1>1, <1>2, LinePut

\* Short sequences, joined.
LEMMA Short ==
  ASSUME NEW u, NEW v
  PROVE  <<u>> \o <<>> = <<u>> /\ <<u>> \o <<v>> = <<u, v>>
  <1>1. PICK S : S = {u, v}
    OBVIOUS
  <1>2. <<u>> \in Seq(S) /\ <<v>> \in Seq(S) /\ <<>> \in Seq(S) /\ <<u, v>> \in Seq(S)
        /\ Len(<<u>>) = 1 /\ Len(<<v>>) = 1 /\ Len(<<>>) = 0 /\ Len(<<u, v>>) = 2
    BY <1>1
  <1>3. <<u>> \o <<>> = <<u>>
    BY <1>2
  <1>4. <<u>> \o <<v>> = <<u, v>>
    <2>1. PICK a \in Seq(S) : a = <<u>> /\ Len(a) = 1 /\ a[1] = u
      BY <1>2
    <2>2. PICK b \in Seq(S) : b = <<v>> /\ Len(b) = 1 /\ b[1] = v
      BY <1>2
    <2>3. PICK p : p = a \o b
      OBVIOUS
    <2>4. p \in Seq(S) /\ Len(p) = 2 /\ p[1] = u /\ p[2] = v
      BY <2>1, <2>2, <2>3
    <2>5. PICK q \in Seq(S) : q = <<u, v>> /\ Len(q) = 2 /\ q[1] = u /\ q[2] = v
      BY <1>2
    <2>6. p = q
      BY <2>4, <2>5, SeqEqual
    <2>7. QED
      BY <2>1, <2>2, <2>3, <2>5, <2>6
  <1>5. QED
    BY <1>3, <1>4

\* The lines of the two blocks.
FileLines == <<Line(Disposition(1, 2)), Line(ContentType(3))>>
FieldLines == <<Line(Disposition(4, 0))>>

\* The first block of an upload.
LEMMA FirstBlock ==
  ASSUME NEW s, NEW t \in Seq(Nat), NEW n \in Nat, n = Len(t), NEW b \in Nat, IsUpload(s, t, b, n)
  PROVE  Block(s, 5 + b, 13 + b + n) = Found(FileLines, t)
  <1>1. s \in Seq(Nat)
    BY DEF IsUpload
  <1>2. PICK l \in Nat : l = Len(s) /\ l = 31 + 3 * b + 2 * n
    BY DEF IsUpload
  <1>3. PICK e \in Nat : e = 13 + b + n /\ e \in 1 .. l /\ e <= Len(s)
    BY <1>2
  <1>4. PICK first \in Nat : first = 5 + b /\ first \in 1 .. l
    BY <1>2
  <1>5. PICK f : Block(s, first, e) = f[first] /\ \A i \in 1 .. l : f[i] = BlockAt(s, e, f, i)
    <2>1. l = Len(s) /\ first \in 1 .. l /\ e \in 1 .. l
      BY <1>2, <1>3, <1>4
    <2>2. \E f : Block(s, first, e) = f[first] /\ IsBlockFunction(f, s, e, l)
      BY <2>1, BlockRead
    <2>3. QED
      BY <2>2 DEF IsBlockFunction
  <1>6. PICK o \in Nat : o = 10 + b
    OBVIOUS
  <1>7. PICK x \in Nat : x = o + 1 /\ x \in 1 .. l
    BY <1>2, <1>6
  <1>8. f[x] = Found(<<>>, t)
    <2>1. At(s, o, CRLF)
      BY <1>6 DEF IsUpload
    <2>2. At(s, o + 2, t)
      <3>1. At(s, 12 + b, t)
        BY DEF IsUpload
      <3>2. o + 2 = 12 + b
        BY <1>6
      <3>3. QED
        BY <3>1, <3>2
    <2>3. e = o + Len(t) + 3
      BY <1>3, <1>6
    <2>4. BlockAt(s, e, f, x) = Found(<<>>, t)
      BY <1>1, <1>3, <1>7, <2>1, <2>2, <2>3, ContentRead
    <2>5. QED
      BY <1>5, <1>7, <2>4
  <1>9. PICK y \in Nat : y = 8 + b /\ y \in 1 .. l /\ y + 2 < e /\ y + 3 = x
    BY <1>2, <1>3, <1>6, <1>7
  <1>10. s[y] = ContentType(3)
    <2>1. PICK k \in Nat : k = 7 + b /\ k + 1 = y
      BY <1>9
    <2>2. At(s, k, <<ContentType(3)>>)
      BY <2>1 DEF IsUpload
    <2>3. s[k + 1] = ContentType(3)
      BY <2>2, AtOne
    <2>4. QED
      BY <2>1, <2>3
  <1>11. PICK ys : ys = <<Line(ContentType(3))>> \o <<>>
    OBVIOUS
  <1>12. f[y] = Found(ys, t)
    <2>1. At(s, y, CRLF)
      BY <1>9 DEF IsUpload
    <2>2. PICK lines : lines = <<>>
      OBVIOUS
    <2>3. f[x] = Found(lines, t)
      BY <1>8, <2>2
    <2>4. IsLine(s, e, y, x)
      BY <1>1, <1>3, <1>9, <2>1 DEF IsLine
    <2>5. BlockAt(s, e, f, y) = Found(<<Line(s[y])>> \o lines, t)
      BY <2>3, <2>4, LineRead
    <2>6. QED
      BY <1>5, <1>9, <1>10, <1>11, <2>2, <2>5
  <1>13. PICK z \in Nat : z = 5 + b /\ z \in 1 .. l /\ z + 2 < e /\ z + 3 = y
    BY <1>2, <1>3, <1>6, <1>7, <1>9
  <1>14. s[z] = Disposition(1, 2)
    <2>1. PICK k \in Nat : k = 4 + b /\ k + 1 = z
      BY <1>13
    <2>2. At(s, k, <<Disposition(1, 2)>>)
      BY <2>1 DEF IsUpload
    <2>3. s[k + 1] = Disposition(1, 2)
      BY <2>2, AtOne
    <2>4. QED
      BY <2>1, <2>3
  <1>15. PICK zs : zs = <<Line(Disposition(1, 2))>> \o ys
    OBVIOUS
  <1>16. f[z] = Found(zs, t)
    <2>1. At(s, z, CRLF)
      BY <1>13 DEF IsUpload
    <2>2. PICK lines : lines = ys
      OBVIOUS
    <2>3. f[y] = Found(lines, t)
      BY <1>12, <2>2
    <2>4. IsLine(s, e, z, y)
      BY <1>1, <1>3, <1>13, <2>1 DEF IsLine
    <2>5. BlockAt(s, e, f, z) = Found(<<Line(s[z])>> \o lines, t)
      BY <2>3, <2>4, LineRead
    <2>6. QED
      BY <1>5, <1>13, <1>14, <1>15, <2>2, <2>5
  <1>17. zs = FileLines
    BY <1>11, <1>15, Short DEF FileLines
  <1>18. z = first
    BY <1>4, <1>13
  <1>19. QED
    BY <1>3, <1>4, <1>5, <1>16, <1>17, <1>18

\* The second block.
LEMMA SecondBlock ==
  ASSUME NEW s, NEW t \in Seq(Nat), NEW n \in Nat, n = Len(t), NEW b \in Nat, IsUpload(s, t, b, n)
  PROVE  Block(s, 19 + 2 * b + n, 24 + 2 * b + 2 * n) = Found(FieldLines, t)
  <1>1. s \in Seq(Nat)
    BY DEF IsUpload
  <1>2. PICK l \in Nat : l = Len(s) /\ l = 31 + 3 * b + 2 * n
    BY DEF IsUpload
  <1>3. PICK e \in Nat : e = 24 + 2 * b + 2 * n /\ e \in 1 .. l /\ e <= Len(s)
    BY <1>2
  <1>4. PICK first \in Nat : first = 19 + 2 * b + n /\ first \in 1 .. l
    BY <1>2
  <1>5. PICK f : Block(s, first, e) = f[first] /\ \A i \in 1 .. l : f[i] = BlockAt(s, e, f, i)
    <2>1. l = Len(s) /\ first \in 1 .. l /\ e \in 1 .. l
      BY <1>2, <1>3, <1>4
    <2>2. \E f : Block(s, first, e) = f[first] /\ IsBlockFunction(f, s, e, l)
      BY <2>1, BlockRead
    <2>3. QED
      BY <2>2 DEF IsBlockFunction
  <1>6. PICK o \in Nat : o = 21 + 2 * b + n
    OBVIOUS
  <1>7. PICK x \in Nat : x = o + 1 /\ x \in 1 .. l
    BY <1>2, <1>6
  <1>8. f[x] = Found(<<>>, t)
    <2>1. At(s, o, CRLF)
      BY <1>6 DEF IsUpload
    <2>2. At(s, o + 2, t)
      <3>1. At(s, 23 + 2 * b + n, t)
        BY DEF IsUpload
      <3>2. o + 2 = 23 + 2 * b + n
        BY <1>6
      <3>3. QED
        BY <3>1, <3>2
    <2>3. e = o + Len(t) + 3
      BY <1>3, <1>6
    <2>4. BlockAt(s, e, f, x) = Found(<<>>, t)
      BY <1>1, <1>3, <1>7, <2>1, <2>2, <2>3, ContentRead
    <2>5. QED
      BY <1>5, <1>7, <2>4
  <1>9. PICK y \in Nat : y = 19 + 2 * b + n /\ y \in 1 .. l /\ y + 2 < e /\ y + 3 = x
    <2>1. PICK y \in Nat : y = 19 + 2 * b + n
      OBVIOUS
    <2>2. y \in 1 .. l
      BY <1>2, <2>1
    <2>3. y + 2 < e
      BY <1>3, <2>1
    <2>4. y + 3 = x
      BY <1>6, <1>7, <2>1
    <2>5. QED
      BY <2>1, <2>2, <2>3, <2>4
  <1>10. s[y] = Disposition(4, 0)
    <2>1. PICK k \in Nat : k = 18 + 2 * b + n /\ k + 1 = y
      BY <1>9
    <2>2. At(s, k, <<Disposition(4, 0)>>)
      BY <2>1 DEF IsUpload
    <2>3. s[k + 1] = Disposition(4, 0)
      BY <2>2, AtOne
    <2>4. QED
      BY <2>1, <2>3
  <1>11. PICK ys : ys = <<Line(Disposition(4, 0))>> \o <<>>
    OBVIOUS
  <1>12. f[y] = Found(ys, t)
    <2>1. At(s, y, CRLF)
      BY <1>9 DEF IsUpload
    <2>2. PICK lines : lines = <<>>
      OBVIOUS
    <2>3. f[x] = Found(lines, t)
      BY <1>8, <2>2
    <2>4. IsLine(s, e, y, x)
      BY <1>1, <1>3, <1>9, <2>1 DEF IsLine
    <2>5. BlockAt(s, e, f, y) = Found(<<Line(s[y])>> \o lines, t)
      BY <2>3, <2>4, LineRead
    <2>6. QED
      BY <1>5, <1>9, <1>10, <1>11, <2>2, <2>5
  <1>13. ys = FieldLines
    BY <1>11, Short DEF FieldLines
  <1>14. y = first
    BY <1>4, <1>9
  <1>15. QED
    BY <1>3, <1>4, <1>5, <1>12, <1>13, <1>14

\* What is found, if it is well-formed.
Sent(blocks) == [ok |-> TRUE, blocks |-> blocks]

\* The block from start on ends before place end, its delimiter before place next.
BlockEnds(s, start, end, next) ==
  /\ Delimiters(s, start) # {} /\ First(Delimiters(s, start)) = end + 3 /\ start # end
  /\ next = end + 4 + Len(Boundary) /\ Len(Boundary) \in Nat /\ Len(s) \in Nat

\* Behind that delimiter the next block starts at place on, or nothing is left.
GoesOn(s, next, on) == next + 1 <= Len(s) /\ s[next] # Dash /\ on = next + 2
AllRead(s, next) == next < Len(s) /\ s[next] = Dash /\ s[next + 1] = Dash

\* A block that is followed by another.
LEMMA BlockBefore ==
  ASSUME NEW s, NEW f, NEW start \in Nat, NEW end \in Nat, NEW next \in Nat, NEW on \in Nat,
         BlockEnds(s, start, end, next), GoesOn(s, next, on),
         NEW lines, NEW content, Block(s, start, end) = Found(lines, content),
         NEW blocks, f[on] = Sent(blocks)
  PROVE  BlocksAt(s, f, start) = Sent(<<Found(lines, content)>> \o blocks)
  <1>1. PICK block : block = Block(s, start, end)
    OBVIOUS
  <1>2. block.ok = TRUE
    BY <1>1 DEF Found
  <1>3. PICK c \in Nat : c = First(Delimiters(s, start)) /\ c = end + 3
    BY DEF BlockEnds
  <1>4. c - 3 = end /\ (c - 3) + 4 + Len(Boundary) = next
    BY <1>3 DEF BlockEnds
  <1>5. Delimiters(s, start) # {} /\ start # c - 3
    BY <1>4 DEF BlockEnds
  <1>6. ~(next + 1 > Len(s)) /\ s[next] # Dash /\ next + 2 = on
    BY DEF GoesOn, BlockEnds
  <1>7. BlocksAt(s, f, start) = [ok |-> block.ok /\ f[on].ok, blocks |-> <<block>> \o f[on].blocks]
    BY <1>1, <1>3, <1>4, <1>5, <1>6 DEF BlocksAt
  <1>8. f[on].ok = TRUE /\ f[on].blocks = blocks
    BY DEF Sent
  <1>9. QED
    BY <1>1, <1>2, <1>7, <1>8 DEF Sent

\* The last block.
LEMMA LastBlock ==
  ASSUME NEW s, NEW f, NEW start \in Nat, NEW end \in Nat, NEW next \in Nat,
         BlockEnds(s, start, end, next), AllRead(s, next),
         NEW lines, NEW content, Block(s, start, end) = Found(lines, content)
  PROVE  BlocksAt(s, f, start) = Sent(<<Found(lines, content)>>)
  <1>1. PICK block : block = Block(s, start, end)
    OBVIOUS
  <1>2. block.ok = TRUE
    BY <1>1 DEF Found
  <1>3. PICK c \in Nat : c = First(Delimiters(s, start)) /\ c = end + 3
    BY DEF BlockEnds
  <1>4. c - 3 = end /\ (c - 3) + 4 + Len(Boundary) = next
    BY <1>3 DEF BlockEnds
  <1>5. Delimiters(s, start) # {} /\ start # c - 3
    BY <1>4 DEF BlockEnds
  <1>6. ~(next + 1 > Len(s)) /\ s[next] = Dash /\ s[next + 1] = Dash
    BY DEF AllRead, BlockEnds
  <1>7. PICK rest : rest = [ok |-> TRUE, blocks |-> <<>>]
    OBVIOUS
  <1>8. BlocksAt(s, f, start) = [ok |-> block.ok /\ rest.ok, blocks |-> <<block>> \o rest.blocks]
    BY <1>1, <1>3, <1>4, <1>5, <1>6, <1>7 DEF BlocksAt
  <1>9. rest.ok = TRUE /\ rest.blocks = <<>>
    BY <1>7
  <1>10. <<block>> \o <<>> = <<block>>
    BY Short
  <1>11. QED
    BY <1>1, <1>2, <1>8, <1>9, <1>10 DEF Sent

\* The header lines of a block have no dash.
LEMMA NoDash ==
  /\ 13 # Dash /\ 10 # Dash
  /\ Disposition(1, 2) # Dash /\ Disposition(4, 0) # Dash /\ ContentType(3) # Dash
  BY DEF Dash, Disposition, ContentType

\* The first block ends behind the file.
LEMMA FileEnds ==
  ASSUME NEW s, NEW t \in Seq(Nat), NEW n \in Nat, n = Len(t), NEW b \in Nat, b = Len(Boundary),
         IsUpload(s, t, b, n), Occurrences(t, Delimiter) = {}
  PROVE  Delimiters(s, 5 + b) # {} /\ First(Delimiters(s, 5 + b)) = 16 + b + n
  <1>1. s \in Seq(Nat)
    BY DEF IsUpload
  <1>2. PICK l \in Nat : l = Len(s) /\ l = 31 + 3 * b + 2 * n
    BY DEF IsUpload
  <1>3. PICK f \in Nat : f = 5 + b /\ 1 <= f
    OBVIOUS
  <1>4. PICK h \in Nat : h = 12 + b /\ f <= h
    BY <1>3
  <1>5. ASSUME NEW i \in f .. h PROVE s[i] # Dash
    <2>1. s[(4 + b) + 1] = Disposition(1, 2)
      <3>1. At(s, 4 + b, <<Disposition(1, 2)>>)
        BY DEF IsUpload
      <3>2. QED
        BY <3>1, AtOne
    <2>2. s[(5 + b) + 1] = 13 /\ s[(5 + b) + 2] = 10
      <3>1. At(s, 5 + b, CRLF)
        BY DEF IsUpload
      <3>2. QED
        BY <3>1, AtLineEnd
    <2>3. s[(7 + b) + 1] = ContentType(3)
      <3>1. At(s, 7 + b, <<ContentType(3)>>)
        BY DEF IsUpload
      <3>2. QED
        BY <3>1, AtOne
    <2>4. s[(8 + b) + 1] = 13 /\ s[(8 + b) + 2] = 10
      <3>1. At(s, 8 + b, CRLF)
        BY DEF IsUpload
      <3>2. QED
        BY <3>1, AtLineEnd
    <2>5. s[(10 + b) + 1] = 13 /\ s[(10 + b) + 2] = 10
      <3>1. At(s, 10 + b, CRLF)
        BY DEF IsUpload
      <3>2. QED
        BY <3>1, AtLineEnd
    <2>6. \/ i = (4 + b) + 1 \/ i = (5 + b) + 1 \/ i = (5 + b) + 2 \/ i = (7 + b) + 1
          \/ i = (8 + b) + 1 \/ i = (8 + b) + 2 \/ i = (10 + b) + 1 \/ i = (10 + b) + 2
      BY <1>3, <1>4
    <2>7. QED
      BY <2>1, <2>2, <2>3, <2>4, <2>5, <2>6, NoDash
  <1>6. At(s, h, t) /\ At(s, h + n, CRLF) /\ At(s, h + n + 2, Delimiter)
    <2>1. At(s, 12 + b, t) /\ At(s, 12 + b + n, CRLF) /\ At(s, 14 + b + n, Delimiter)
      BY DEF IsUpload
    <2>2. h = 12 + b /\ h + n = 12 + b + n /\ h + n + 2 = 14 + b + n
      BY <1>4
    <2>3. QED
      BY <2>1, <2>2
  <1>7. h + n + 6 + b < l
    BY <1>2, <1>4
  <1>8. PICK e \in Nat : e = h + n + 4 /\ e = 16 + b + n
    BY <1>4
  <1>9. EndsBehind(s, t, f, h, e)
    BY <1>2, <1>3, <1>4, <1>5, <1>6, <1>7, <1>8 DEF EndsBehind
  <1>10. Delimiters(s, f) # {} /\ First(Delimiters(s, f)) = e
    BY <1>1, <1>9, DelimiterFound
  <1>11. QED
    BY <1>3, <1>8, <1>10

\* The second ends behind the field.
LEMMA FieldEnds ==
  ASSUME NEW s, NEW t \in Seq(Nat), NEW n \in Nat, n = Len(t), NEW b \in Nat, b = Len(Boundary),
         IsUpload(s, t, b, n), Occurrences(t, Delimiter) = {}
  PROVE  /\ Delimiters(s, 19 + 2 * b + n) # {}
         /\ First(Delimiters(s, 19 + 2 * b + n)) = 27 + 2 * b + 2 * n
  <1>1. s \in Seq(Nat)
    BY DEF IsUpload
  <1>2. PICK l \in Nat : l = Len(s) /\ l = 31 + 3 * b + 2 * n
    BY DEF IsUpload
  <1>3. PICK f \in Nat : f = 19 + 2 * b + n /\ 1 <= f
    OBVIOUS
  <1>4. PICK h \in Nat : h = 23 + 2 * b + n /\ f <= h
    BY <1>3
  <1>5. ASSUME NEW i \in f .. h PROVE s[i] # Dash
    <2>1. PICK x \in Nat : x = 18 + 2 * b + n
      OBVIOUS
    <2>2. s[x + 1] = Disposition(4, 0)
      <3>1. At(s, x, <<Disposition(4, 0)>>)
        BY <2>1 DEF IsUpload
      <3>2. QED
        BY <3>1, AtOne
    <2>3. PICK y \in Nat : y = 19 + 2 * b + n
      OBVIOUS
    <2>4. s[y + 1] = 13 /\ s[y + 2] = 10
      <3>1. At(s, y, CRLF)
        BY <2>3 DEF IsUpload
      <3>2. QED
        BY <3>1, AtLineEnd
    <2>5. PICK z \in Nat : z = 21 + 2 * b + n
      OBVIOUS
    <2>6. s[z + 1] = 13 /\ s[z + 2] = 10
      <3>1. At(s, z, CRLF)
        BY <2>5 DEF IsUpload
      <3>2. QED
        BY <3>1, AtLineEnd
    <2>7. i = x + 1 \/ i = y + 1 \/ i = y + 2 \/ i = z + 1 \/ i = z + 2
      BY <1>3, <1>4, <2>1, <2>3, <2>5, SMTT(30)
    <2>8. QED
      BY <2>2, <2>4, <2>6, <2>7, NoDash
  <1>6. At(s, h, t) /\ At(s, h + n, CRLF) /\ At(s, h + n + 2, Delimiter)
    <2>1. /\ At(s, 23 + 2 * b + n, t) /\ At(s, 23 + 2 * b + 2 * n, CRLF)
          /\ At(s, 25 + 2 * b + 2 * n, Delimiter)
      BY DEF IsUpload
    <2>2. h = 23 + 2 * b + n /\ h + n = 23 + 2 * b + 2 * n /\ h + n + 2 = 25 + 2 * b + 2 * n
      BY <1>4
    <2>3. QED
      BY <2>1, <2>2
  <1>7. h + n + 6 + b < l
    BY <1>2, <1>4
  <1>8. PICK e \in Nat : e = h + n + 4 /\ e = 27 + 2 * b + 2 * n
    BY <1>4
  <1>9. EndsBehind(s, t, f, h, e)
    BY <1>2, <1>3, <1>4, <1>5, <1>6, <1>7, <1>8 DEF EndsBehind
  <1>10. Delimiters(s, f) # {} /\ First(Delimiters(s, f)) = e
    BY <1>1, <1>9, DelimiterFound
  <1>11. QED
    BY <1>3, <1>8, <1>10

\* The blocks of an upload.
LEMMA UploadBlocks ==
  ASSUME NEW s, NEW t \in Seq(Nat), NEW n \in Nat, n = Len(t), NEW b \in Nat, b = Len(Boundary),
         IsUpload(s, t, b, n), Occurrences(t, Delimiter) = {}
  PROVE  Blocks(s, 5 + b) = Sent(<<Found(FileLines, t), Found(FieldLines, t)>>)
  <1>1. s \in Seq(Nat) /\ Len(s) \in Nat /\ Len(Boundary) \in Nat
    BY DEF IsUpload
  <1>2. PICK l \in Nat : l = Len(s) /\ l = 31 + 3 * b + 2 * n
    BY DEF IsUpload
  <1>3. PICK x \in Nat : x = 5 + b /\ x \in 1 .. l + 1
    BY <1>2
  <1>4. PICK f : Blocks(s, x) = f[x] /\ \A i \in 1 .. l + 1 : f[i] = BlocksAt(s, f, i)
    BY <1>2, <1>3, BlocksRead
  <1>5. PICK y \in Nat : y = 19 + 2 * b + n /\ y \in 1 .. l + 1
    <2>1. PICK y \in Nat : y = 19 + 2 * b + n
      OBVIOUS
    <2>2. y \in 1 .. l + 1
      BY <1>2, <2>1
    <2>3. QED
      BY <2>1, <2>2
  <1>6. f[y] = Sent(<<Found(FieldLines, t)>>)
    <2>1. PICK end \in Nat : end = 24 + 2 * b + 2 * n
      OBVIOUS
    <2>2. PICK c \in Nat : c = 27 + 2 * b + 2 * n
      OBVIOUS
    <2>3. Delimiters(s, y) # {} /\ First(Delimiters(s, y)) = c
      BY <1>5, <2>2, FieldEnds
    <2>4. Block(s, y, end) = Found(FieldLines, t)
      <3>1. Block(s, 19 + 2 * b + n, 24 + 2 * b + 2 * n) = Found(FieldLines, t)
        BY SecondBlock
      <3>2. QED
        BY <1>5, <2>1, <3>1
    <2>5. PICK o \in Nat : o = 27 + 3 * b + 2 * n
      OBVIOUS
    <2>6. PICK next \in Nat : next = end + 4 + Len(Boundary) /\ next = o + 1 /\ next < Len(s)
      BY <1>2, <2>1, <2>5
    <2>7. s[o + 1] = Dash /\ s[o + 2] = Dash
      <3>1. PICK p : p = <<Dash, Dash>>
        OBVIOUS
      <3>2. At(s, o, p)
        BY <2>5, <3>1 DEF IsUpload
      <3>3. Len(p) = 2 /\ p[1] = Dash /\ p[2] = Dash
        BY <3>1
      <3>4. \A i \in 1 .. 2 : s[o + i] = p[i]
        BY <3>2, <3>3 DEF At
      <3>5. QED
        BY <3>3, <3>4
    <2>8. AllRead(s, next)
      BY <2>6, <2>7 DEF AllRead
    <2>9. BlockEnds(s, y, end, next)
      BY <1>1, <1>5, <2>1, <2>2, <2>3, <2>6, SMTT(30) DEF BlockEnds
    <2>10. BlocksAt(s, f, y) = Sent(<<Found(FieldLines, t)>>)
      BY <2>4, <2>8, <2>9, LastBlock
    <2>11. QED
      BY <1>2, <1>4, <1>5, <2>10
  <1>7. f[x] = Sent(<<Found(FileLines, t)>> \o <<Found(FieldLines, t)>>)
    <2>1. PICK end \in Nat : end = 13 + b + n
      OBVIOUS
    <2>2. PICK c \in Nat : c = 16 + b + n
      OBVIOUS
    <2>3. Delimiters(s, x) # {} /\ First(Delimiters(s, x)) = c
      BY <1>3, <2>2, FileEnds
    <2>4. Block(s, x, end) = Found(FileLines, t)
      <3>1. Block(s, 5 + b, 13 + b + n) = Found(FileLines, t)
        BY FirstBlock
      <3>2. QED
        BY <1>3, <2>1, <3>1
    <2>5. PICK o \in Nat : o = 16 + 2 * b + n
      OBVIOUS
    <2>6. PICK next \in Nat : next = end + 4 + Len(Boundary) /\ next = o + 1 /\ next + 1 <= Len(s)
      <3>1. PICK next \in Nat : next = o + 1
        BY <2>5
      <3>2. next = end + 4 + Len(Boundary) /\ next + 1 <= Len(s)
        BY <1>2, <2>1, <2>5, <3>1
      <3>3. QED
        BY <3>1, <3>2
    <2>7. s[o + 1] = 13
      <3>1. At(s, o, CRLF)
        BY <2>5 DEF IsUpload
      <3>2. QED
        BY <3>1, AtLineEnd
    <2>8. GoesOn(s, next, y)
      <3>1. y = next + 2
        BY <1>5, <2>5, <2>6
      <3>2. QED
        BY <2>6, <2>7, <3>1, NoDash DEF GoesOn
    <2>9. BlockEnds(s, x, end, next)
      BY <1>1, <1>3, <2>1, <2>2, <2>3, <2>6, SMTT(30) DEF BlockEnds
    <2>10. PICK blocks : blocks = <<Found(FieldLines, t)>>
      OBVIOUS
    <2>11. BlocksAt(s, f, x) = Sent(<<Found(FileLines, t)>> \o blocks)
      BY <1>6, <2>4, <2>8, <2>9, <2>10, BlockBefore
    <2>12. QED
      BY <1>3, <1>4, <2>10, <2>11
  <1>8. <<Found(FileLines, t)>> \o <<Found(FieldLines, t)>>
          = <<Found(FileLines, t), Found(FieldLines, t)>>
    BY Short
  <1>9. QED
    BY <1>3, <1>4, <1>7, <1>8

\* What the lines of the blocks tell.
LEMMA LinesTell ==
  /\ FileLines = << [name |-> 1, filename |-> 2, type |-> 0],
                    [name |-> 0, filename |-> 0, type |-> 3] >>
  /\ FieldLines = <<[name |-> 4, filename |-> 0, type |-> 0]>>
  <1>1. Line(Disposition(1, 2)) = [name |-> 1, filename |-> 2, type |-> 0]
    <2>1. PICK h \in Nat : h = Disposition(1, 2) /\ h = 1012
      BY DEF Disposition
    <2>2. h \in 1000 .. 1999 /\ (h - 1000) \div 10 = 1 /\ h % 10 = 2
      BY <2>1
    <2>3. QED
      BY <2>1, <2>2 DEF Line
  <1>2. Line(Disposition(4, 0)) = [name |-> 4, filename |-> 0, type |-> 0]
    <2>1. PICK h \in Nat : h = Disposition(4, 0) /\ h = 1040
      BY DEF Disposition
    <2>2. h \in 1000 .. 1999 /\ (h - 1000) \div 10 = 4 /\ h % 10 = 0
      BY <2>1
    <2>3. QED
      BY <2>1, <2>2 DEF Line
  <1>3. Line(ContentType(3)) = [name |-> 0, filename |-> 0, type |-> 3]
    <2>1. PICK h \in Nat : h = ContentType(3) /\ h = 2003
      BY DEF ContentType
    <2>2. h \notin 1000 .. 1999 /\ h - 2000 = 3
      BY <2>1
    <2>3. QED
      BY <2>1, <2>2 DEF Line
  <1>4. QED
    BY <1>1, <1>2, <1>3 DEF FileLines, FieldLines

\* What is told by the one of two lines that tells something.
LEMMA ToldTwo ==
  ASSUME NEW v, v = [i \in 1 .. 2 |-> v[i]], NEW k \in 1 .. 2, v[k] # 0,
         \A i \in 1 .. 2 : i # k => v[i] = 0
  PROVE  Told(v) = v[k]
  <1>1. PICK T : T = {i \in DOMAIN v : v[i] # 0}
    OBVIOUS
  <1>2. DOMAIN v = 1 .. 2
    OBVIOUS
  <1>3. T = {k}
    BY <1>1, <1>2
  <1>4. {k} \in SUBSET (1 .. 2) /\ {k} # {}
    OBVIOUS
  <1>5. Max({k}) \in {k}
    BY <1>4, GreatestIs
  <1>6. T # {} /\ Max(T) = k
    BY <1>3, <1>5
  <1>7. QED
    BY <1>1, <1>6 DEF Told

\* What is told by a single line.
LEMMA ToldOne ==
  ASSUME NEW v, v = [i \in 1 .. 1 |-> v[i]]
  PROVE  Told(v) = v[1]
  <1>1. PICK T : T = {i \in DOMAIN v : v[i] # 0}
    OBVIOUS
  <1>2. DOMAIN v = 1 .. 1
    OBVIOUS
  <1>3. CASE v[1] # 0
    <2>1. T = {1}
      BY <1>1, <1>2, <1>3
    <2>2. {1} \in SUBSET (1 .. 1) /\ {1} # {}
      OBVIOUS
    <2>3. Max({1}) \in {1}
      BY <2>2, GreatestIs
    <2>4. T # {} /\ Max(T) = 1
      BY <2>1, <2>3
    <2>5. QED
      BY <1>1, <2>4 DEF Told
  <1>4. CASE v[1] = 0
    <2>1. T = {}
      BY <1>1, <1>2, <1>4
    <2>2. QED
      BY <1>1, <1>4, <2>1 DEF Told
  <1>5. QED
    BY <1>3, <1>4

\* A sequence with one element more.
LEMMA OneMore ==
  ASSUME NEW S, NEW p \in Seq(S), NEW e \in S, NEW q \in Seq(S),
         Len(q) = Len(p) + 1, q[Len(p) + 1] = e, \A i \in 1 .. Len(p) : q[i] = p[i]
  PROVE  Append(p, e) = q
  <1>1. PICK x : x = Append(p, e)
    OBVIOUS
  <1>2. PICK n \in Nat : n = Len(p)
    OBVIOUS
  <1>3. x \in Seq(S) /\ Len(x) = n + 1 /\ x[n + 1] = e /\ \A i \in 1 .. n : x[i] = p[i]
    BY <1>1, <1>2
  <1>4. \A i \in 1 .. n + 1 : x[i] = q[i]
    BY <1>2, <1>3
  <1>5. QED
    BY <1>1, <1>2, <1>3, <1>4, SeqEqual

\* Elements put one behind the other.
LEMMA Appended ==
  ASSUME NEW a, NEW b, NEW c, NEW d
  PROVE  /\ Append(<<>>, a) = <<a>> /\ Append(<<a>>, b) = <<a, b>>
         /\ Append(<<a, b>>, c) = <<a, b, c>> /\ Append(<<a, b, c>>, d) = <<a, b, c, d>>
  <1>1. PICK S : S = {a, b, c, d}
    OBVIOUS
  <1>2. /\ <<>> \in Seq(S) /\ <<a>> \in Seq(S) /\ <<a, b>> \in Seq(S) /\ <<a, b, c>> \in Seq(S)
        /\ <<a, b, c, d>> \in Seq(S) /\ Len(<<>>) = 0 /\ Len(<<a>>) = 1 /\ Len(<<a, b>>) = 2
        /\ Len(<<a, b, c>>) = 3 /\ Len(<<a, b, c, d>>) = 4
    BY <1>1
  <1>3. PICK p \in Seq(S) : p = <<>> /\ Len(p) = 0
    BY <1>2
  <1>4. PICK q \in Seq(S) : q = <<a>> /\ Len(q) = 1 /\ q[1] = a
    BY <1>2
  <1>5. PICK r \in Seq(S) : r = <<a, b>> /\ Len(r) = 2 /\ r[1] = a /\ r[2] = b
    BY <1>2
  <1>6. PICK u \in Seq(S) : u = <<a, b, c>> /\ Len(u) = 3 /\ u[1] = a /\ u[2] = b /\ u[3] = c
    BY <1>2
  <1>7. PICK v \in Seq(S) : /\ v = <<a, b, c, d>> /\ Len(v) = 4
                            /\ v[1] = a /\ v[2] = b /\ v[3] = c /\ v[4] = d
    BY <1>2
  <1>8. a \in S /\ b \in S /\ c \in S /\ d \in S
    BY <1>1
  <1>9. Append(p, a) = q
    <2>1. /\ Len(q) = Len(p) + 1 /\ q[Len(p) + 1] = a
          /\ \A i \in 1 .. Len(p) : q[i] = p[i]
      BY <1>3, <1>4
    <2>2. p \in Seq(S) /\ q \in Seq(S)
      BY <1>3, <1>4
    <2>3. QED
      BY <1>8, <2>1, <2>2, OneMore
  <1>10. Append(q, b) = r
    <2>1. /\ Len(r) = Len(q) + 1 /\ r[Len(q) + 1] = b
          /\ \A i \in 1 .. Len(q) : r[i] = q[i]
      BY <1>4, <1>5
    <2>2. q \in Seq(S) /\ r \in Seq(S)
      BY <1>4, <1>5
    <2>3. QED
      BY <1>8, <2>1, <2>2, OneMore
  <1>11. Append(r, c) = u
    <2>1. /\ Len(u) = Len(r) + 1 /\ u[Len(r) + 1] = c
          /\ \A i \in 1 .. Len(r) : u[i] = r[i]
      BY <1>5, <1>6
    <2>2. r \in Seq(S) /\ u \in Seq(S)
      BY <1>5, <1>6
    <2>3. QED
      BY <1>8, <2>1, <2>2, OneMore
  <1>12. Append(u, d) = v
    <2>1. /\ Len(v) = Len(u) + 1 /\ v[Len(u) + 1] = d
          /\ \A i \in 1 .. Len(u) : v[i] = u[i]
      BY <1>6, <1>7
    <2>2. u \in Seq(S) /\ v \in Seq(S)
      BY <1>6, <1>7
    <2>3. QED
      BY <1>8, <2>1, <2>2, OneMore
  <1>13. QED
    BY <1>3, <1>4, <1>5, <1>6, <1>7, <1>9, <1>10, <1>11, <1>12

\* A name that is new in a map is put behind it.
LEMMA Assigned ==
  ASSUME NEW map, NEW name, NEW value, \A i \in DOMAIN map : map[i].name # name
  PROVE  Assign(map, name, value) = Append(map, Field(name, value))
  BY DEF Assign, Field

\* The name of a field.
LEMMA NamedSo ==
  ASSUME NEW name, NEW value
  PROVE  Field(name, value).name = name
  BY DEF Field

\* What the lines of a block tell, and the map behind it.
Tells(lines, name, filename, type) ==
  /\ Told([i \in DOMAIN lines |-> lines[i].name]) = name
  /\ Told([i \in DOMAIN lines |-> lines[i].filename]) = filename
  /\ Told([i \in DOMAIN lines |-> lines[i].type]) = type

\* Both header lines of the file tell something, and that of the field.
LEMMA FileTells == Tells(FileLines, 1, 2, 3)
  <1>1. PICK w : w = FileLines
    OBVIOUS
  <1>2. PICK x : x = [name |-> 1, filename |-> 2, type |-> 0]
    OBVIOUS
  <1>3. PICK y : y = [name |-> 0, filename |-> 0, type |-> 3]
    OBVIOUS
  <1>4. w = <<x, y>>
    BY <1>1, <1>2, <1>3, LinesTell
  <1>5. DOMAIN w = 1 .. 2 /\ w[1] = x /\ w[2] = y
    BY <1>4
  <1>6. Told([i \in DOMAIN w |-> w[i].name]) = 1
    <2>1. PICK v : v = [i \in 1 .. 2 |-> w[i].name]
      OBVIOUS
    <2>2. v = [i \in 1 .. 2 |-> v[i]] /\ v[1] = 1 /\ v[2] = 0
      BY <1>2, <1>3, <1>5, <2>1
    <2>3. PICK k \in 1 .. 2 : k = 1
      OBVIOUS
    <2>4. v[k] # 0 /\ \A i \in 1 .. 2 : i # k => v[i] = 0
      BY <2>2, <2>3
    <2>5. Told(v) = v[k]
      BY <2>2, <2>4, ToldTwo
    <2>6. QED
      BY <1>5, <2>1, <2>2, <2>3, <2>5
  <1>7. Told([i \in DOMAIN w |-> w[i].filename]) = 2
    <2>1. PICK v : v = [i \in 1 .. 2 |-> w[i].filename]
      OBVIOUS
    <2>2. v = [i \in 1 .. 2 |-> v[i]] /\ v[1] = 2 /\ v[2] = 0
      BY <1>2, <1>3, <1>5, <2>1
    <2>3. PICK k \in 1 .. 2 : k = 1
      OBVIOUS
    <2>4. v[k] # 0 /\ \A i \in 1 .. 2 : i # k => v[i] = 0
      BY <2>2, <2>3
    <2>5. Told(v) = v[k]
      BY <2>2, <2>4, ToldTwo
    <2>6. QED
      BY <1>5, <2>1, <2>2, <2>3, <2>5
  <1>8. Told([i \in DOMAIN w |-> w[i].type]) = 3
    <2>1. PICK v : v = [i \in 1 .. 2 |-> w[i].type]
      OBVIOUS
    <2>2. v = [i \in 1 .. 2 |-> v[i]] /\ v[1] = 0 /\ v[2] = 3
      BY <1>2, <1>3, <1>5, <2>1
    <2>3. PICK k \in 1 .. 2 : k = 2
      OBVIOUS
    <2>4. v[k] # 0 /\ \A i \in 1 .. 2 : i # k => v[i] = 0
      BY <2>2, <2>3
    <2>5. Told(v) = v[k]
      BY <2>2, <2>4, ToldTwo
    <2>6. QED
      BY <1>5, <2>1, <2>2, <2>3, <2>5
  <1>9. QED
    BY <1>1, <1>6, <1>7, <1>8 DEF Tells

\* The field has a name and no more.
LEMMA FieldTells == Tells(FieldLines, 4, 0, 0)
  <1>1. PICK w : w = FieldLines
    OBVIOUS
  <1>2. PICK x : x = [name |-> 4, filename |-> 0, type |-> 0]
    OBVIOUS
  <1>3. w = <<x>>
    BY <1>1, <1>2, LinesTell
  <1>4. DOMAIN w = 1 .. 1 /\ w[1] = x
    BY <1>3
  <1>5. PICK u : u = [i \in 1 .. 1 |-> w[i].name]
    OBVIOUS
  <1>6. u = [i \in 1 .. 1 |-> u[i]] /\ u[1] = 4
    BY <1>2, <1>4, <1>5
  <1>7. PICK v : v = [i \in 1 .. 1 |-> w[i].filename]
    OBVIOUS
  <1>8. v = [i \in 1 .. 1 |-> v[i]] /\ v[1] = 0
    BY <1>2, <1>4, <1>7
  <1>9. PICK z : z = [i \in 1 .. 1 |-> w[i].type]
    OBVIOUS
  <1>10. z = [i \in 1 .. 1 |-> z[i]] /\ z[1] = 0
    BY <1>2, <1>4, <1>9
  <1>11. Told(u) = 4 /\ Told(v) = 0 /\ Told(z) = 0
    BY <1>6, <1>8, <1>10, ToldOne
  <1>12. QED
    BY <1>1, <1>4, <1>5, <1>7, <1>9, <1>11 DEF Tells

\* A map with what is told of a file.
FileFields(map, n, f, c, t) ==
  Assign(Assign(Assign(map, <<n, "">>, t), <<n, "filename">>, <<f>>), <<n, "content_type">>, <<c>>)

\* The map behind a block with a file.
LEMMA FileAssigned ==
  ASSUME NEW map, NEW lines, NEW t, NEW n, NEW f, NEW c, Tells(lines, n, f, c),
         n # 0, f # 0, c # 0
  PROVE  WithBlock(map, Found(lines, t)) = FileFields(map, n, f, c, t)
  <1>1. PICK block : block = Found(lines, t)
    OBVIOUS
  <1>2. block.lines = lines /\ block.content = t
    BY <1>1 DEF Found
  <1>3. /\ Told([i \in DOMAIN block.lines |-> block.lines[i].name]) = n
        /\ Told([i \in DOMAIN block.lines |-> block.lines[i].filename]) = f
        /\ Told([i \in DOMAIN block.lines |-> block.lines[i].type]) = c
    BY <1>2 DEF Tells
  <1>4. QED
    BY <1>1, <1>2, <1>3 DEF WithBlock, FileFields

\* And behind one with a field.
LEMMA FieldAssigned ==
  ASSUME NEW map, NEW lines, NEW t, NEW n, Tells(lines, n, 0, 0), n # 0
  PROVE  WithBlock(map, Found(lines, t)) = Assign(map, <<n, "">>, t)
  <1>1. PICK block : block = Found(lines, t)
    OBVIOUS
  <1>2. block.lines = lines /\ block.content = t
    BY <1>1 DEF Found
  <1>3. /\ Told([i \in DOMAIN block.lines |-> block.lines[i].name]) = n
        /\ Told([i \in DOMAIN block.lines |-> block.lines[i].filename]) = 0
        /\ Told([i \in DOMAIN block.lines |-> block.lines[i].type]) = 0
    BY <1>2 DEF Tells
  <1>4. QED
    BY <1>1, <1>2, <1>3 DEF WithBlock

\* The four fields that an upload makes.
FourFields(t) ==
  << Field(<<1, "">>, t), Field(<<1, "filename">>, <<2>>),
     Field(<<1, "content_type">>, <<3>>), Field(<<4, "">>, t) >>

\* They are what its blocks are folded to.
LEMMA FoldedFields ==
  ASSUME NEW t
  PROVE  FoldLeft(WithBlock, <<>>, <<Found(FileLines, t), Found(FieldLines, t)>>) = FourFields(t)
  <1>1. PICK n1 : n1 = <<1, "">>
    OBVIOUS
  <1>2. PICK n2 : n2 = <<1, "filename">>
    OBVIOUS
  <1>3. PICK n3 : n3 = <<1, "content_type">>
    OBVIOUS
  <1>4. PICK n4 : n4 = <<4, "">>
    OBVIOUS
  <1>5. n1 # n2 /\ n1 # n3 /\ n2 # n3
    <2>1. n1[2] # n2[2] /\ n1[2] # n3[2] /\ n2[2] # n3[2]
      BY <1>1, <1>2, <1>3
    <2>2. QED
      BY <2>1
  <1>6. n1 # n4 /\ n2 # n4 /\ n3 # n4
    <2>1. n1[1] = 1 /\ n2[1] = 1 /\ n3[1] = 1 /\ n4[1] = 4
      BY <1>1, <1>2, <1>3, <1>4
    <2>2. QED
      BY <2>1
  <1>7. PICK a : a = Field(n1, t)
    OBVIOUS
  <1>8. PICK b : b = Field(n2, <<2>>)
    OBVIOUS
  <1>9. PICK c : c = Field(n3, <<3>>)
    OBVIOUS
  <1>10. PICK d : d = Field(n4, t)
    OBVIOUS
  <1>11. a.name = n1 /\ b.name = n2 /\ c.name = n3
    BY <1>7, <1>8, <1>9, NamedSo
  <1>12. PICK m1 : m1 = <<a>>
    OBVIOUS
  <1>13. PICK m2 : m2 = <<a, b>>
    OBVIOUS
  <1>14. PICK m3 : m3 = <<a, b, c>>
    OBVIOUS
  <1>15. DOMAIN m1 = 1 .. 1 /\ m1[1] = a
    BY <1>12
  <1>16. DOMAIN m2 = 1 .. 2 /\ m2[1] = a /\ m2[2] = b
    BY <1>13
  <1>17. DOMAIN m3 = 1 .. 3 /\ m3[1] = a /\ m3[2] = b /\ m3[3] = c
    BY <1>14
  <1>18. Assign(<<>>, n1, t) = m1
    <2>1. PICK e : e = <<>>
      OBVIOUS
    <2>2. \A i \in DOMAIN e : e[i].name # n1
      BY <2>1
    <2>3. Assign(e, n1, t) = Append(e, a)
      BY <1>7, <2>2, Assigned
    <2>4. QED
      BY <1>12, <2>1, <2>3, Appended
  <1>19. Assign(m1, n2, <<2>>) = m2
    <2>1. \A i \in DOMAIN m1 : m1[i].name # n2
      BY <1>5, <1>11, <1>15
    <2>2. Assign(m1, n2, <<2>>) = Append(m1, b)
      BY <1>8, <2>1, Assigned
    <2>3. QED
      BY <1>12, <1>13, <2>2, Appended
  <1>20. Assign(m2, n3, <<3>>) = m3
    <2>1. \A i \in DOMAIN m2 : m2[i].name # n3
      BY <1>5, <1>11, <1>16
    <2>2. Assign(m2, n3, <<3>>) = Append(m2, c)
      BY <1>9, <2>1, Assigned
    <2>3. QED
      BY <1>13, <1>14, <2>2, Appended
  <1>21. Assign(m3, n4, t) = <<a, b, c, d>>
    <2>1. \A i \in DOMAIN m3 : m3[i].name # n4
      BY <1>6, <1>11, <1>17
    <2>2. Assign(m3, n4, t) = Append(m3, d)
      BY <1>10, <2>1, Assigned
    <2>3. QED
      BY <1>14, <2>2, Appended
  <1>22. WithBlock(<<>>, Found(FileLines, t)) = m3
    <2>1. PICK e : e = <<>>
      OBVIOUS
    <2>2. WithBlock(e, Found(FileLines, t))
            = Assign(Assign(Assign(e, n1, t), n2, <<2>>), n3, <<3>>)
      <3>1. WithBlock(e, Found(FileLines, t))
              = Assign(Assign(Assign(e, <<1, "">>, t), <<1, "filename">>, <<2>>),
                       <<1, "content_type">>, <<3>>)
        <4>1. PICK n : n = 1
          OBVIOUS
        <4>2. PICK f : f = 2
          OBVIOUS
        <4>3. PICK k : k = 3
          OBVIOUS
        <4>4. Tells(FileLines, n, f, k) /\ n # 0 /\ f # 0 /\ k # 0
          BY <4>1, <4>2, <4>3, FileTells
        <4>5. WithBlock(e, Found(FileLines, t)) = FileFields(e, n, f, k, t)
          BY <4>4, FileAssigned
        <4>6. QED
          BY <4>1, <4>2, <4>3, <4>5 DEF FileFields
      <3>2. QED
        BY <1>1, <1>2, <1>3, <3>1
    <2>3. QED
      BY <1>18, <1>19, <1>20, <2>1, <2>2
  <1>23. WithBlock(m3, Found(FieldLines, t)) = Assign(m3, n4, t)
    <2>1. PICK n : n = 4
      OBVIOUS
    <2>2. Tells(FieldLines, n, 0, 0) /\ n # 0
      BY <2>1, FieldTells
    <2>3. WithBlock(m3, Found(FieldLines, t)) = Assign(m3, <<n, "">>, t)
      BY <2>2, FieldAssigned
    <2>4. QED
      BY <1>4, <2>1, <2>3
  <1>24. PICK x : x = Found(FileLines, t)
    OBVIOUS
  <1>25. PICK y : y = Found(FieldLines, t)
    OBVIOUS
  <1>26. FoldLeft(WithBlock, <<>>, <<x, y>>) = WithBlock(WithBlock(<<>>, x), y)
    <2>1. PICK e : e = <<>>
      OBVIOUS
    <2>2. TwoFolded(e, x, y) = WithBlock(WithBlock(e, x), y)
      BY TwoBlocks
    <2>3. QED
      BY <2>1, <2>2 DEF TwoFolded
  <1>27. WithBlock(WithBlock(<<>>, x), y) = <<a, b, c, d>>
    BY <1>21, <1>22, <1>23, <1>24, <1>25
  <1>28. FourFields(t) = <<a, b, c, d>>
    BY <1>1, <1>2, <1>3, <1>4, <1>7, <1>8, <1>9, <1>10 DEF FourFields
  <1>29. QED
    BY <1>24, <1>25, <1>26, <1>27, <1>28

\* The first delimiter of an upload is the one it begins with.
LEMMA Begins ==
  ASSUME NEW s, NEW t \in Seq(Nat), NEW n \in Nat, n = Len(t), NEW b \in Nat, b = Len(Boundary),
         IsUpload(s, t, b, n)
  PROVE  Delimiters(s, 2) # {} /\ First(Delimiters(s, 2)) = 2
  <1>1. s \in Seq(Nat)
    BY DEF IsUpload
  <1>2. PICK l \in Nat : l = Len(s) /\ l = 31 + 3 * b + 2 * n
    BY DEF IsUpload
  <1>3. PICK o \in Nat : o = 0
    OBVIOUS
  <1>4. s[o + 1] = Dash /\ s[o + 2] = Dash /\ At(s, o + 2, Boundary)
    <2>1. At(s, o, Delimiter)
      BY <1>3 DEF IsUpload
    <2>2. QED
      BY <1>1, <2>1, AtDelimiter
  <1>5. PICK c \in Nat : c = 2
    OBVIOUS
  <1>6. s[c] = Dash /\ s[c - 1] = Dash /\ At(s, c, Boundary)
    BY <1>3, <1>4, <1>5
  <1>7. SubSeq(s, c + 1, c + Len(Boundary)) = Boundary
    BY <1>1, <1>6, UploadAssumption, AtSubSeq
  <1>8. c \in 2 .. Len(s) /\ c + 2 + Len(Boundary) < Len(s)
    BY <1>2, <1>5
  <1>9. c \in Delimiters(s, 2)
    BY <1>6, <1>7, <1>8 DEF Delimiters
  <1>10. Delimiters(s, 2) \in SUBSET Nat /\ \A x \in Delimiters(s, 2) : 2 <= x
    <2>1. \A x \in Delimiters(s, 2) : x \in 2 .. l
      BY <1>2 DEF Delimiters
    <2>2. QED
      BY <2>1
  <1>11. First(Delimiters(s, 2)) \in Delimiters(s, 2) /\ First(Delimiters(s, 2)) <= c
    BY <1>9, <1>10, FirstIs
  <1>12. QED
    BY <1>5, <1>9, <1>10, <1>11

\* An upload is decoded to those fields.
LEMMA UploadDecoded ==
  ASSUME NEW t \in Seq(Nat), Occurrences(t, Delimiter) = {}
  PROVE  UploadDecode(Upload(t)) = [ok |-> TRUE, fields |-> FourFields(t)]
  <1>1. PICK n \in Nat : n = Len(t)
    OBVIOUS
  <1>2. PICK b \in Nat : b = Len(Boundary)
    BY UploadAssumption
  <1>3. PICK s : s = Upload(t)
    OBVIOUS
  <1>4. IsUpload(s, t, b, n)
    BY <1>1, <1>2, <1>3, UploadIs
  <1>5. Delimiters(s, 2) # {} /\ First(Delimiters(s, 2)) = 2
    BY <1>1, <1>2, <1>4, Begins
  <1>6. Blocks(s, 5 + b) = Sent(<<Found(FileLines, t), Found(FieldLines, t)>>)
    BY <1>1, <1>2, <1>4, UploadBlocks
  <1>7. First(Delimiters(s, 2)) + 3 + Len(Boundary) = 5 + b
    BY <1>2, <1>5
  <1>8. PICK blocks : blocks = <<Found(FileLines, t), Found(FieldLines, t)>>
    OBVIOUS
  <1>9. PICK found : found = Blocks(s, 5 + b) /\ found.ok = TRUE /\ found.blocks = blocks
    BY <1>6, <1>8 DEF Sent
  <1>10. FoldLeft(WithBlock, <<>>, found.blocks) = FourFields(t)
    BY <1>8, <1>9, FoldedFields
  <1>11. UploadDecode(s) = [ok |-> found.ok, fields |-> FoldLeft(WithBlock, <<>>, found.blocks)]
    BY <1>5, <1>7, <1>9 DEF UploadDecode
  <1>12. QED
    BY <1>3, <1>9, <1>10, <1>11

(* A file of any length arrives as it was sent, with its name and type and the *)
(* field next to it, unless it holds the delimiter itself.                     *)
THEOREM UploadsArrive == TextSpec => []UploadArrives
  <1>1. TextTypeOK => UploadArrives
    <2>1. ASSUME text \in Seq(Nat), Occurrences(text, Delimiter) = {}
          PROVE  /\ UploadDecode(Upload(text)).ok
                 /\ UploadDecode(Upload(text)).fields = FourFields(text)
      <3>1. PICK found : found = UploadDecode(Upload(text))
        OBVIOUS
      <3>2. found = [ok |-> TRUE, fields |-> FourFields(text)]
        BY <2>1, <3>1, UploadDecoded
      <3>3. QED
        BY <3>1, <3>2
    <2>2. QED
      BY <2>1 DEF TextTypeOK, UploadArrives, FourFields
  <1>2. QED
    BY <1>1, TextTyped, PTL

-----------------------------------------------------------------------------
(* The way of a request, and the files. *)

\* The index a list is searched for is the least, as First has it.
LEMMA LeastIs ==
  ASSUME NEW n \in Nat, NEW I \in SUBSET (1 .. n), I # {}
  PROVE  Min(I) \in I /\ Min(I) = First(I) /\ \A i \in I : Min(I) <= i
  <1>1. I \in SUBSET Nat
    OBVIOUS
  <1>2. First(I) \in I /\ \A i \in I : First(I) <= i
    BY <1>1, FirstIs
  <1>3. Min(I) = First(I)
    BY DEF Min, First
  <1>4. QED
    BY <1>2, <1>3

\* A part of a text is what its characters are.
LEMMA PartIs ==
  ASSUME NEW m \in Seq(Nat), NEW s \in Seq(Nat), NEW i \in Nat, i + Len(m) <= Len(s)
  PROVE  SubSeq(s, i + 1, i + Len(m)) = m <=> \A j \in 1 .. Len(m) : s[i + j] = m[j]
  <1>1. PICK k \in Nat : k = Len(m)
    OBVIOUS
  <1>2. PICK t : t = SubSeq(s, i + 1, i + k)
    OBVIOUS
  <1>3. t \in Seq(Nat) /\ Len(t) = k /\ \A j \in 1 .. k : t[j] = s[i + j]
    <2>1. i + k <= Len(s)
      BY <1>1
    <2>2. t \in Seq(Nat) /\ Len(t) = k
      BY <1>2, <2>1, SMTT(30)
    <2>3. ASSUME NEW j \in 1 .. k PROVE t[j] = s[i + j]
      BY <1>2, <2>1
    <2>4. QED
      BY <2>2, <2>3
  <1>4. ASSUME \A j \in 1 .. k : s[i + j] = m[j] PROVE t = m
    <2>1. \A j \in 1 .. k : t[j] = m[j]
      BY <1>3, <1>4
    <2>2. QED
      BY <1>1, <1>3, <2>1, SeqEqual
  <1>5. t = m => \A j \in 1 .. k : s[i + j] = m[j]
    BY <1>1, <1>3
  <1>6. QED
    BY <1>1, <1>2, <1>4, <1>5

\* A match at the start is a prefix.
LEMMA PrefixIs ==
  ASSUME NEW m \in Seq(Nat), NEW s \in Seq(Nat)
  PROVE  IsPrefix(m, s) <=> Len(m) <= Len(s) /\ \A j \in 1 .. Len(m) : s[j] = m[j]
  <1>1. SubSeq(m, 1, Len(m)) = m
    OBVIOUS
  <1>2. ASSUME Len(m) <= Len(s)
        PROVE  SubSeq(s, 1, Len(m)) = m <=> \A j \in 1 .. Len(m) : s[j] = m[j]
    <2>1. PICK z \in Nat : z = 0
      OBVIOUS
    <2>2. z + Len(m) <= Len(s)
      BY <1>2, <2>1
    <2>3. SubSeq(s, z + 1, z + Len(m)) = m <=> \A j \in 1 .. Len(m) : s[z + j] = m[j]
      BY <2>2, PartIs
    <2>4. z + 1 = 1 /\ z + Len(m) = Len(m) /\ \A j \in 1 .. Len(m) : z + j = j
      BY <2>1
    <2>5. QED
      BY <2>3, <2>4
  <1>3. QED
    BY <1>1, <1>2 DEF IsPrefix

\* A match at the end is a suffix.
LEMMA SuffixIs ==
  ASSUME NEW m \in Seq(Nat), NEW s \in Seq(Nat)
  PROVE  IsSuffix(m, s)
           <=> Len(m) <= Len(s) /\ \A j \in 1 .. Len(m) : s[Len(s) - Len(m) + j] = m[j]
  <1>1. PICK k \in Nat : k = Len(m)
    OBVIOUS
  <1>2. PICK n \in Nat : n = Len(s)
    OBVIOUS
  <1>3. PICK a : a = Reverse(m)
    OBVIOUS
  <1>4. a \in Seq(Nat) /\ Len(a) = k /\ \A j \in 1 .. k : a[j] = m[(k - j) + 1]
    BY <1>1, <1>3 DEF Reverse
  <1>5. PICK b : b = Reverse(s)
    OBVIOUS
  <1>6. b \in Seq(Nat) /\ Len(b) = n /\ \A j \in 1 .. n : b[j] = s[(n - j) + 1]
    BY <1>2, <1>5 DEF Reverse
  <1>7. IsSuffix(m, s) <=> k <= n /\ \A j \in 1 .. k : b[j] = a[j]
    BY <1>3, <1>4, <1>5, <1>6, PrefixIs DEF IsSuffix
  <1>8. ASSUME k <= n PROVE (\A j \in 1 .. k : b[j] = a[j]) <=> \A j \in 1 .. k : s[n - k + j] = m[j]
    <2>1. ASSUME NEW j \in 1 .. k
          PROVE  /\ (k - j) + 1 \in 1 .. k /\ (k - ((k - j) + 1)) + 1 = j
                 /\ j \in 1 .. n /\ (n - j) + 1 = n - k + ((k - j) + 1)
      BY <1>8
    <2>2. ASSUME \A j \in 1 .. k : b[j] = a[j], NEW j \in 1 .. k PROVE s[n - k + j] = m[j]
      <3>1. PICK i \in 1 .. k : i = (k - j) + 1 /\ (k - i) + 1 = j /\ (n - i) + 1 = n - k + j
        BY <2>1
      <3>2. b[i] = s[(n - i) + 1] /\ a[i] = m[(k - i) + 1]
        BY <1>4, <1>6, <2>1
      <3>3. QED
        BY <2>2, <3>1, <3>2
    <2>3. ASSUME \A j \in 1 .. k : s[n - k + j] = m[j], NEW j \in 1 .. k PROVE b[j] = a[j]
      <3>1. PICK i \in 1 .. k : i = (k - j) + 1 /\ (n - j) + 1 = n - k + i
        BY <2>1
      <3>2. b[j] = s[(n - j) + 1] /\ a[j] = m[(k - j) + 1]
        BY <1>4, <1>6, <2>1
      <3>3. QED
        BY <2>3, <3>1, <3>2
    <2>4. QED
      BY <2>2, <2>3
  <1>9. QED
    BY <1>1, <1>2, <1>7, <1>8

\* Sums below the size of a string's index do not wrap around, and npos plus the length of a
\* string does.
LEMMA WrapIs ==
  /\ \A n \in Nat : n < 2^SizeWidth => Wrap(n) = n
  /\ \A m \in Nat : 0 < m /\ m < NPos => Wrap(NPos + m) = m - 1
  <1>1. PICK W \in Nat : W = 2^SizeWidth
    BY RoutingAssumption
  <1>2. NPos = W - 1 /\ W - 1 > 0
    BY <1>1, RoutingAssumption DEF NPos
  <1>3. ASSUME NEW n \in Nat, n < W PROVE n % W = n
    BY <1>2, <1>3
  <1>4. ASSUME NEW m \in Nat, 0 < m, m < W - 1 PROVE ((W - 1) + m) % W = m - 1
    <2>1. (W - 1) + m = W + (m - 1) /\ m - 1 \in Nat /\ m - 1 < W
      BY <1>2, <1>4
    <2>2. (W + (m - 1)) % W = (m - 1) % W
      BY <1>2, <2>1
    <2>3. QED
      BY <1>3, <2>1, <2>2
  <1>5. QED
    BY <1>1, <1>2, <1>3, <1>4 DEF Wrap

\* Where a string is in a text.
LEMMA OccursAt ==
  ASSUME NEW m \in Seq(Nat), NEW s \in Seq(Nat), NEW i \in Nat
  PROVE  i \in Occurrences(s, m)
           <=> i + Len(m) <= Len(s) /\ \A j \in 1 .. Len(m) : s[i + j] = m[j]
  <1>1. i \in 0 .. Len(s) - Len(m) <=> i + Len(m) <= Len(s)
    OBVIOUS
  <1>2. QED
    BY <1>1, PartIs DEF Occurrences

\* Find and RFind have the first and the last place, or npos.
LEMMA FindIs ==
  ASSUME NEW m \in Seq(Nat), NEW s \in Seq(Nat), Occurrences(s, m) # {}
  PROVE  /\ Occurrences(s, m) \in SUBSET (0 .. Len(s))
         /\ Find(s, m) \in Occurrences(s, m) /\ \A i \in Occurrences(s, m) : Find(s, m) <= i
         /\ RFind(s, m) \in Occurrences(s, m) /\ \A i \in Occurrences(s, m) : i <= RFind(s, m)
  <1>1. PICK O : O = Occurrences(s, m)
    OBVIOUS
  <1>2. O \in SUBSET (0 .. Len(s)) /\ O \in SUBSET Nat
    BY <1>1 DEF Occurrences
  <1>3. \E i \in O : \A j \in O : i <= j
    BY <1>1, <1>2, LeastNumber
  <1>4. \E i \in O : \A j \in O : j <= i
    <2>1. PICK n \in Nat : n = Len(s)
      OBVIOUS
    <2>2. QED
      BY <1>1, <1>2, <2>1, GreatestNumber
  <1>5. \E i \in O : \A j \in O : i >= j
    BY <1>2, <1>4
  <1>6. Find(s, m) = CHOOSE i \in O : \A j \in O : i <= j
    BY <1>1 DEF Find
  <1>7. RFind(s, m) = CHOOSE i \in O : \A j \in O : i >= j
    BY <1>1 DEF RFind
  <1>8. Find(s, m) \in O /\ \A i \in O : Find(s, m) <= i
    BY <1>3, <1>6
  <1>9. RFind(s, m) \in O /\ \A i \in O : RFind(s, m) >= i
    BY <1>5, <1>7
  <1>10. QED
    BY <1>1, <1>2, <1>8, <1>9

\* What an ifmatch looks for is found where it says, but for the requests that are excepted.
LEMMA SubsetMatches ==
  ASSUME NEW m \in Seq(Nat), NEW s \in Seq(Nat), Len(s) < NPos
  PROVE  /\ Find(s, m) # NPos <=> Occurrences(s, m) # {}
         /\ Find(s, m) = 0 <=> IsPrefix(m, s)
  <1>1. NPos \in Nat /\ NPos # 0
    BY RoutingAssumption DEF NPos
  <1>2. CASE Occurrences(s, m) = {}
    <2>1. Find(s, m) = NPos
      BY <1>2 DEF Find
    <2>2. ~IsPrefix(m, s)
      <3>1. 0 \notin Occurrences(s, m)
        BY <1>2
      <3>2. 0 + Len(m) = Len(m) /\ \A j \in 1 .. Len(m) : 0 + j = j
        OBVIOUS
      <3>3. QED
        BY <3>1, <3>2, OccursAt, PrefixIs
    <2>3. QED
      BY <1>1, <1>2, <2>1, <2>2
  <1>3. CASE Occurrences(s, m) # {}
    <2>1. PICK f : f = Find(s, m)
      OBVIOUS
    <2>2. f \in 0 .. Len(s) /\ f \in Occurrences(s, m) /\ \A i \in Occurrences(s, m) : f <= i
      BY <1>3, <2>1, FindIs
    <2>3. f # NPos
      BY <1>1, <2>2
    <2>4. f = 0 <=> 0 \in Occurrences(s, m)
      <3>1. 0 \in Occurrences(s, m) => f <= 0
        BY <2>2
      <3>2. QED
        BY <2>2, <3>1
    <2>5. 0 \in Occurrences(s, m) <=> IsPrefix(m, s)
      <3>2. 0 + Len(m) = Len(m) /\ \A j \in 1 .. Len(m) : 0 + j = j
        OBVIOUS
      <3>3. QED
        BY <3>2, OccursAt, PrefixIs
    <2>6. QED
      BY <1>3, <2>1, <2>3, <2>4, <2>5
  <1>4. QED
    BY <1>2, <1>3

\* The same of the end.
LEMMA EndMatches ==
  ASSUME NEW m \in Seq(Nat), NEW s \in Seq(Nat), m # <<>>, Len(m) < NPos, Len(s) < NPos,
         Len(s) # Len(m) - 1
  PROVE  Wrap(RFind(s, m) + Len(m)) = Len(s) <=> IsSuffix(m, s)
  <1>1. PICK k \in Nat : k = Len(m) /\ 0 < k /\ k < NPos
    <2>1. Len(m) \in Nat /\ 0 < Len(m)
      OBVIOUS
    <2>2. QED
      BY <2>1
  <1>2. PICK n \in Nat : n = Len(s) /\ n < NPos /\ n # k - 1
    BY <1>1
  <1>3. PICK O : O = Occurrences(s, m)
    OBVIOUS
  <1>4. \A i \in Nat : i \in O <=> i + k <= n /\ \A j \in 1 .. k : s[i + j] = m[j]
    BY <1>1, <1>2, <1>3, OccursAt
  <1>5. IsSuffix(m, s) <=> k <= n /\ n - k \in O
    <2>1. IsSuffix(m, s) <=> k <= n /\ \A j \in 1 .. k : s[n - k + j] = m[j]
      BY <1>1, <1>2, SuffixIs
    <2>2. ASSUME k <= n PROVE n - k \in O <=> \A j \in 1 .. k : s[n - k + j] = m[j]
      <3>1. PICK i \in Nat : i = n - k /\ i + k <= n
        <4>1. n - k \in Nat /\ (n - k) + k <= n
          BY <2>2
        <4>2. QED
          BY <4>1
      <3>2. QED
        BY <1>4, <3>1
    <2>3. QED
      BY <2>1, <2>2
  <1>6. NPos \in Nat /\ NPos = 2^SizeWidth - 1 /\ 2^SizeWidth \in Nat
    BY RoutingAssumption DEF NPos
  <1>7. CASE O = {}
    <2>1. RFind(s, m) = NPos
      BY <1>3, <1>7 DEF RFind
    <2>2. Wrap(NPos + k) = k - 1
      BY <1>1, WrapIs
    <2>3. QED
      BY <1>1, <1>2, <1>5, <1>7, <2>1, <2>2
  <1>8. CASE O # {}
    <2>1. PICK f : f = RFind(s, m)
      OBVIOUS
    <2>2. f \in Nat /\ f \in O /\ \A i \in O : i <= f
      <3>1. f \in O /\ O \in SUBSET (0 .. Len(s)) /\ \A i \in O : i <= f
        BY <1>3, <1>8, <2>1, FindIs
      <3>2. QED
        BY <3>1
    <2>3. f + k <= n
      BY <1>4, <2>2
    <2>4. f + k \in Nat /\ f + k < 2^SizeWidth
      BY <1>2, <1>6, <2>2, <2>3
    <2>5. Wrap(f + k) = f + k
      BY <2>4, WrapIs
    <2>6. f + k = n <=> k <= n /\ n - k \in O
      <3>1. ASSUME f + k = n PROVE k <= n /\ n - k = f
        BY <2>2, <3>1
      <3>2. ASSUME k <= n, n - k \in O PROVE f + k = n
        <4>1. n - k <= f
          BY <2>2, <3>2
        <4>2. QED
          BY <2>2, <2>3, <4>1
      <3>3. QED
        BY <2>2, <3>1, <3>2
    <2>7. QED
      BY <1>1, <1>2, <1>5, <2>1, <2>5, <2>6
  <1>9. QED
    BY <1>7, <1>8

\* An ifmatch asks its list as its documentation has it.
LEMMA AsksAsSaid ==
  ASSUME NEW r, IsIfMatch(r), NEW req \in Seq(Nat), Len(req) < NPos, ~Excepted(r, req)
  PROVE  Asks(r, req) <=> ShouldAsk(r, req)
  <1>1. /\ r.kind = "ifmatch" /\ r.where \in {"whole", "subset", "begin", "end"}
        /\ r.not \in BOOLEAN /\ r.match \in Seq(Nat) /\ Len(r.match) < NPos
    BY DEF IsIfMatch
  <1>2. CASE r.match = <<>>
    <2>1. r.where = "whole" /\ r.not = FALSE
      BY <1>1, <1>2 DEF Excepted
    <2>2. Asks(r, req) <=> req = <<>>
      BY <1>2 DEF Asks
    <2>3. ShouldAsk(r, req) <=> (req = <<>>) = TRUE
      BY <1>2, <2>1 DEF ShouldAsk
    <2>4. QED
      BY <2>2, <2>3
  <1>3. CASE r.match # <<>>
    <2>1. Asks(r, req) <=> Matches(r, req) = ~r.not
      BY <1>3 DEF Asks
    <2>2. CASE r.where = "whole"
      BY <2>1, <2>2 DEF Matches, ShouldAsk
    <2>3. CASE r.where = "subset"
      <3>1. Find(req, r.match) # NPos <=> Occurrences(req, r.match) # {}
        BY <1>1, SubsetMatches
      <3>2. QED
        BY <2>1, <2>3, <3>1 DEF Matches, ShouldAsk
    <2>4. CASE r.where = "begin"
      <3>1. Find(req, r.match) = 0 <=> IsPrefix(r.match, req)
        BY <1>1, SubsetMatches
      <3>2. (Find(req, r.match) = 0) = IsPrefix(r.match, req)
        BY <3>1 DEF IsPrefix
      <3>3. QED
        BY <2>1, <2>4, <3>2 DEF Matches, ShouldAsk
    <2>5. CASE r.where = "end"
      <3>1. Len(req) # Len(r.match) - 1
        BY <1>1, <2>5 DEF Excepted
      <3>2. Wrap(RFind(req, r.match) + Len(r.match)) = Len(req) <=> IsSuffix(r.match, req)
        BY <1>1, <1>3, <3>1, EndMatches
      <3>3. QED
        BY <2>1, <2>5, <3>2 DEF Matches, ShouldAsk, IsSuffix, IsPrefix
    <2>6. QED
      BY <1>1, <2>2, <2>3, <2>4, <2>5
  <1>4. QED
    BY <1>2, <1>3

\* A list's members are those at its indexes.
LEMMA ListIs ==
  ASSUME NEW s, IsList(s)
  PROVE  /\ Len(s) \in Nat /\ DOMAIN s = 1 .. Len(s)
         /\ \A i \in 1 .. Len(s) : s[i] \in ToSet(s)
         /\ \A x \in ToSet(s) : \E i \in 1 .. Len(s) : s[i] = x
  <1>1. PICK S : S = ToSet(s)
    OBVIOUS
  <1>2. s \in Seq(S)
    BY <1>1 DEF IsList
  <1>3. Len(s) \in Nat /\ DOMAIN s = 1 .. Len(s)
    BY <1>2
  <1>4. QED
    BY <1>3 DEF ToSet

\* The members of a list that answer, and the first of them.
Answering(list, rest, req) ==
  {i \in 1 .. Len(list) : ReactorAnswer(list[i], rest, req) # NotAnswered}

\* FirstOf finds the first of them, if there is one.
LEMMA FirstAnswers ==
  ASSUME NEW list, IsList(list), NEW rest, NEW req
  PROVE  /\ FirstOf(list, rest, req) # 0 <=> Answering(list, rest, req) # {}
         /\ FirstOf(list, rest, req) # 0 => FirstOf(list, rest, req) \in 1 .. Len(list)
  <1>1. PICK I : I = Answering(list, rest, req)
    OBVIOUS
  <1>2. FirstOf(list, rest, req) = IF I # {} THEN Min(I) ELSE 0
    BY <1>1 DEF FirstOf, SelectInSeq, Answering
  <1>3. I \in SUBSET (1 .. Len(list)) /\ Len(list) \in Nat
    BY <1>1, ListIs DEF Answering
  <1>4. CASE I = {}
    BY <1>1, <1>2, <1>4
  <1>5. CASE I # {}
    <2>1. Min(I) \in I
      BY <1>3, <1>5, LeastIs
    <2>2. Min(I) \in 1 .. Len(list) /\ Min(I) # 0
      <3>1. PICK m \in I : m = Min(I)
        BY <2>1
      <3>2. m \in 1 .. Len(list) /\ m # 0
        BY <1>3
      <3>3. QED
        BY <3>1, <3>2
    <2>3. QED
      BY <1>1, <1>2, <1>5, <2>2
  <1>6. QED
    BY <1>4, <1>5

\* What a reactor asks, and which of those answers.
Asked(r, rest) ==
  IF r.kind # "ifmatch" THEN <<r>> ELSE IF Asks(r, rest) THEN r.list ELSE <<>>
Inner(r, rest, req) == FirstOf(Asked(r, rest), rest, req)

IsReactor(r) == IsIfMatch(r) \/ IsAnswerer(r)

\* It asks a list of reactors that are none.
LEMMA AskedTyped ==
  ASSUME NEW r, IsReactor(r), NEW rest
  PROVE  IsList(Asked(r, rest)) /\ \A inner \in ToSet(Asked(r, rest)) : IsAnswerer(inner)
  <1>1. CASE r.kind # "ifmatch"
    <2>1. IsAnswerer(r)
      BY <1>1 DEF IsReactor, IsIfMatch
    <2>2. Asked(r, rest) = <<r>>
      BY <1>1 DEF Asked
    <2>3. PICK S : S = ToSet(<<r>>)
      OBVIOUS
    <2>4. S = {r}
      BY <2>3 DEF ToSet
    <2>5. <<r>> \in Seq(S)
      BY <2>4
    <2>6. QED
      BY <2>1, <2>2, <2>3, <2>4, <2>5 DEF IsList
  <1>2. CASE r.kind = "ifmatch"
    <2>1. IsIfMatch(r)
      BY <1>2 DEF IsReactor, IsAnswerer
    <2>2. CASE Asks(r, rest)
      BY <1>2, <2>1, <2>2 DEF Asked, IsIfMatch
    <2>3. CASE ~Asks(r, rest)
      <3>1. Asked(r, rest) = <<>>
        BY <1>2, <2>3 DEF Asked
      <3>2. ToSet(<<>>) = {}
        BY DEF ToSet
      <3>3. <<>> \in Seq({})
        OBVIOUS
      <3>4. QED
        BY <3>1, <3>2, <3>3 DEF IsList
    <2>4. QED
      BY <2>2, <2>3
  <1>3. QED
    BY <1>1, <1>2

\* A reactor gets what it wants.
LEMMA WantedIsAnswered ==
  ASSUME NEW r, IsReactor(r), NEW rest \in Seq(Nat), Len(rest) < NPos, ~Excepted(r, rest), NEW req
  PROVE  Inner(r, rest, req) # 0 <=> Wants(r, rest, req)
  <1>1. PICK list : list = Asked(r, rest)
    OBVIOUS
  <1>2. IsList(list)
    BY <1>1, AskedTyped
  <1>3. Inner(r, rest, req) # 0
          <=> \E inner \in ToSet(list) : ReactorAnswer(inner, rest, req) # NotAnswered
    <2>1. Inner(r, rest, req) # 0 <=> Answering(list, rest, req) # {}
      BY <1>1, <1>2, FirstAnswers DEF Inner
    <2>2. QED
      BY <1>2, <2>1, ListIs DEF Answering
  <1>4. CASE r.kind # "ifmatch"
    <2>1. list = <<r>>
      BY <1>1, <1>4 DEF Asked
    <2>2. QED
      BY <1>3, <1>4, <2>1 DEF Wants
  <1>5. CASE r.kind = "ifmatch"
    <2>1. Asks(r, rest) <=> ShouldAsk(r, rest)
      <3>1. IsIfMatch(r)
        BY <1>5 DEF IsReactor, IsAnswerer
      <3>2. QED
        BY <3>1, AsksAsSaid
    <2>2. CASE Asks(r, rest)
      <3>1. list = r.list
        BY <1>1, <1>5, <2>2 DEF Asked
      <3>2. QED
        BY <1>3, <1>5, <2>1, <2>2, <3>1 DEF Wants
    <2>3. CASE ~Asks(r, rest)
      <3>1. list = <<>>
        BY <1>1, <1>5, <2>3 DEF Asked
      <3>2. ToSet(list) = {}
        BY <3>1 DEF ToSet
      <3>3. QED
        BY <1>3, <1>5, <2>1, <2>3, <3>2 DEF Wants
    <2>4. QED
      BY <2>2, <2>3
  <1>6. QED
    BY <1>4, <1>5

\* The list of an application.
IsReactors(list) == IsList(list) /\ \A r \in ToSet(list) : IsReactor(r)

\* The reactor that is found is among those of the list, and in it among those it asks.
LEMMA ReactorFound ==
  ASSUME NEW list, IsReactors(list), NEW rest, NEW req
  PROVE  LET found == {i \in 1 .. Len(list) : Inner(list[i], rest, req) # 0} IN
         Reactor(list, rest, req)
           = IF found = {} THEN <<0, 0>> ELSE <<Min(found), Inner(list[Min(found)], rest, req)>>
  <1> DEFINE found == {i \in 1 .. Len(list) : Inner(list[i], rest, req) # 0}
             at == IF found # {} THEN Min(found) ELSE 0
  <1>1. Reactor(list, rest, req) = IF at = 0 THEN <<0, 0>> ELSE <<at, Inner(list[at], rest, req)>>
    BY DEF Reactor, SelectInSeq, Inner, Asked
  <1>2. found \in SUBSET (1 .. Len(list)) /\ Len(list) \in Nat
    BY ListIs DEF IsReactors
  <1>3. CASE found = {}
    BY <1>1, <1>3
  <1>4. CASE found # {}
    <2> HIDE DEF found
    <2>1. Min(found) \in found
      BY <1>2, <1>4, LeastIs
    <2>2. Min(found) # 0
      BY <1>2, <2>1
    <2>3. QED
      BY <1>1, <1>4, <2>2 DEF found
  <1>5. QED
    BY <1>3, <1>4

\* It is the first that wants the request.
LEMMA FirstIsAsked ==
  ASSUME NEW list, IsReactors(list), NEW rest \in Seq(Nat), Len(rest) < NPos, NEW req
  PROVE  FirstWanted(list, rest, req, Reactor(list, rest, req)[1])
  <1>1. SUFFICES ASSUME \A r \in ToSet(list) : ~Excepted(r, rest)
                 PROVE  FirstWanted(list, rest, req, Reactor(list, rest, req)[1])
    BY DEF FirstWanted
  <1>2. PICK found : found = {i \in 1 .. Len(list) : Inner(list[i], rest, req) # 0}
    OBVIOUS
  <1>3. PICK wanted : wanted = {i \in DOMAIN list : Wants(list[i], rest, req)}
    OBVIOUS
  <1>4. IsList(list) /\ Len(list) \in Nat /\ DOMAIN list = 1 .. Len(list)
    BY ListIs DEF IsReactors
  <1>5. found = wanted
    <2>1. ASSUME NEW i \in 1 .. Len(list)
          PROVE  Inner(list[i], rest, req) # 0 <=> Wants(list[i], rest, req)
      <3>1. PICK r \in ToSet(list) : r = list[i]
        BY <1>4, ListIs
      <3>2. IsReactor(r) /\ ~Excepted(r, rest)
        BY <1>1 DEF IsReactors
      <3>3. QED
        BY <3>1, <3>2, WantedIsAnswered
    <2>2. QED
      BY <1>2, <1>3, <1>4, <2>1
  <1>6. Reactor(list, rest, req)
          = IF found = {} THEN <<0, 0>> ELSE <<Min(found), Inner(list[Min(found)], rest, req)>>
    BY <1>2, ReactorFound
  <1>7. Reactor(list, rest, req)[1] = IF found = {} THEN 0 ELSE Min(found)
    BY <1>6
  <1>8. found # {} => Min(found) = First(found)
    BY <1>2, <1>4, LeastIs
  <1>9. QED
    BY <1>3, <1>5, <1>7, <1>8 DEF FirstWanted

\* The reactor that answers is no ifmatch.
LEMMA AnswererFound ==
  ASSUME NEW list, IsReactors(list), NEW rest, NEW req
  PROVE  \/ Answered(list, rest, req) = NotAnswered
         \/ \E r : IsAnswerer(r) /\ Answered(list, rest, req) = ReactorAnswer(r, rest, req)
  <1>1. PICK found : found = {i \in 1 .. Len(list) : Inner(list[i], rest, req) # 0}
    OBVIOUS
  <1>2. PICK at : at = Reactor(list, rest, req)
    OBVIOUS
  <1>3. at = IF found = {} THEN <<0, 0>> ELSE <<Min(found), Inner(list[Min(found)], rest, req)>>
    BY <1>1, <1>2, ReactorFound
  <1>4. Answered(list, rest, req)
          = IF at[1] = 0 THEN NotAnswered
            ELSE ReactorAnswer(IF list[at[1]].kind = "ifmatch" THEN list[at[1]].list[at[2]]
                               ELSE list[at[1]], rest, req)
    BY <1>2 DEF Answered
  <1>5. CASE found = {}
    BY <1>3, <1>4, <1>5
  <1>6. CASE found # {}
    <2>1. IsList(list) /\ Len(list) \in Nat /\ found \in SUBSET (1 .. Len(list))
      BY <1>1, ListIs DEF IsReactors
    <2>2. PICK i : i = Min(found)
      OBVIOUS
    <2>3. i \in found /\ i \in 1 .. Len(list) /\ i # 0
      <3>1. i \in found
        BY <1>6, <2>1, <2>2, LeastIs
      <3>2. QED
        BY <2>1, <3>1
    <2>4. PICK r \in ToSet(list) : r = list[i]
      BY <2>1, <2>3, ListIs
    <2>5. IsReactor(r)
      BY DEF IsReactors
    <2>6. PICK j : j = Inner(r, rest, req)
      OBVIOUS
    <2>7. at[1] = i /\ at[2] = j /\ j # 0
      BY <1>1, <1>3, <1>6, <2>2, <2>3, <2>4, <2>6
    <2>8. CASE r.kind # "ifmatch"
      <3>1. IsAnswerer(r)
        BY <2>5, <2>8 DEF IsReactor, IsIfMatch
      <3>2. QED
        BY <1>4, <2>3, <2>4, <2>7, <2>8, <3>1
    <2>9. CASE r.kind = "ifmatch"
      <3>1. PICK asked : asked = Asked(r, rest)
        OBVIOUS
      <3>2. IsList(asked) /\ \A inner \in ToSet(asked) : IsAnswerer(inner)
        BY <2>5, <3>1, AskedTyped
      <3>3. j \in 1 .. Len(asked)
        BY <2>6, <2>7, <3>1, <3>2, FirstAnswers DEF Inner
      <3>4. asked = r.list
        <4>1. asked # <<>>
          <5>1. SUFFICES ASSUME asked = <<>> PROVE FALSE
            OBVIOUS
          <5>2. Len(asked) = 0
            BY <5>1
          <5>3. QED
            BY <3>3, <5>2
        <4>2. QED
          BY <2>9, <3>1, <4>1 DEF Asked
      <3>5. IsAnswerer(asked[j])
        BY <3>2, <3>3, ListIs
      <3>6. QED
        BY <1>4, <2>3, <2>4, <2>7, <2>9, <3>4, <3>5
    <2>10. QED
      BY <2>8, <2>9
  <1>7. QED
    BY <1>5, <1>6

\* A directory is asked for another slash only if its name has none.
LEMMA SlashOnce ==
  ASSUME NEW r, NEW name, NEW at, FoundIn(r, name, at).code = "needslash"
  PROVE  name # <<>> /\ Last(name) # Separator
  BY DEF FoundIn

\* Two slashes are a suffix of what ends in them.
LEMMA TwoSlashes ==
  ASSUME NEW req \in Seq(Nat)
  PROVE  IsSuffix(<<Slash, Slash>>, (req \o <<Slash>>) \o <<Slash>>)
  <1>1. PICK s \in Nat : s = Slash
    BY DEF Slash
  <1>2. PICK m \in Seq(Nat) : m = <<s, s>> /\ Len(m) = 2 /\ m[1] = s /\ m[2] = s
    <2>1. <<s, s>> \in Seq(Nat) /\ Len(<<s, s>>) = 2 /\ <<s, s>>[1] = s /\ <<s, s>>[2] = s
      OBVIOUS
    <2>2. QED
      BY <2>1
  <1>3. PICK n \in Nat : n = Len(req)
    OBVIOUS
  <1>4. ASSUME NEW t \in Seq(Nat)
        PROVE  /\ t \o <<s>> = Append(t, s) /\ Append(t, s) \in Seq(Nat)
               /\ Len(Append(t, s)) = Len(t) + 1 /\ Append(t, s)[Len(t) + 1] = s
               /\ \A j \in 1 .. Len(t) : Append(t, s)[j] = t[j]
    OBVIOUS
  <1>5. PICK u \in Seq(Nat) : u = req \o <<s>> /\ Len(u) = n + 1 /\ u[n + 1] = s
    BY <1>3, <1>4
  <1>6. PICK v \in Seq(Nat) : v = u \o <<s>> /\ Len(v) = n + 2 /\ v[n + 1] = s /\ v[n + 2] = s
    <2>1. PICK v \in Seq(Nat) : /\ v = u \o <<s>> /\ Len(v) = Len(u) + 1 /\ v[Len(u) + 1] = s
                                /\ \A j \in 1 .. Len(u) : v[j] = u[j]
      BY <1>4
    <2>2. Len(v) = n + 2 /\ v[n + 2] = s
      BY <1>5, <2>1
    <2>3. n + 1 \in 1 .. Len(u)
      BY <1>5
    <2>4. v[n + 1] = s
      BY <1>5, <2>1, <2>3
    <2>5. QED
      BY <2>1, <2>2, <2>4
  <1>7. ASSUME NEW j \in 1 .. 2 PROVE v[Len(v) - Len(m) + j] = m[j]
    <2>1. Len(v) - Len(m) = n
      BY <1>2, <1>6
    <2>2. j = 1 \/ j = 2
      OBVIOUS
    <2>3. QED
      BY <1>2, <1>6, <2>1, <2>2
  <1>8. Len(m) <= Len(v) /\ Len(m) = 2
    BY <1>2, <1>6
  <1>9. IsSuffix(m, v)
    BY <1>7, <1>8, SuffixIs
  <1>10. QED
    BY <1>1, <1>2, <1>5, <1>6, <1>9

\* A file reactor redirects when its manager says so.
LEMMA FileRedirects ==
  ASSUME NEW r, NEW name, NEW req, FileAnswer(r, name, req).kind = "redirect"
  PROVE  FindFile(r, name).code = "needslash"
  <1>1. PICK f : f = FindFile(r, name)
    OBVIOUS
  <1>2. f.code \in {"notfound", "file", "needslash", "index", "listing"}
    <2>1. PICK at : f = FoundIn(r, name, at)
      BY <1>1 DEF FindFile
    <2>2. QED
      BY <2>1 DEF FoundIn
  <1>3. NotAnswered.kind # "redirect"
    BY DEF NotAnswered
  <1>4. CheckPath(name)
    BY <1>3 DEF FileAnswer
  <1>5. CASE f.code = "notfound"
    BY <1>1, <1>3, <1>4, <1>5 DEF FileAnswer
  <1>6. CASE f.code = "listing"
    <2>1. FileAnswer(r, name, req) = [kind |-> "listing", links |-> Listing(r.trees[f.tree], name)]
      BY <1>1, <1>4, <1>6 DEF FileAnswer
    <2>2. QED
      BY <2>1
  <1>7. CASE f.code \in {"file", "index"}
    <2>1. FileAnswer(r, name, req)
            = [kind |-> "file", tree |-> f.tree, path |-> f.path, ext |-> Extension(f.path)]
      BY <1>1, <1>4, <1>7 DEF FileAnswer
    <2>2. QED
      BY <2>1
  <1>8. QED
    BY <1>1, <1>2, <1>5, <1>6, <1>7

\* A request with a slash at its end is not redirected to one with two.
LEMMA NoSlashTwice ==
  ASSUME NEW r, IsAnswerer(r), NEW rest \in Seq(Nat), NEW req \in Seq(Nat),
         NEW next, next = rest \o <<Slash>>, NEW url, url = req \o <<Slash>>,
         NEW a, a = ReactorAnswer(r, next, url)
  PROVE  a # [kind |-> "redirect", url |-> url \o <<Slash>>]
  <1>1. SUFFICES ASSUME a.kind = "redirect", a.url = url \o <<Slash>> PROVE FALSE
    <2>1. PICK there : there = url \o <<Slash>>
      OBVIOUS
    <2>2. [kind |-> "redirect", url |-> there].kind = "redirect"
          /\ [kind |-> "redirect", url |-> there].url = there
      OBVIOUS
    <2>3. QED
      BY <2>1, <2>2
  <1>2. r.kind \in {"leaf", "files", "redirect", "rec", "default"}
    BY DEF IsAnswerer
  <1>3. a # NotAnswered
    BY <1>1 DEF NotAnswered
  <1>4. \A x, y : LeafAnswer(x, y).kind # "redirect"
    BY DEF LeafAnswer, NotAnswered
  <1>5. CASE r.kind = "leaf"
    BY <1>1, <1>4, <1>5 DEF ReactorAnswer
  <1>6. CASE r.kind = "rec"
    <2>1. a = RecAnswer(r, next)
      BY <1>6 DEF ReactorAnswer
    <2>2. a = [kind |-> "template", name |-> next]
      BY <1>3, <2>1 DEF RecAnswer
    <2>3. a.kind = "template"
      BY <2>2
    <2>4. QED
      BY <1>1, <2>3
  <1>7. CASE r.kind = "default"
    <2>1. a = DefaultAnswer(r)
      BY <1>7 DEF ReactorAnswer
    <2>2. a.kind # "redirect"
      BY <1>4, <2>1 DEF DefaultAnswer
    <2>3. QED
      BY <1>1, <2>2
  <1>8. CASE r.kind = "redirect"
    <2>1. a = RedirectAnswer(r, next)
      BY <1>8 DEF ReactorAnswer
    <2>2. next \in DOMAIN r.urls /\ a = [kind |-> "redirect", url |-> r.urls[next]]
      BY <1>3, <2>1 DEF RedirectAnswer
    <2>3. PICK u : u = r.urls[next] /\ a = [kind |-> "redirect", url |-> u]
      BY <2>2
    <2>4. a.url = u
      BY <2>3
    <2>5. ~IsSuffix(<<Slash, Slash>>, url \o <<Slash>>)
      BY <1>1, <1>8, <2>2, <2>3, <2>4 DEF IsAnswerer
    <2>6. QED
      BY <2>5, TwoSlashes
  <1>9. CASE r.kind = "files"
    <2>1. a = FileAnswer(r, next, url)
      BY <1>9 DEF ReactorAnswer
    <2>2. PICK f : f = FindFile(r, next)
      OBVIOUS
    <2>3. f.code = "needslash"
      BY <1>1, <2>1, <2>2, FileRedirects
    <2>4. PICK at : f = FoundIn(r, next, at)
      BY <2>2 DEF FindFile
    <2>5. Last(next) # Separator
      BY <2>3, <2>4, SlashOnce
    <2>6. Last(next) = Slash
      <3>1. PICK s \in Nat : s = Slash
        BY DEF Slash
      <3>2. rest \o <<s>> = Append(rest, s) /\ Last(Append(rest, s)) = s
        BY DEF Last
      <3>3. QED
        BY <3>1, <3>2
    <2>7. QED
      BY <2>5, <2>6 DEF Slash, Separator
  <1>10. QED
    BY <1>2, <1>5, <1>6, <1>7, <1>8, <1>9

\* So no request is redirected for the sake of a slash to one that is, too.
LEMMA OneSlash ==
  ASSUME NEW list, IsReactors(list), NEW rest \in Seq(Nat), NEW req \in Seq(Nat)
  PROVE  NoSecondSlash(list, rest, req)
  <1>1. PICK next : next = rest \o <<Slash>>
    OBVIOUS
  <1>2. PICK url : url = req \o <<Slash>>
    OBVIOUS
  <1>3. Answered(list, next, url) # [kind |-> "redirect", url |-> url \o <<Slash>>]
    <2>1. NotAnswered # [kind |-> "redirect", url |-> url \o <<Slash>>]
      <3>1. NotAnswered.kind # "redirect"
        BY DEF NotAnswered
      <3>2. QED
        BY <3>1
    <2>2. CASE Answered(list, next, url) = NotAnswered
      BY <2>1, <2>2
    <2>3. CASE \E r : IsAnswerer(r) /\ Answered(list, next, url) = ReactorAnswer(r, next, url)
      <3>1. PICK r : IsAnswerer(r) /\ Answered(list, next, url) = ReactorAnswer(r, next, url)
        BY <2>3
      <3>2. PICK a : a = ReactorAnswer(r, next, url)
        OBVIOUS
      <3>3. a # [kind |-> "redirect", url |-> url \o <<Slash>>]
        BY <1>1, <1>2, <3>1, <3>2, NoSlashTwice
      <3>4. QED
        BY <3>1, <3>2, <3>3
    <2>4. QED
      BY <2>2, <2>3, AnswererFound
  <1>4. QED
    BY <1>1, <1>2, <1>3 DEF NoSecondSlash

\* The applications on whose mount points a request is.
Mounted(req) == {i \in 1 .. Len(Apps) : IsPrefix(Mount(Apps[i]), req)}

\* What the engine makes of a request.
LEMMA DispatchIs ==
  ASSUME NEW req
  PROVE  Dispatch(req)
           = IF req = <<>> THEN [to |-> "empty", app |-> 0, rest |-> <<>>]
             ELSE IF Len(req) > 1 /\ Slash \notin ToSet(Tail(req))
             THEN [to |-> "redirect", app |-> 0, rest |-> <<>>]
             ELSE IF Mounted(req) = {} THEN [to |-> "none", app |-> 0, rest |-> <<>>]
             ELSE [to |-> "app", app |-> Min(Mounted(req)),
                   rest |-> SubSeq(req, Len(Mount(Apps[Min(Mounted(req))])) + 1, Len(req))]
  <1> DEFINE M == Mounted(req)
             at == IF M # {} THEN Min(M) ELSE 0
  <1>1. SelectInSeq(Apps, LAMBDA a : IsPrefix(Mount(a), req)) = at
    BY DEF SelectInSeq, Mounted
  <1>2. M \in SUBSET (1 .. Len(Apps)) /\ Len(Apps) \in Nat
    <2>1. IsList(Apps)
      BY RoutingAssumption
    <2>2. QED
      BY <2>1, ListIs DEF Mounted
  <1>3. at = 0 <=> M = {}
    <2> HIDE DEF M
    <2>1. ASSUME M # {} PROVE Min(M) # 0
      <3>1. PICK m \in M : m = Min(M)
        BY <1>2, <2>1, LeastIs
      <3>2. m \in 1 .. Len(Apps)
        BY <1>2
      <3>3. QED
        BY <1>2, <3>1, <3>2
    <2>2. QED
      BY <2>1
  <1>4. PICK k : k = at
    OBVIOUS
  <1>5. Dispatch(req)
          = IF req = <<>> THEN [NoApp EXCEPT !.to = "empty"]
            ELSE IF Len(req) > 1 /\ Slash \notin ToSet(Tail(req))
            THEN [NoApp EXCEPT !.to = "redirect"]
            ELSE IF k = 0 THEN NoApp
            ELSE [to |-> "app", app |-> k,
                  rest |-> SubSeq(req, Len(Mount(Apps[k])) + 1, Len(req))]
    BY <1>1, <1>4 DEF Dispatch
  <1>6. [NoApp EXCEPT !.to = "empty"] = [to |-> "empty", app |-> 0, rest |-> <<>>]
    BY DEF NoApp
  <1>7. [NoApp EXCEPT !.to = "redirect"] = [to |-> "redirect", app |-> 0, rest |-> <<>>]
    BY DEF NoApp
  <1>8. NoApp = [to |-> "none", app |-> 0, rest |-> <<>>]
    BY DEF NoApp
  <1>9. CASE M = {}
    BY <1>3, <1>4, <1>5, <1>6, <1>7, <1>8, <1>9
  <1>10. CASE M # {}
    <2>1. k = Min(M) /\ k # 0
      BY <1>3, <1>4, <1>10
    <2>2. QED
      BY <1>5, <1>6, <1>7, <1>10, <2>1
  <1>11. QED
    BY <1>9, <1>10

\* A request that is redirected has a slash behind its first character then.
LEMMA RedirectedOnce ==
  ASSUME NEW req \in Seq(Nat), Dispatch(req).to = "redirect"
  PROVE  Dispatch(req \o <<Slash>>).to # "redirect"
  <1>1. PICK s \in Nat : s = Slash
    BY DEF Slash
  <1>2. req # <<>>
    <2>1. SUFFICES ASSUME req = <<>> PROVE FALSE
      OBVIOUS
    <2>2. Dispatch(req) = [to |-> "empty", app |-> 0, rest |-> <<>>]
      BY <2>1, DispatchIs
    <2>3. QED
      BY <2>2
  <1>3. PICK t \in Seq(Nat) : t = Append(req, s) /\ t = req \o <<s>>
    <2>1. Append(req, s) \in Seq(Nat) /\ Append(req, s) = req \o <<s>>
      OBVIOUS
    <2>2. QED
      BY <2>1
  <1>4. PICK n \in Nat : n = Len(req) /\ n > 0
    <2>1. Len(req) \in Nat /\ Len(req) > 0
      BY <1>2
    <2>2. QED
      BY <2>1
  <1>5. Len(t) = n + 1 /\ t[n + 1] = s
    BY <1>3, <1>4
  <1>6. s \in ToSet(Tail(t))
    <2>1. PICK u \in Seq(Nat) : u = Tail(t) /\ Len(u) = n /\ u[n] = t[n + 1]
      <3>1. t # <<>>
        BY <1>5
      <3>2. Tail(t) \in Seq(Nat) /\ Len(Tail(t)) = Len(t) - 1
            /\ \A i \in 1 .. Len(Tail(t)) : Tail(t)[i] = t[i + 1]
        BY <3>1, HeadTailProperties
      <3>3. Len(Tail(t)) = n /\ n \in 1 .. n
        BY <1>4, <1>5, <3>2
      <3>4. QED
        BY <3>2, <3>3
    <2>2. n \in DOMAIN u
      BY <1>4, <2>1
    <2>3. QED
      BY <1>5, <2>1, <2>2 DEF ToSet
  <1>7. PICK d : d = Dispatch(t)
    OBVIOUS
  <1>8. t # <<>>
    BY <1>5
  <1>9. d = (IF Mounted(t) = {} THEN [to |-> "none", app |-> 0, rest |-> <<>>]
             ELSE [to |-> "app", app |-> Min(Mounted(t)),
                   rest |-> SubSeq(t, Len(Mount(Apps[Min(Mounted(t))])) + 1, Len(t))])
    BY <1>1, <1>6, <1>7, <1>8, DispatchIs
  <1>10. d.to # "redirect"
    BY <1>9
  <1>11. QED
    BY <1>1, <1>3, <1>7, <1>10

\* A request goes to the first application on whose mount point it is, with the rest.
LEMMA Dispatched ==
  ASSUME NEW req \in Seq(Nat), NEW d, d = Dispatch(req)
  PROVE  /\ d.to = "none" => Mounted(req) = {}
         /\ d.to = "app" =>
              /\ d.app \in 1 .. Len(Apps) /\ d.rest \in Seq(Nat) /\ Len(d.rest) <= Len(req)
              /\ Mount(Apps[d.app]) \o d.rest = req
              /\ \A i \in 1 .. d.app - 1 : ~IsPrefix(Mount(Apps[i]), req)
  <1>1. CASE req = <<>>
    <2>1. d = [to |-> "empty", app |-> 0, rest |-> <<>>]
      BY <1>1, DispatchIs
    <2>2. QED
      BY <2>1
  <1>2. CASE req # <<>> /\ Len(req) > 1 /\ Slash \notin ToSet(Tail(req))
    <2>1. d = [to |-> "redirect", app |-> 0, rest |-> <<>>]
      BY <1>2, DispatchIs
    <2>2. QED
      BY <2>1
  <1>3. CASE req # <<>> /\ ~(Len(req) > 1 /\ Slash \notin ToSet(Tail(req))) /\ Mounted(req) = {}
    <2>1. d = [to |-> "none", app |-> 0, rest |-> <<>>]
      BY <1>3, DispatchIs
    <2>2. QED
      BY <1>3, <2>1
  <1>4. CASE req # <<>> /\ ~(Len(req) > 1 /\ Slash \notin ToSet(Tail(req))) /\ Mounted(req) # {}
    <2>1. PICK a : a = Min(Mounted(req))
      OBVIOUS
    <2>2. PICK m : m = Mount(Apps[a])
      OBVIOUS
    <2>3. d = [to |-> "app", app |-> a, rest |-> SubSeq(req, Len(m) + 1, Len(req))]
      BY <1>4, <2>1, <2>2, DispatchIs
    <2>4. IsList(Apps) /\ Len(Apps) \in Nat
      BY RoutingAssumption, ListIs
    <2>5. a \in Mounted(req) /\ \A i \in Mounted(req) : a <= i
      <3>1. Mounted(req) \in SUBSET (1 .. Len(Apps))
        BY DEF Mounted
      <3>2. QED
        BY <1>4, <2>1, <2>4, <3>1, LeastIs
    <2>6. a \in 1 .. Len(Apps) /\ IsPrefix(m, req)
      BY <2>2, <2>5 DEF Mounted
    <2>7. m \in Seq(Nat)
      <3>1. Apps[a].mount \in Seq(Nat)
        BY <2>4, <2>6, RoutingAssumption, ListIs
      <3>2. PICK t \in Seq(Nat) : t = Apps[a].mount
        BY <3>1
      <3>3. PICK s \in Nat : s = Slash
        BY DEF Slash
      <3>4. t \o <<s>> \in Seq(Nat)
        OBVIOUS
      <3>5. QED
        BY <2>2, <3>2, <3>3, <3>4 DEF Mount
    <2>8. PICK k \in Nat : k = Len(m)
      BY <2>7
    <2>9. PICK n \in Nat : n = Len(req)
      OBVIOUS
    <2>10. k <= n /\ m = SubSeq(req, 1, k)
      <3>1. SubSeq(m, 1, Len(m)) = m
        BY <2>7
      <3>2. QED
        BY <2>6, <2>8, <2>9, <3>1 DEF IsPrefix
    <2>11. PICK rest : rest = SubSeq(req, k + 1, n)
      OBVIOUS
    <2>12. rest \in Seq(Nat) /\ Len(rest) = n - k
      BY <2>9, <2>10, <2>11
    <2>13. m \o rest = req
      <3>0. PICK one \in 1 .. Len(req) + 1 : one = 1
        OBVIOUS
      <3>0a. k \in one - 1 .. Len(req) /\ n \in k .. Len(req)
        BY <2>9, <2>10, <3>0
      <3>0b. SubSeq(req, one, k) \o SubSeq(req, k + 1, n) = SubSeq(req, one, n)
        BY <3>0a, ConcatAdjacentSubSeq
      <3>1. SubSeq(req, 1, k) \o SubSeq(req, k + 1, n) = SubSeq(req, 1, n)
        BY <3>0, <3>0b
      <3>2. SubSeq(req, 1, n) = req
        BY <2>9
      <3>3. QED
        BY <2>10, <2>11, <3>1, <3>2
    <2>14. \A i \in 1 .. a - 1 : ~IsPrefix(Mount(Apps[i]), req)
      <3>1. ASSUME NEW i \in 1 .. a - 1, IsPrefix(Mount(Apps[i]), req) PROVE FALSE
        <4>1. i \in 1 .. Len(Apps) /\ ~(a <= i)
          BY <2>4, <2>6
        <4>2. i \in Mounted(req)
          BY <3>1, <4>1 DEF Mounted
        <4>3. QED
          BY <2>5, <4>1, <4>2
      <3>2. QED
        BY <3>1
    <2>15. d.to = "app" /\ d.app = a /\ d.rest = rest
      BY <2>3, <2>8, <2>9, <2>11
    <2>16. Len(rest) <= Len(req)
      BY <2>8, <2>9, <2>10, <2>12
    <2>17. QED
      BY <2>2, <2>6, <2>12, <2>13, <2>14, <2>15, <2>16
  <1>5. QED
    BY <1>1, <1>2, <1>3, <1>4

\* cur is what s has behind its first k characters, which end in a separator; it has none.
TailAt(seps, s, cur, k) ==
  /\ k \in 0 .. Len(s) /\ cur \in Seq(Nat) /\ Len(cur) = Len(s) - k
  /\ \A i \in 1 .. Len(cur) : cur[i] = s[k + i] /\ cur[i] \notin seps
  /\ k # 0 => s[k] \in seps

\* The piece at hand is what is behind the last separator.
LEMMA CutTail ==
  ASSUME NEW seps, NEW s \in Seq(Nat)
  PROVE  Cutting(seps, s) \in PieceStates /\ \E k \in Nat : TailAt(seps, s, Cutting(seps, s).cur, k)
  <1> DEFINE Good(t) == /\ Cutting(seps, t) \in PieceStates
                        /\ \E k \in Nat : TailAt(seps, t, Cutting(seps, t).cur, k)
             T == {t \in Seq(Nat) : Good(t)}
  <1>1. <<>> \in T
    <2>1. 0 \in Nat /\ <<>> \in Seq(Nat) /\ Len(<<>>) = 0
      OBVIOUS
    <2>2. PICK e \in Seq(Nat) : e = <<>> /\ Len(e) = 0
      BY <2>1
    <2>3. PICK st : st = Cutting(seps, e)
      OBVIOUS
    <2>4. st = [cur |-> <<>>, all |-> <<>>]
      BY <2>1, <2>2, <2>3, CuttingOn
    <2>5. st.cur = e /\ st.all = <<>>
      BY <2>2, <2>4
    <2>6. st \in PieceStates
      <3>1. PICK B : B = Seq(Nat)
        OBVIOUS
      <3>2. <<>> \in B /\ <<>> \in Seq(B)
        BY <3>1
      <3>3. st \in [cur : B, all : Seq(B)]
        BY <2>4, <3>2
      <3>4. QED
        BY <3>1, <3>3 DEF PieceStates
    <2>7. TailAt(seps, e, e, 0)
      BY <2>2 DEF TailAt
    <2>8. QED
      BY <2>1, <2>2, <2>3, <2>5, <2>6, <2>7
  <1>2. ASSUME NEW t \in Seq(Nat), NEW c \in Nat, t \in T PROVE Append(t, c) \in T
    <2>1. PICK u \in Seq(Nat) : u = Append(t, c)
      <3>1. Append(t, c) \in Seq(Nat)
        OBVIOUS
      <3>2. QED
        BY <3>1
    <2>2. PICK n \in Nat : n = Len(t)
      OBVIOUS
    <2>3. Len(u) = n + 1 /\ u[n + 1] = c /\ \A i \in 1 .. n : u[i] = t[i]
      BY <2>1, <2>2
    <2>4. PICK st : st = Cutting(seps, t) /\ st \in PieceStates
      BY <1>2
    <2>5. PICK k \in Nat : TailAt(seps, t, st.cur, k)
      BY <1>2, <2>4
    <2>6. PICK now : now = Cutting(seps, u) /\ now = PieceStep(seps, st, c) /\ now \in PieceStates
      <3>1. Cutting(seps, Append(t, c)) = PieceStep(seps, Cutting(seps, t), c)
        BY CuttingOn
      <3>2. PieceStep(seps, st, c) \in PieceStates
        BY <2>4, PieceStepped
      <3>3. QED
        BY <2>1, <2>4, <3>1, <3>2
    <2>7. CASE c \in seps
      <3>1. now.cur = <<>>
        BY <2>6, <2>7 DEF PieceStep
      <3>2. PICK e \in Seq(Nat) : e = <<>> /\ Len(e) = 0
        <4>1. <<>> \in Seq(Nat) /\ Len(<<>>) = 0
          OBVIOUS
        <4>2. QED
          BY <4>1
      <3>3. TailAt(seps, u, e, n + 1)
        BY <2>3, <2>7, <3>2 DEF TailAt
      <3>4. TailAt(seps, u, now.cur, n + 1) /\ n + 1 \in Nat
        BY <3>1, <3>2, <3>3
      <3>5. u \in T
        BY <2>6, <3>4
      <3>6. QED
        BY <2>1, <3>5
    <2>8. CASE c \notin seps
      <3>1. PICK cur \in Seq(Nat) : cur = st.cur
        BY <2>5 DEF TailAt
      <3>2. PICK more \in Seq(Nat) : more = Append(cur, c)
        <4>1. Append(cur, c) \in Seq(Nat)
          OBVIOUS
        <4>2. QED
          BY <4>1
      <3>3. now.cur = more
        <4>1. now = [st EXCEPT !.cur = Append(st.cur, c)]
          BY <2>6, <2>8 DEF PieceStep
        <4>2. DOMAIN st = {"cur", "all"}
          BY <2>4 DEF PieceStates
        <4>3. now.cur = Append(st.cur, c)
          BY <4>1, <4>2
        <4>4. QED
          BY <3>1, <3>2, <4>3
      <3>4. /\ k \in 0 .. n /\ Len(cur) = n - k
            /\ \A i \in 1 .. n - k : cur[i] = t[k + i] /\ cur[i] \notin seps
            /\ k # 0 => t[k] \in seps
        BY <2>2, <2>5, <3>1 DEF TailAt
      <3>5. Len(more) = (n + 1) - k /\ more[(n + 1) - k] = c
            /\ \A i \in 1 .. n - k : more[i] = cur[i]
        <4>0. Len(more) = Len(cur) + 1 /\ more[Len(cur) + 1] = c
          BY <3>2
        <4>1. Len(more) = (n - k) + 1 /\ more[(n - k) + 1] = c /\ (n - k) + 1 = (n + 1) - k
          BY <3>4, <4>0
        <4>2. \A i \in 1 .. n - k : more[i] = cur[i]
          BY <3>2, <3>4
        <4>3. QED
          BY <4>1, <4>2
      <3>6. ASSUME NEW i \in 1 .. (n + 1) - k PROVE more[i] = u[k + i] /\ more[i] \notin seps
        <4>1. CASE i = (n + 1) - k
          <5>1. k + i = n + 1
            BY <3>4, <4>1
          <5>2. QED
            BY <2>3, <2>8, <3>5, <4>1, <5>1
        <4>2. CASE i # (n + 1) - k
          <5>1. i \in 1 .. n - k /\ k + i \in 1 .. n
            BY <3>4, <4>2
          <5>2. QED
            BY <2>3, <3>4, <3>5, <5>1
        <4>3. QED
          BY <4>1, <4>2
      <3>7. k # 0 => u[k] \in seps
        BY <2>3, <3>4, SMTT(30)
      <3>8. TailAt(seps, u, more, k)
        BY <2>3, <3>4, <3>5, <3>6, <3>7 DEF TailAt
      <3>9. u \in T
        BY <2>6, <3>3, <3>8
      <3>10. QED
        BY <2>1, <3>9
    <2>9. QED
      BY <2>7, <2>8
  <1>3. s \in T
    <2> HIDE DEF T
    <2>1. \A t \in Seq(Nat), c \in Nat : t \in T => Append(t, c) \in T
      BY <1>2
    <2>2. 0 \in Nat
      OBVIOUS
    <2>3. QED
      BY <1>1, <2>1, <2>2, AllTexts
  <1>4. QED
    BY <1>3

\* The last piece of a text that does not end in a separator is what is behind the last one.
LEMMA LastPiece ==
  ASSUME NEW seps, NEW s \in Seq(Nat), s # <<>>, s[Len(s)] \notin seps
  PROVE  \E k \in Nat : TailAt(seps, s, Last(Pieces(s, seps)), k) /\ k < Len(s)
  <1>1. PICK st : st = Cutting(seps, s) /\ st \in PieceStates
    BY CutTail
  <1>2. PICK k \in Nat : TailAt(seps, s, st.cur, k)
    BY <1>1, CutTail
  <1>3. PICK n \in Nat : n = Len(s) /\ n > 0
    <2>1. Len(s) \in Nat /\ Len(s) > 0
      OBVIOUS
    <2>2. QED
      BY <2>1
  <1>4. k < n
    BY <1>2, <1>3 DEF TailAt
  <1>5. st.cur # <<>>
    <2>1. SUFFICES ASSUME st.cur = <<>> PROVE FALSE
      OBVIOUS
    <2>2. Len(st.cur) = 0
      BY <2>1
    <2>3. QED
      BY <1>2, <1>3, <1>4, <2>2 DEF TailAt
  <1>6. Pieces(s, seps) = Append(st.all, st.cur)
    BY <1>1, <1>5, PiecesCut DEF Cut
  <1>7. Last(Append(st.all, st.cur)) = st.cur
    <2>1. PICK B : B = Seq(Nat)
      OBVIOUS
    <2>2. st.all \in Seq(B) /\ st.cur \in B
      BY <1>1, <2>1 DEF PieceStates
    <2>3. \A a \in Seq(B), b \in B : Append(a, b)[Len(Append(a, b))] = b
      OBVIOUS
    <2>4. QED
      BY <2>2, <2>3 DEF Last
  <1>8. QED
    BY <1>2, <1>3, <1>4, <1>6, <1>7

\* A file's type is what its last name ends in.
LEMMA TypeOfLastName ==
  ASSUME NEW p \in Seq(Nat), p # <<>>, p[Len(p)] # Separator
  PROVE  TypeIsRight(Extension(p), Last(Pieces(p, {Separator})))
  <1>1. PICK n \in Nat : n = Len(p) /\ n > 0
    <2>1. Len(p) \in Nat /\ Len(p) > 0
      OBVIOUS
    <2>2. QED
      BY <2>1
  <1>2. PICK name : name = Last(Pieces(p, {Separator}))
    OBVIOUS
  <1>3. PICK k \in Nat : TailAt({Separator}, p, name, k) /\ k < n
    BY <1>1, <1>2, LastPiece
  <1>4. /\ name \in Seq(Nat) /\ Len(name) = n - k
        /\ \A i \in 1 .. n - k : name[i] = p[k + i] /\ name[i] # Separator
        /\ k # 0 => p[k] = Separator
    BY <1>1, <1>3 DEF TailAt
  <1>5. PICK marks : marks = {i \in 1 .. n : p[i] \in {Separator, Point}}
    OBVIOUS
  <1>6. /\ marks = {} => Extension(p) = Bin
        /\ \A m : m = Max(marks) =>
             Extension(p) = IF marks = {} \/ m = n \/ p[m] = Separator THEN Bin
                            ELSE SubSeq(p, m + 1, n)
    <2>1. DOMAIN p = 1 .. n
      BY <1>1
    <2>2. QED
      BY <1>1, <1>5, <2>1 DEF Extension
  <1>7. marks # {} => Max(marks) \in marks /\ \A i \in marks : i <= Max(marks)
    BY <1>5, GreatestIs
  <1>8. Separator # Point /\ Separator \in Nat /\ Point \in Nat
    BY DEF Separator, Point
  <1>9. ASSUME NEW i \in k + 1 .. n PROVE i - k \in 1 .. n - k /\ p[i] = name[i - k] /\ p[i] # Separator
    <2>1. PICK j \in 1 .. n - k : j = i - k /\ k + j = i
      <3>1. i - k \in 1 .. n - k /\ k + (i - k) = i
        BY <1>3
      <3>2. QED
        BY <3>1
    <2>2. QED
      BY <1>4, <2>1
  <1>10. CASE Point \notin ToSet(name)
    <2>1. \A i \in k + 1 .. n : i \notin marks
      <3>1. ASSUME NEW i \in k + 1 .. n, i \in marks PROVE FALSE
        <4>1. p[i] = Point
          BY <1>5, <1>9, <3>1
        <4>1a. DOMAIN name = 1 .. n - k
          BY <1>4
        <4>2. i - k \in DOMAIN name /\ name[i - k] = Point
          BY <1>9, <4>1, <4>1a
        <4>3. QED
          BY <1>10, <4>2 DEF ToSet
      <3>2. QED
        BY <3>1
    <2>2. CASE marks = {}
      BY <1>2, <1>6, <1>10, <2>2 DEF TypeIsRight
    <2>3. CASE marks # {}
      <3>1. PICK m \in marks : m = Max(marks) /\ \A i \in marks : i <= m
        BY <1>7, <2>3
      <3>2. m \in 1 .. k
        BY <1>5, <2>1, <3>1
      <3>3. k \in marks
        <4>1. k \in 1 .. n
          BY <1>3, <3>2
        <4>2. QED
          BY <1>4, <1>5, <3>2, <4>1
      <3>4. m = k
        BY <3>1, <3>2, <3>3
      <3>5. p[m] = Separator
        BY <1>4, <3>2, <3>4
      <3>6. QED
        BY <1>2, <1>6, <1>10, <3>1, <3>5 DEF TypeIsRight
    <2>4. QED
      BY <2>2, <2>3
  <1>11. CASE Last(name) = Point
    <2>1. p[n] = Point
      <3>1. n - k \in 1 .. n - k /\ k + (n - k) = n
        BY <1>3
      <3>2. QED
        BY <1>4, <1>11, <3>1 DEF Last
    <2>2. n \in marks
      BY <1>1, <1>5, <2>1
    <2>3. PICK m \in marks : m = Max(marks) /\ \A i \in marks : i <= m
      BY <1>7, <2>2
    <2>4. m = n
      BY <1>5, <2>2, <2>3
    <2>5. QED
      BY <1>2, <1>6, <1>11, <2>3, <2>4 DEF TypeIsRight
  <1>12. CASE Point \in ToSet(name) /\ Last(name) # Point
    <2>1. PICK l \in Nat : l = n - k /\ l > 0
      <3>1. n - k \in Nat /\ n - k > 0
        BY <1>3
      <3>2. QED
        BY <3>1
    <2>2. Len(name) = l /\ name # <<>> /\ name[l] # Point
      <3>1. Len(name) = l
        BY <1>4, <2>1
      <3>2. QED
        BY <1>12, <2>1, <3>1 DEF Last
    <2>3. PICK ext : ext = Last(Pieces(name, {Point}))
      OBVIOUS
    <2>4. PICK j \in Nat : TailAt({Point}, name, ext, j) /\ j < l
      BY <1>4, <2>2, <2>3, LastPiece
    <2>5. /\ ext \in Seq(Nat) /\ Len(ext) = l - j
          /\ \A i \in 1 .. l - j : ext[i] = name[j + i] /\ ext[i] # Point
          /\ j # 0 => name[j] = Point
      BY <2>2, <2>4 DEF TailAt
    <2>6. j # 0
      <3>1. SUFFICES ASSUME j = 0 PROVE FALSE
        OBVIOUS
      <3>2. PICK i \in 1 .. l : name[i] = Point
        BY <1>4, <1>12, <2>2 DEF ToSet
      <3>3. i \in 1 .. l - j /\ j + i = i
        BY <3>1
      <3>4. QED
        BY <2>5, <3>2, <3>3
    <2>7. PICK m \in 1 .. n : m = k + j
      <3>1. k + j \in 1 .. n
        BY <1>3, <2>1, <2>4, <2>6
      <3>2. QED
        BY <3>1
    <2>8. m < n /\ j \in 1 .. n - k /\ p[m] = Point /\ m \in marks
      <3>1. m < n /\ j \in 1 .. n - k
        BY <1>3, <2>1, <2>4, <2>6, <2>7
      <3>2. p[m] = Point
        BY <1>4, <2>5, <2>6, <2>7, <3>1
      <3>3. QED
        BY <1>5, <3>1, <3>2
    <2>9. ASSUME NEW i \in 1 .. l - j PROVE m + i \in k + 1 .. n /\ p[m + i] = ext[i] /\ m + i \notin marks
      <3>1. PICK h \in 1 .. n - k : h = j + i /\ k + h = m + i
        <4>1. j + i \in 1 .. n - k /\ k + (j + i) = m + i
          BY <2>1, <2>7
        <4>2. QED
          BY <4>1
      <3>2. name[h] = p[k + h] /\ name[h] # Separator
        BY <1>4
      <3>3. ext[i] = name[h] /\ ext[i] # Point
        BY <2>5, <3>1
      <3>4. k + h \in k + 1 .. n
        BY <1>3
      <3>5. p[m + i] = ext[i] /\ p[m + i] # Separator /\ p[m + i] # Point
        BY <3>1, <3>2, <3>3
      <3>6. m + i \notin marks
        BY <1>5, <3>5
      <3>7. QED
        BY <3>1, <3>4, <3>5, <3>6
    <2>10. PICK g \in marks : g = Max(marks) /\ \A i \in marks : i <= g
      BY <1>7, <2>8
    <2>11. g = m
      <3>1. m <= g /\ g \in 1 .. n
        BY <1>5, <2>8, <2>10
      <3>2. SUFFICES ASSUME m < g PROVE FALSE
        BY <3>1
      <3>3. PICK i \in 1 .. l - j : i = g - m /\ m + i = g
        <4>1. g - m \in 1 .. l - j /\ m + (g - m) = g
          BY <2>1, <2>7, <3>1, <3>2
        <4>2. QED
          BY <4>1
      <3>4. QED
        BY <2>9, <3>3
    <2>12. Extension(p) = SubSeq(p, m + 1, n)
      <3>1. m = Max(marks) /\ marks # {}
        BY <2>8, <2>10, <2>11
      <3>2. m # n /\ p[m] # Separator
        BY <1>8, <2>8
      <3>3. QED
        BY <1>6, <3>1, <3>2
    <2>13. SubSeq(p, m + 1, n) = ext
      <3>1. PICK q : q = SubSeq(p, m + 1, n)
        OBVIOUS
      <3>2. q \in Seq(Nat) /\ Len(q) = n - m
        BY <1>1, <3>1
      <3>3. n - m = l - j
        BY <1>3, <2>1, <2>7
      <3>4. ASSUME NEW i \in 1 .. l - j PROVE q[i] = ext[i]
        <4>1. q[i] = p[m + i]
          BY <1>1, <3>1, <3>3
        <4>2. QED
          BY <2>9, <4>1
      <3>5. Len(q) = Len(ext) /\ \A i \in 1 .. Len(q) : q[i] = ext[i]
        BY <2>5, <3>2, <3>3, <3>4
      <3>6. q = ext
        BY <2>5, <3>2, <3>5, SeqEqual
      <3>7. QED
        BY <3>1, <3>6
    <2>14. QED
      BY <1>2, <1>12, <2>3, <2>12, <2>13 DEF TypeIsRight
  <1>13. QED
    BY <1>10, <1>11, <1>12

\* The search directories that have something by a name.
Having(r, name) == {i \in 1 .. Len(r.trees) : Look(r.trees[i], name) # "none"}

\* find_file looks into the first of them.
LEMMA FoundIs ==
  ASSUME NEW r, IsList(r.trees), NEW name
  PROVE  /\ Having(r, name) = {} => FindFile(r, name) = FoundIn(r, name, 0)
         /\ \A at \in Having(r, name) : (\A i \in Having(r, name) : at <= i) =>
              FindFile(r, name) = FoundIn(r, name, at) /\ at = First(Having(r, name))
         /\ Having(r, name) # {} =>
              /\ First(Having(r, name)) \in Having(r, name)
              /\ \A i \in Having(r, name) : First(Having(r, name)) <= i
  <1>1. PICK I : I = Having(r, name)
    OBVIOUS
  <1>2. Len(r.trees) \in Nat /\ I \in SUBSET (1 .. Len(r.trees))
    BY <1>1, ListIs DEF Having
  <1>3. FindFile(r, name) = FoundIn(r, name, IF I # {} THEN Min(I) ELSE 0)
    BY <1>1 DEF FindFile, SelectInSeq, Having
  <1>4. I # {} => Min(I) \in I /\ Min(I) = First(I) /\ \A i \in I : Min(I) <= i
    BY <1>2, LeastIs
  <1>5. ASSUME NEW at \in I, \A i \in I : at <= i PROVE at = Min(I)
    <2>1. PICK m \in I : m = Min(I) /\ m <= at
      BY <1>4
    <2>2. at <= m /\ at \in Nat /\ m \in Nat
      BY <1>2, <1>5
    <2>3. QED
      BY <2>1, <2>2
  <1>6. QED
    BY <1>1, <1>3, <1>4, <1>5

\* What find_file makes of a directory, branch by branch.
IndexOf(name) == name \o <<Separator>> \o IndexHtml
NeedsSlash(name) == name # <<>> /\ Last(name) # Separator
HasIndex(r, name, at) == r.indexfile /\ Look(r.trees[at], IndexOf(name)) = "file"
IndexFound(name, at) == [code |-> "index", tree |-> at, path |-> IndexOf(name)]

\* What find_file makes of something that is no file.
LEMMA BranchIs ==
  ASSUME NEW r, NEW name, NEW at, at # 0, Look(r.trees[at], name) # "file"
  PROVE  /\ NeedsSlash(name) => FoundIn(r, name, at).code = "needslash"
         /\ ~NeedsSlash(name) /\ HasIndex(r, name, at) => FoundIn(r, name, at) = IndexFound(name, at)
         /\ ~NeedsSlash(name) /\ ~HasIndex(r, name, at) =>
              /\ r.indexdir => FoundIn(r, name, at).code = "listing" /\ FoundIn(r, name, at).tree = at
              /\ ~r.indexdir => FoundIn(r, name, at).code = "notfound"
  <1>1. CASE NeedsSlash(name)
    <2>1. PICK f : f = FoundIn(r, name, at)
      OBVIOUS
    <2>2. f = [code |-> "needslash", tree |-> at, path |-> name]
      BY <1>1, <2>1 DEF FoundIn, NeedsSlash
    <2>3. QED
      BY <1>1, <2>1, <2>2
  <1>2. CASE ~NeedsSlash(name) /\ HasIndex(r, name, at)
    BY <1>2 DEF FoundIn, NeedsSlash, HasIndex, IndexFound, IndexOf
  <1>3. CASE ~NeedsSlash(name) /\ ~HasIndex(r, name, at) /\ r.indexdir
    <2>1. PICK f : f = FoundIn(r, name, at)
      OBVIOUS
    <2>2. PICK path : path = name \o <<Separator>>
      OBVIOUS
    <2>3. f = [code |-> "listing", tree |-> at, path |-> path]
      BY <1>3, <2>1, <2>2 DEF FoundIn, NeedsSlash, HasIndex, IndexOf
    <2>4. f.code = "listing" /\ f.tree = at
      BY <2>3
    <2>5. QED
      BY <1>3, <2>1, <2>4
  <1>4. CASE ~NeedsSlash(name) /\ ~HasIndex(r, name, at) /\ ~r.indexdir
    <2>1. PICK f : f = FoundIn(r, name, at)
      OBVIOUS
    <2>2. f = [code |-> "notfound", tree |-> at, path |-> <<>>]
      BY <1>4, <2>1 DEF FoundIn, NeedsSlash, HasIndex, IndexOf
    <2>3. QED
      BY <1>4, <2>1, <2>2
  <1>5. QED
    BY <1>1, <1>2, <1>3, <1>4

\* What an index is found as.
LEMMA IndexFoundIs ==
  ASSUME NEW name, NEW at
  PROVE  /\ IndexFound(name, at).code = "index" /\ IndexFound(name, at).tree = at
         /\ IndexFound(name, at).path = IndexOf(name)
  BY DEF IndexFound

\* What it says of a file and of a directory.
LEMMA FileIsFound ==
  ASSUME NEW r, IsList(r.trees), NEW name, NEW f, f = FindFile(r, name), f.code \in {"file", "index"}
  PROVE  /\ f.tree = First(Having(r, name)) /\ f.tree \in 1 .. Len(r.trees)
         /\ Look(r.trees[f.tree], f.path) = "file"
         /\ f.path = name \/ f.path = IndexOf(name)
  <1>1. \A x : [code |-> "notfound", tree |-> 0, path |-> x].code = "notfound"
    OBVIOUS
  <1>2. Having(r, name) # {}
    <2>1. SUFFICES ASSUME Having(r, name) = {} PROVE FALSE
      OBVIOUS
    <2>2. f = FoundIn(r, name, 0)
      BY <2>1, FoundIs
    <2>3. f = [code |-> "notfound", tree |-> 0, path |-> <<>>]
      BY <2>2 DEF FoundIn
    <2>4. QED
      BY <2>3
  <1>3. PICK at \in Having(r, name) : at = First(Having(r, name)) /\ \A i \in Having(r, name) : at <= i
    BY <1>2, FoundIs
  <1>4. f = FoundIn(r, name, at)
    BY <1>3, FoundIs
  <1>5. at \in 1 .. Len(r.trees) /\ at # 0
    <2>1. at \in 1 .. Len(r.trees) /\ Len(r.trees) \in Nat
      BY ListIs DEF Having
    <2>2. QED
      BY <2>1
  <1>6. CASE Look(r.trees[at], name) = "file"
    <2>1. f = [code |-> "file", tree |-> at, path |-> name]
      BY <1>4, <1>5, <1>6 DEF FoundIn
    <2>2. f.tree = at /\ f.path = name
      BY <2>1
    <2>3. QED
      BY <1>3, <1>5, <1>6, <2>2
  <1>7. CASE Look(r.trees[at], name) # "file"
    <2>1. ~NeedsSlash(name)
      BY <1>4, <1>5, <1>7, BranchIs
    <2>2. HasIndex(r, name, at)
      BY <1>4, <1>5, <1>7, <2>1, BranchIs
    <2>3. f = IndexFound(name, at)
      BY <1>4, <1>5, <1>7, <2>1, <2>2, BranchIs
    <2>4. f.tree = at /\ f.path = IndexOf(name)
      BY <2>3, IndexFoundIs
    <2>5. Look(r.trees[at], IndexOf(name)) = "file"
      BY <2>2 DEF HasIndex
    <2>6. QED
      BY <1>3, <1>5, <2>4, <2>5
  <1>8. QED
    BY <1>6, <1>7

\* What it says of a listing.
LEMMA ListingIsFound ==
  ASSUME NEW r, IsList(r.trees), NEW name, NEW f, f = FindFile(r, name), f.code = "listing"
  PROVE  /\ f.tree \in Having(r, name) /\ \A i \in Having(r, name) : f.tree <= i
         /\ Look(r.trees[f.tree], name) # "file" /\ r.indexdir
         /\ name = <<>> \/ Last(name) = Separator
  <1>1. Having(r, name) # {}
    <2>1. SUFFICES ASSUME Having(r, name) = {} PROVE FALSE
      OBVIOUS
    <2>2. f = FoundIn(r, name, 0)
      BY <2>1, FoundIs
    <2>3. f = [code |-> "notfound", tree |-> 0, path |-> <<>>]
      BY <2>2 DEF FoundIn
    <2>4. QED
      BY <2>3
  <1>2. PICK at \in Having(r, name) : at = First(Having(r, name)) /\ \A i \in Having(r, name) : at <= i
    BY <1>1, FoundIs
  <1>3. f = FoundIn(r, name, at)
    BY <1>2, FoundIs
  <1>4. at # 0
    <2>1. at \in 1 .. Len(r.trees) /\ Len(r.trees) \in Nat
      BY ListIs DEF Having
    <2>2. QED
      BY <2>1
  <1>5. Look(r.trees[at], name) # "file"
    <2>1. SUFFICES ASSUME Look(r.trees[at], name) = "file" PROVE FALSE
      OBVIOUS
    <2>2. f = [code |-> "file", tree |-> at, path |-> name]
      BY <1>3, <1>4, <2>1 DEF FoundIn
    <2>3. QED
      BY <2>2
  <1>6. ~NeedsSlash(name)
    BY <1>3, <1>4, <1>5, BranchIs
  <1>7. ~HasIndex(r, name, at)
    BY <1>3, <1>4, <1>5, <1>6, BranchIs, IndexFoundIs
  <1>8. r.indexdir
    BY <1>3, <1>4, <1>5, <1>6, <1>7, BranchIs
  <1>9. f.tree = at
    BY <1>3, <1>4, <1>5, <1>6, <1>7, <1>8, BranchIs
  <1>10. QED
    BY <1>2, <1>5, <1>6, <1>8, <1>9 DEF NeedsSlash

\* A directory that is asked for with a slash has an index or a listing.
LEMMA DirectoryIsFound ==
  ASSUME NEW r, IsList(r.trees), r.indexdir, NEW name, Last(name) = Separator,
         NEW at \in Having(r, name), \A i \in Having(r, name) : at <= i
  PROVE  FindFile(r, name).code \in {"file", "index", "listing"}
  <1>1. PICK f : f = FoundIn(r, name, at) /\ f = FindFile(r, name)
    BY FoundIs
  <1>2. at # 0
    <2>1. at \in 1 .. Len(r.trees) /\ Len(r.trees) \in Nat
      BY ListIs DEF Having
    <2>2. QED
      BY <2>1
  <1>3. CASE Look(r.trees[at], name) = "file"
    <2>1. f = [code |-> "file", tree |-> at, path |-> name]
      BY <1>1, <1>2, <1>3 DEF FoundIn
    <2>2. QED
      BY <1>1, <2>1
  <1>4. CASE Look(r.trees[at], name) # "file"
    <2>1. ~NeedsSlash(name)
      BY DEF NeedsSlash
    <2>2. HasIndex(r, name, at) => f = IndexFound(name, at)
      BY <1>1, <1>2, <1>4, <2>1, BranchIs
    <2>3. HasIndex(r, name, at) => f.code = "index"
      BY <2>2, IndexFoundIs
    <2>4. ~HasIndex(r, name, at) => FoundIn(r, name, at).code = "listing"
      BY <1>2, <1>4, <2>1, BranchIs
    <2>5. QED
      BY <1>1, <2>3, <2>4
  <1>5. QED
    BY <1>3, <1>4

\* So has a file, by its name.
LEMMA NamedFileIsFound ==
  ASSUME NEW r, IsList(r.trees), NEW name, NEW at \in Having(r, name),
         \A i \in Having(r, name) : at <= i, Look(r.trees[at], name) = "file"
  PROVE  FindFile(r, name).code = "file"
  <1>1. PICK f : f = FoundIn(r, name, at) /\ f = FindFile(r, name)
    BY FoundIs
  <1>2. at # 0
    <2>1. at \in 1 .. Len(r.trees) /\ Len(r.trees) \in Nat
      BY ListIs DEF Having
    <2>2. QED
      BY <2>1
  <1>3. f = [code |-> "file", tree |-> at, path |-> name]
    BY <1>1, <1>2 DEF FoundIn
  <1>4. QED
    BY <1>1, <1>3

\* What is in a directory is cut from its name at the slash between them.
LEMMA BaseCuts ==
  ASSUME NEW rest \in Seq(Nat), NEW base,
         base = rest \o (IF rest = <<>> THEN <<>> ELSE <<Separator>>)
  PROVE  base \in Seq(Nat) /\ Cuts({Separator}, base, <<>>, Pieces(rest, {Separator}))
  <1>1. PICK seps : seps = {Separator}
    OBVIOUS
  <1>2. Pieces(rest, seps) = Cut(Cutting(seps, rest))
    BY PiecesCut
  <1>3. CASE rest = <<>>
    <2>1. <<>> \in Seq(Nat) /\ 0 \in Nat /\ <<>> \o <<>> = <<>>
      OBVIOUS
    <2>2. base = <<>>
      BY <1>3, <2>1
    <2>3. PICK st : st = Cutting(seps, rest)
      OBVIOUS
    <2>4. st = [cur |-> <<>>, all |-> <<>>]
      BY <1>3, <2>1, <2>3, CuttingOn
    <2>5. Cut(st) = <<>>
      BY <2>4 DEF Cut
    <2>6. Cuts(seps, base, <<>>, Pieces(rest, seps))
      BY <1>2, <1>3, <2>1, <2>2, <2>3, <2>4, <2>5 DEF Cuts
    <2>7. QED
      BY <1>1, <2>1, <2>2, <2>6
  <1>4. CASE rest # <<>>
    <2>1. PICK s \in Nat : s = Separator
      BY DEF Separator
    <2>2. base = Append(rest, s) /\ Append(rest, s) \in Seq(Nat)
      BY <1>4, <2>1
    <2>3. PICK st \in PieceStates : st = Cutting(seps, rest)
      BY CutTail
    <2>4. PICK cur \in Seq(Nat) : cur = st.cur
      BY DEF PieceStates
    <2>5. PICK all : all = st.all
      OBVIOUS
    <2>6. st = [cur |-> cur, all |-> all]
      BY <2>4, <2>5 DEF PieceStates
    <2>7. Cuts(seps, rest, cur, all)
      BY <2>3, <2>6 DEF Cuts
    <2>8. s \in Nat \cap seps
      BY <1>1, <2>1
    <2>9. Cuts(seps, Append(rest, s), <<>>, IF cur = <<>> THEN all ELSE Append(all, cur))
      BY <2>7, <2>8, CutSeparator
    <2>10. Pieces(rest, seps) = IF cur = <<>> THEN all ELSE Append(all, cur)
      BY <1>2, <2>3, <2>4, <2>5 DEF Cut
    <2>11. QED
      BY <1>1, <2>2, <2>9, <2>10
  <1>5. QED
    BY <1>3, <1>4

\* A name behind a directory's is the last of its pieces, with and without a slash.
LEMMA EntryPieces ==
  ASSUME NEW base \in Seq(Nat), NEW path, Cuts({Separator}, base, <<>>, path),
         NEW e \in Seq(Nat \ {Separator}), e # <<>>
  PROVE  /\ Pieces(base \o e, {Separator}) = Append(path, e)
         /\ Pieces(base \o Append(e, Separator), {Separator}) = Append(path, e)
  <1>1. PICK seps : seps = {Separator}
    OBVIOUS
  <1>2. PICK s \in Nat : s = Separator
    BY DEF Separator
  <1>3. PICK t \in Seq(Nat) : t = e
    BY <1>2
  <1>4. PICK u \in Seq(Nat) : u = base \o t
    <2>1. base \o t \in Seq(Nat)
      OBVIOUS
    <2>2. QED
      BY <2>1
  <1>5. Cuts(seps, u, t, path)
    BY <1>1, <1>3, <1>4, CutText
  <1>6. Pieces(u, seps) = Append(path, t)
    <2>1. PICK st : st = Cutting(seps, u)
      OBVIOUS
    <2>2. st.cur = t /\ st.all = path
      BY <1>5, <2>1 DEF Cuts
    <2>3. Cut(st) = Append(path, t)
      BY <1>3, <2>2 DEF Cut
    <2>4. QED
      BY <2>1, <2>3, PiecesCut
  <1>7. Cuts(seps, Append(u, s), <<>>, Append(path, t))
    <2>1. s \in Nat \cap seps
      BY <1>1, <1>2
    <2>2. QED
      BY <1>3, <1>5, <2>1, CutSeparator
  <1>8. Pieces(Append(u, s), seps) = Append(path, t)
    <2>1. PICK st : st = Cutting(seps, Append(u, s))
      OBVIOUS
    <2>2. st.cur = <<>> /\ st.all = Append(path, t)
      BY <1>7, <2>1 DEF Cuts
    <2>3. QED
      BY <2>1, <2>2, PiecesCut DEF Cut
  <1>9. base \o Append(t, s) = Append(u, s)
    BY <1>4, SMTT(30)
  <1>10. QED
    BY <1>1, <1>2, <1>3, <1>4, <1>6, <1>8, <1>9

\* The link to a directory is its encoded name and a slash, and is read so.
LEMMA DirectoryLink ==
  ASSUME NEW e \in Seq(Codes)
  PROVE  UrlDecode(UrlEncode(e, FALSE) \o <<Separator>>, FALSE) = Append(e, Separator)
  <1>1. PICK G : G = [d \in Codes |-> <<d>>]
    OBVIOUS
  <1>2. IsCode(G, Codes, Codes)
    BY <1>1 DEF IsCode
  <1> DEFINE T == {r \in Seq(Codes) : Coded(G, r) = r}
  <1>3. 16 \in Codes /\ <<>> \in Seq(Codes)
    BY DEF Codes
  <1>4. <<>> \in T
    BY <1>2, <1>3, CodedAppend
  <1>5. ASSUME NEW r \in Seq(Codes), NEW c \in Codes, r \in T PROVE Append(r, c) \in T
    <2>1. Coded(G, Append(r, c)) = Coded(G, r) \o G[c]
      BY <1>2, CodedAppend
    <2>2. r \o G[c] = Append(r, c) /\ Append(r, c) \in Seq(Codes)
      BY <1>1
    <2>3. QED
      BY <1>5, <2>1, <2>2
  <1>6. PICK s \in Codes : s = Separator /\ s \in Nat /\ s # Percent /\ s # Plus
    BY DEF Codes, Separator, Percent, Plus
  <1>7. PICK t \in Seq(Codes) : t = Append(e, s)
    <2>1. Append(e, s) \in Seq(Codes)
      OBVIOUS
    <2>2. QED
      BY <2>1
  <1>8. t \in T
    <2> HIDE DEF T
    <2>1. \A r \in Seq(Codes), c \in Codes : r \in T => Append(r, c) \in T
      BY <1>5
    <2>2. QED
      BY <1>4, <2>1, AllTexts
  <1>9. PICK k : k = [code |-> s, escape |-> <<>>]
    OBVIOUS
  <1>10. Reads(<<s>>, <<k>>)
    <2>1. Reads(<<s>> \o <<>>, <<k>> \o <<>>)
      BY <1>6, <1>9, ReadsNothing, ReadsPlain
    <2>2. <<s>> \o <<>> = <<s>> /\ <<k>> \o <<>> = <<k>>
      OBVIOUS
    <2>3. QED
      BY <2>1, <2>2
  <1>11. PICK cs : cs = UrlChars(e, FALSE)
    OBVIOUS
  <1>12. cs \in Seq(Chars)
    BY <1>3, <1>11, UrlCharsAppend
  <1>13. Characters(UrlEncode(e, FALSE) \o <<s>>) = cs \o <<k>>
    BY <1>10, <1>11, ReadsEncoded DEF Reads
  <1>14. PICK n \in Nat : n = Len(e)
    OBVIOUS
  <1>15. Len(cs) = n /\ \A i \in 1 .. n : cs[i].code = e[i]
    <2>1. DOMAIN cs = 1 .. n /\ \A i \in 1 .. n : cs[i].code = e[i]
      BY <1>11, <1>14 DEF UrlChars, UrlChar
    <2>2. QED
      BY <1>12, <1>14, <2>1
  <1>16. PICK ds : ds = cs \o <<k>>
    OBVIOUS
  <1>17. k \in Chars
    <2>1. <<>> \in Seq(Nat)
      OBVIOUS
    <2>2. QED
      BY <1>6, <1>9, <2>1 DEF Chars
  <1>18. DOMAIN ds = 1 .. n + 1 /\ ds[n + 1] = k /\ \A i \in 1 .. n : ds[i] = cs[i]
    BY <1>12, <1>15, <1>16, <1>17, SMTT(30)
  <1>19. Len(t) = n + 1 /\ t[n + 1] = s /\ \A i \in 1 .. n : t[i] = e[i]
    BY <1>7, <1>14
  <1>20. \A i \in 1 .. n + 1 : ds[i].code = t[i]
    <2>1. k.code = s
      BY <1>9
    <2>2. ASSUME NEW i \in 1 .. n + 1 PROVE ds[i].code = t[i]
      <3>1. CASE i = n + 1
        BY <1>18, <1>19, <2>1, <3>1
      <3>2. CASE i # n + 1
        <4>1. i \in 1 .. n
          BY <3>2
        <4>2. QED
          BY <1>15, <1>18, <1>19, <4>1
      <3>3. QED
        BY <3>1, <3>2
    <2>3. QED
      BY <2>2
  <1>21. DOMAIN t = 1 .. n + 1 /\ \A i \in 1 .. n + 1 : t[i] \in Codes
    BY <1>7, <1>19
  <1>22. [i \in DOMAIN ds |-> <<ds[i].code>>] = [i \in DOMAIN t |-> G[t[i]]]
    BY <1>1, <1>18, <1>20, <1>21
  <1>23. UrlDecode(UrlEncode(e, FALSE) \o <<s>>, FALSE) = FlattenSeq([i \in DOMAIN ds |-> <<ds[i].code>>])
    BY <1>13, <1>16 DEF UrlDecode
  <1>24. UrlDecode(UrlEncode(e, FALSE) \o <<s>>, FALSE) = t
    BY <1>8, <1>22, <1>23 DEF Coded
  <1>25. QED
    BY <1>6, <1>7, <1>24

\* What a tree has under a name.
LEMMA LookIs ==
  ASSUME NEW tree, NEW name, NEW path, path = Pieces(name, {Separator})
  PROVE  /\ path \in tree.dirs => Look(tree, name) = "dir"
         /\ path \notin tree.dirs /\ path \in tree.files /\ (name = <<>> \/ Last(name) # Separator)
              => Look(tree, name) = "file"
         /\ path \notin tree.dirs /\ path \notin tree.files => Look(tree, name) = "none"
         /\ Look(tree, name) = "file" => path \in tree.files /\ (name = <<>> \/ Last(name) # Separator)
  BY DEF Look

\* A path is its directory's and a name behind it.
LEMMA PathIs ==
  ASSUME NEW A, NEW q \in Seq(A), q # <<>>
  PROVE  Front(q) \in Seq(A) /\ Last(q) \in A /\ q = Append(Front(q), Last(q))
  <1>1. PICK s \in Seq(A), a \in A : q = Append(s, a)
    BY SequenceEmptyOrAppend
  <1>2. PICK n \in Nat : n = Len(s)
    OBVIOUS
  <1>3. Len(q) = n + 1 /\ q[n + 1] = a /\ \A i \in 1 .. n : q[i] = s[i]
    BY <1>1, <1>2
  <1>4. SubSeq(q, 1, n) = s
    <2>1. SubSeq(q, 1, n) \in Seq(A) /\ Len(SubSeq(q, 1, n)) = n
          /\ \A i \in 1 .. n : SubSeq(q, 1, n)[i] = q[i]
      BY <1>3
    <2>2. QED
      BY <1>2, <1>3, <2>1
  <1>5. Len(q) - 1 = n
    BY <1>3
  <1>6. Front(q) = s /\ Last(q) = a
    BY <1>3, <1>4, <1>5 DEF Front, Last
  <1>7. QED
    BY <1>1, <1>6

\* The names of a tree's entries can be links, and a tree has the directory it has something in.
LEMMA EntryIs ==
  ASSUME NEW tree, IsTree(tree), NEW q \in tree.dirs \cup tree.files, q # <<>>
  PROVE  /\ Last(q) \in Seq(Codes \ {Separator}) \ {<<>>} /\ q = Append(Front(q), Last(q))
         /\ Front(q) \in tree.dirs /\ (q \in tree.files => q \notin tree.dirs)
  <1>1. PICK A : A = Seq(Codes \ {Separator}) \ {<<>>}
    OBVIOUS
  <1>2. q \in Seq(A)
    BY <1>1 DEF IsTree
  <1>3. Last(q) \in A /\ q = Append(Front(q), Last(q))
    BY <1>2, PathIs
  <1>4. QED
    BY <1>1, <1>3 DEF IsTree

\* The first directory that has something by a name.
IsFirst(r, name, at) == at \in Having(r, name) /\ \A i \in Having(r, name) : at <= i
IsIn(tree, path, q) == q \in tree.dirs \cup tree.files /\ q # <<>> /\ Front(q) = path

\* A name of something it has in that directory.
IsNamed(r, rest, at, tree, q, next) ==
  /\ r.kind = "files" /\ IsAnswerer(r) /\ IsFirst(r, rest, at) /\ tree = r.trees[at]
  /\ IsIn(tree, Pieces(rest, {Separator}), q)
  /\ Pieces(next, {Separator}) = q /\ (q \in tree.dirs \/ Last(next) # Separator)

\* It is found in none before it.
LEMMA EntryIsThere ==
  ASSUME NEW r, NEW rest, NEW at, NEW tree, NEW q, NEW next, IsNamed(r, rest, at, tree, q, next)
  PROVE  IsFirst(r, next, at) /\ (q \in tree.files => Look(tree, next) = "file")
  <1>0. /\ r.kind = "files" /\ IsAnswerer(r) /\ IsFirst(r, rest, at) /\ tree = r.trees[at]
        /\ IsIn(tree, Pieces(rest, {Separator}), q)
        /\ Pieces(next, {Separator}) = q /\ (q \in tree.dirs \/ Last(next) # Separator)
    BY DEF IsNamed
  <1>1. IsList(r.trees) /\ \A other \in ToSet(r.trees) : IsTree(other)
    BY <1>0 DEF IsAnswerer
  <1>2. Len(r.trees) \in Nat /\ \A i \in 1 .. Len(r.trees) : IsTree(r.trees[i])
    BY <1>1, ListIs
  <1>3. at \in 1 .. Len(r.trees)
    BY <1>0 DEF Having, IsFirst
  <1>4. IsTree(tree)
    BY <1>0, <1>2, <1>3
  <1>5. q \in tree.files => q \notin tree.dirs
    BY <1>0, <1>4, EntryIs DEF IsIn
  <1>6. /\ q \in tree.dirs => Look(tree, next) = "dir"
        /\ q \in tree.files => Look(tree, next) = "file"
    BY <1>0, <1>5, LookIs
  <1>7. at \in Having(r, next)
    BY <1>0, <1>3, <1>6 DEF Having, IsIn
  <1>8. ASSUME NEW i \in Having(r, next) PROVE at <= i
    <2>1. i \in 1 .. Len(r.trees) /\ Look(r.trees[i], next) # "none"
      BY DEF Having
    <2>2. PICK other : other = r.trees[i] /\ IsTree(other) /\ Look(other, next) # "none"
      BY <1>2, <2>1
    <2>3. q \in other.dirs \cup other.files
      BY <1>0, <2>2, LookIs
    <2>4. Pieces(rest, {Separator}) \in other.dirs
      BY <1>0, <2>2, <2>3, EntryIs DEF IsIn
    <2>5. Look(other, rest) = "dir"
      BY <2>4, LookIs
    <2>6. i \in Having(r, rest)
      BY <2>1, <2>2, <2>5 DEF Having
    <2>7. QED
      BY <1>0, <2>6 DEF IsFirst
  <1>9. QED
    BY <1>6, <1>7, <1>8 DEF IsFirst

\* A link of a listing is to something in the directory.
IsLink(tree, q, link) ==
  \/ q \in tree.files /\ link = UrlEncode(Last(q), FALSE)
  \/ q \in tree.dirs /\ link = UrlEncode(Last(q), FALSE) \o <<Separator>>

\* Each is to an entry of the directory.
LEMMA ListedIs ==
  ASSUME NEW tree, NEW name, NEW link \in Listing(tree, name)
  PROVE  \E q : IsIn(tree, Pieces(name, {Separator}), q) /\ IsLink(tree, q, link)
  <1>1. \E q \in tree.dirs \cup tree.files :
          q # <<>> /\ Front(q) = Pieces(name, {Separator}) /\ IsLink(tree, q, link)
    BY DEF Listing, IsLink
  <1>2. QED
    BY <1>1 DEF IsIn

\* A text ends in what is put behind it.
LEMMA EndsIn ==
  ASSUME NEW base \in Seq(Nat), NEW e \in Seq(Nat), e # <<>>
  PROVE  base \o e \in Seq(Nat) /\ Last(base \o e) = Last(e)
  <1>1. PICK n \in Nat : n = Len(base)
    OBVIOUS
  <1>2. PICK k \in Nat : k = Len(e) /\ k > 0
    <2>1. Len(e) \in Nat /\ Len(e) > 0
      OBVIOUS
    <2>2. QED
      BY <2>1
  <1>3. PICK t \in Seq(Nat) : t = base \o e
    <2>1. base \o e \in Seq(Nat)
      OBVIOUS
    <2>2. QED
      BY <2>1
  <1>4. Len(t) = n + k /\ t[n + k] = e[k]
    BY <1>1, <1>2, <1>3
  <1>5. Last(t) = e[k] /\ Last(e) = e[k]
    BY <1>2, <1>4 DEF Last
  <1>6. QED
    BY <1>3, <1>5

\* A sequence stays one over a larger set.
LEMMA SeqWithin ==
  ASSUME NEW B, NEW A \in SUBSET B, NEW s \in Seq(A)
  PROVE  s \in Seq(B)
  OBVIOUS

\* The path of a name, with and without a slash, behind that of a directory.
Names(base, e, q) ==
  /\ e \in Seq(Codes) /\ Pieces(base \o e, {Separator}) = q /\ Last(base \o e) # Separator
  /\ Pieces(base \o Append(e, Separator), {Separator}) = q
  /\ Last(base \o Append(e, Separator)) = Separator

\* The names behind that of a directory are found in it.
LEMMA NameBehind ==
  ASSUME NEW tree, IsTree(tree), NEW path, NEW q, IsIn(tree, path, q),
         NEW base \in Seq(Nat), Cuts({Separator}, base, <<>>, path), NEW e, e = Last(q)
  PROVE  Names(base, e, q)
  <1>1. PICK A : A = Codes \ {Separator}
    OBVIOUS
  <1>2. PICK s \in Codes : s = Separator /\ s \in Nat
    BY DEF Codes, Separator
  <1>3. e \in Seq(A) /\ e # <<>> /\ q = Append(path, e)
    BY <1>1, EntryIs DEF IsIn
  <1>4. A \in SUBSET Codes /\ A \in SUBSET Nat /\ A \in SUBSET (Nat \ {Separator})
    <2>1. \A c \in Codes : c \in Nat
      BY DEF Codes
    <2>2. QED
      BY <1>1, <2>1
  <1>5. e \in Seq(Codes) /\ e \in Seq(Nat) /\ e \in Seq(Nat \ {Separator})
    BY <1>3, <1>4, SeqWithin
  <1>6. /\ Pieces(base \o e, {Separator}) = q
        /\ Pieces(base \o Append(e, Separator), {Separator}) = q
    BY <1>3, <1>5, EntryPieces
  <1>7. Last(base \o e) # Separator
    <2>1. Last(base \o e) = Last(e)
      BY <1>3, <1>5, EndsIn
    <2>2. Last(e) \in A
      BY <1>3, PathIs
    <2>3. QED
      BY <1>1, <2>1, <2>2
  <1>8. Last(base \o Append(e, Separator)) = Separator
    <2>1. PICK u \in Seq(Nat) : u = e
      BY <1>5
    <2>2. PICK t \in Seq(Nat) : t = Append(u, s)
      <3>1. Append(u, s) \in Seq(Nat)
        BY <1>2
      <3>2. QED
        BY <3>1
    <2>3. PICK n \in Nat : n = Len(u)
      OBVIOUS
    <2>4. Len(t) = n + 1 /\ t[n + 1] = s
      BY <1>2, <2>2, <2>3
    <2>5. t # <<>> /\ Last(t) = s
      BY <2>4 DEF Last
    <2>6. Last(base \o t) = s
      BY <2>5, EndsIn
    <2>7. QED
      BY <1>2, <2>1, <2>2, <2>6
  <1>9. QED
    BY <1>5, <1>6, <1>7, <1>8 DEF Names

\* A link leads to something.
LinkedIn(r, rest, at, tree, path, q, link) ==
  /\ r.kind = "files" /\ IsAnswerer(r) /\ r.indexdir /\ IsFirst(r, rest, at) /\ tree = r.trees[at]
  /\ path = Pieces(rest, {Separator}) /\ IsIn(tree, path, q) /\ IsLink(tree, q, link)

\* The first directory by the name has it for the link, too.
LEMMA LinkLeads ==
  ASSUME NEW r, NEW rest, NEW at, NEW tree, NEW path, NEW q, NEW link,
         LinkedIn(r, rest, at, tree, path, q, link),
         NEW base \in Seq(Nat), Cuts({Separator}, base, <<>>, path),
         NEW next, next = base \o UrlDecode(link, FALSE)
  PROVE  FindFile(r, next).code \in {"file", "index", "listing"}
  <1>0. /\ r.kind = "files" /\ IsAnswerer(r) /\ r.indexdir /\ IsFirst(r, rest, at) /\ tree = r.trees[at]
        /\ path = Pieces(rest, {Separator}) /\ IsIn(tree, path, q) /\ IsLink(tree, q, link)
    BY DEF LinkedIn
  <1>1. IsList(r.trees) /\ \A other \in ToSet(r.trees) : IsTree(other)
    BY <1>0 DEF IsAnswerer
  <1>2. \A i \in 1 .. Len(r.trees) : IsTree(r.trees[i])
    BY <1>1, ListIs
  <1>3. IsTree(tree)
    BY <1>0, <1>2 DEF Having, IsFirst
  <1>4. PICK e : e = Last(q)
    OBVIOUS
  <1>5. Names(base, e, q)
    BY <1>0, <1>3, <1>4, NameBehind
  <1>6. CASE q \in tree.files /\ link = UrlEncode(e, FALSE)
    <2>1. UrlDecode(link, FALSE) = e
      BY <1>5, <1>6, UrlReturns DEF Names
    <2>2. Pieces(next, {Separator}) = q /\ Last(next) # Separator
      BY <1>5, <2>1 DEF Names
    <2>3. IsFirst(r, next, at) /\ Look(tree, next) = "file"
      <3>1. IsNamed(r, rest, at, tree, q, next)
        BY <1>0, <1>6, <2>2 DEF IsNamed
      <3>2. QED
        BY <1>6, <3>1, EntryIsThere
    <2>4. FindFile(r, next).code = "file"
      BY <1>0, <1>1, <2>3, NamedFileIsFound DEF IsFirst
    <2>5. QED
      BY <2>4
  <1>7. CASE q \in tree.dirs /\ link = UrlEncode(e, FALSE) \o <<Separator>>
    <2>1. UrlDecode(link, FALSE) = Append(e, Separator)
      BY <1>5, <1>7, DirectoryLink DEF Names
    <2>2. Pieces(next, {Separator}) = q /\ Last(next) = Separator
      BY <1>5, <2>1 DEF Names
    <2>3. IsFirst(r, next, at)
      <3>1. IsNamed(r, rest, at, tree, q, next)
        BY <1>0, <1>7, <2>2 DEF IsNamed
      <3>2. QED
        BY <3>1, EntryIsThere
    <2>4. QED
      BY <1>0, <1>1, <2>2, <2>3, DirectoryIsFound DEF IsFirst
  <1>8. QED
    BY <1>0, <1>4, <1>6, <1>7 DEF IsLink

\* So do those of a listing.
LEMMA ListingLinks ==
  ASSUME NEW r, r.kind = "files", IsAnswerer(r), NEW rest \in Seq(Nat),
         NEW f, f = FindFile(r, rest), f.code = "listing", NEW link \in Listing(r.trees[f.tree], rest),
         NEW next, next = rest \o (IF rest = <<>> THEN <<>> ELSE <<Separator>>) \o UrlDecode(link, FALSE)
  PROVE  FindFile(r, next).code \in {"file", "index", "listing"}
  <1>1. IsList(r.trees)
    BY DEF IsAnswerer
  <1>2. PICK at : at = f.tree
    OBVIOUS
  <1>3. IsFirst(r, rest, at) /\ r.indexdir
    BY <1>1, <1>2, ListingIsFound DEF IsFirst
  <1>4. PICK tree : tree = r.trees[at]
    OBVIOUS
  <1>5. PICK path : path = Pieces(rest, {Separator})
    OBVIOUS
  <1>6. PICK q : IsIn(tree, path, q) /\ IsLink(tree, q, link)
    BY <1>2, <1>4, <1>5, ListedIs
  <1>7. PICK base : base = rest \o (IF rest = <<>> THEN <<>> ELSE <<Separator>>)
    OBVIOUS
  <1>8. base \in Seq(Nat) /\ Cuts({Separator}, base, <<>>, path)
    BY <1>5, <1>7, BaseCuts
  <1>9. next = base \o UrlDecode(link, FALSE)
    BY <1>7
  <1>10. LinkedIn(r, rest, at, tree, path, q, link)
    BY <1>3, <1>4, <1>5, <1>6 DEF LinkedIn
  <1>11. QED
    BY <1>8, <1>9, <1>10, LinkLeads

\* The codes find_file answers with.
LEMMA FoundCodes ==
  ASSUME NEW r, NEW name, NEW at
  PROVE  FoundIn(r, name, at).code \in {"notfound", "file", "needslash", "index", "listing"}
  BY DEF FoundIn

\* They are the same with the first directory.
LEMMA FindCodes ==
  ASSUME NEW r, NEW name
  PROVE  FindFile(r, name).code \in {"notfound", "file", "needslash", "index", "listing"}
  BY FoundCodes DEF FindFile

\* What a file reactor answers, by what find_file says.
LEMMA FileAnswers ==
  ASSUME NEW r, NEW name, NEW req, NEW f, f = FindFile(r, name), NEW a, a = FileAnswer(r, name, req)
  PROVE  /\ a.kind = "file" => /\ f.code \in {"file", "index"} /\ a.tree = f.tree
                               /\ a.path = f.path /\ a.ext = Extension(f.path)
         /\ a.kind = "listing" => f.code = "listing" /\ a.links = Listing(r.trees[f.tree], name)
  <1>1. PICK links : links = Listing(r.trees[f.tree], name)
    OBVIOUS
  <1>2. PICK ext : ext = Extension(f.path)
    OBVIOUS
  <1>3. PICK url : url = req \o <<Separator>>
    OBVIOUS
  <1>4. f.code \in {"notfound", "file", "needslash", "index", "listing"}
    BY FindCodes
  <1>5. CASE ~CheckPath(name) \/ f.code = "notfound"
    <2>1. a = [kind |-> "none"]
      BY <1>5 DEF FileAnswer, NotAnswered
    <2>2. QED
      BY <2>1
  <1>6. CASE CheckPath(name) /\ f.code = "needslash"
    <2>1. a = [kind |-> "redirect", url |-> url]
      BY <1>3, <1>6 DEF FileAnswer
    <2>2. QED
      BY <2>1
  <1>7. CASE CheckPath(name) /\ f.code = "listing"
    <2>1. a = [kind |-> "listing", links |-> links]
      BY <1>1, <1>7 DEF FileAnswer
    <2>2. QED
      BY <1>1, <1>7, <2>1
  <1>8. CASE CheckPath(name) /\ f.code \in {"file", "index"}
    <2>1. a = [kind |-> "file", tree |-> f.tree, path |-> f.path, ext |-> ext]
      BY <1>2, <1>8 DEF FileAnswer
    <2>2. QED
      BY <1>2, <1>8, <2>1
  <1>9. QED
    BY <1>4, <1>5, <1>6, <1>7, <1>8

\* An answer is the right file, with its type, or a listing of links that lead somewhere.
LEMMA FilesAreRight ==
  ASSUME NEW r, r.kind = "files", IsAnswerer(r), NEW rest \in Seq(Nat), NEW req
  PROVE  FileIsRight(r, rest, FileAnswer(r, rest, req))
  <1>1. PICK a : a = FileAnswer(r, rest, req)
    OBVIOUS
  <1>2. PICK f : f = FindFile(r, rest)
    OBVIOUS
  <1>3. IsList(r.trees) /\ \A tree \in ToSet(r.trees) : IsTree(tree)
    BY DEF IsAnswerer
  <1>4. Len(r.trees) \in Nat /\ DOMAIN r.trees = 1 .. Len(r.trees)
        /\ \A i \in 1 .. Len(r.trees) : IsTree(r.trees[i])
    BY <1>3, ListIs
  <1>5. ASSUME a.kind = "file"
        PROVE  /\ a.tree = First({i \in DOMAIN r.trees : Look(r.trees[i], rest) # "none"})
               /\ Look(r.trees[a.tree], a.path) = "file"
               /\ TypeIsRight(a.ext, Last(Pieces(a.path, {Separator})))
    <2>1. f.code \in {"file", "index"} /\ a.tree = f.tree /\ a.path = f.path /\ a.ext = Extension(f.path)
      BY <1>1, <1>2, <1>5, FileAnswers
    <2>2. /\ f.tree = First(Having(r, rest)) /\ f.tree \in 1 .. Len(r.trees)
          /\ Look(r.trees[f.tree], f.path) = "file"
          /\ f.path = rest \/ f.path = IndexOf(rest)
      BY <1>2, <1>3, <2>1, FileIsFound
    <2>3. Having(r, rest) = {i \in DOMAIN r.trees : Look(r.trees[i], rest) # "none"}
      BY <1>4 DEF Having
    <2>4. PICK p \in Seq(Nat) : p = f.path
      <3>1. IndexOf(rest) \in Seq(Nat)
        <4>1. <<Separator>> \in Seq(Nat) /\ IndexHtml \in Seq(Nat)
          BY DEF Separator, IndexHtml
        <4>2. PICK s \in Seq(Nat) : s = <<Separator>>
          BY <4>1
        <4>3. PICK i \in Seq(Nat) : i = IndexHtml
          BY <4>1
        <4>4. rest \o s \o i \in Seq(Nat)
          OBVIOUS
        <4>5. QED
          BY <4>2, <4>3, <4>4 DEF IndexOf
      <3>2. QED
        BY <2>2, <3>1
    <2>5. PICK tree : tree = r.trees[f.tree] /\ IsTree(tree) /\ Look(tree, p) = "file"
      BY <1>4, <2>2, <2>4
    <2>6. Pieces(p, {Separator}) \in tree.files /\ (p = <<>> \/ Last(p) # Separator)
      BY <2>5, LookIs
    <2>7. p # <<>>
      <3>1. PICK st : st = Cutting({Separator}, <<>>)
        OBVIOUS
      <3>2. <<>> \in Seq(Nat) /\ 0 \in Nat
        OBVIOUS
      <3>3. st = [cur |-> <<>>, all |-> <<>>]
        BY <3>1, <3>2, CuttingOn
      <3>4. Cut(st) = <<>>
        BY <3>3 DEF Cut
      <3>5. Pieces(<<>>, {Separator}) = <<>>
        BY <3>1, <3>4, PiecesCut
      <3>6. QED
        BY <2>5, <2>6, <3>5 DEF IsTree
    <2>8. p[Len(p)] # Separator
      BY <2>6, <2>7 DEF Last
    <2>9. TypeIsRight(Extension(p), Last(Pieces(p, {Separator})))
      BY <2>7, <2>8, TypeOfLastName
    <2>10. QED
      BY <2>1, <2>2, <2>3, <2>4, <2>9
  <1>6. ASSUME a.kind = "listing", NEW link \in a.links
        PROVE  LET next == rest \o (IF rest = <<>> THEN <<>> ELSE <<Separator>>)
                             \o UrlDecode(link, FALSE)
               IN FindFile(r, next).code \in {"file", "index", "listing"}
    <2>1. f.code = "listing" /\ a.links = Listing(r.trees[f.tree], rest)
      BY <1>1, <1>2, <1>6, FileAnswers
    <2>2. link \in Listing(r.trees[f.tree], rest)
      BY <1>6, <2>1
    <2>3. PICK next : next = rest \o (IF rest = <<>> THEN <<>> ELSE <<Separator>>)
                               \o UrlDecode(link, FALSE)
      OBVIOUS
    <2>4. FindFile(r, next).code \in {"file", "index", "listing"}
      BY <1>2, <2>1, <2>2, <2>3, ListingLinks
    <2>5. QED
      BY <2>3, <2>4
  <1>7. FileIsRight(r, rest, a)
    BY <1>5, <1>6 DEF FileIsRight
  <1>8. QED
    BY <1>1, <1>7

\* What is asked of a request that gets to an application.
LEMMA AppAnswers ==
  ASSUME NEW d, d = Dispatch(text), d.to = "app", text \in Seq(Nat), Len(text) < NPos
  PROVE  RoutedTo(d, Apps[d.app].reactors)
  <1>1. /\ d.app \in 1 .. Len(Apps) /\ d.rest \in Seq(Nat) /\ Len(d.rest) <= Len(text)
        /\ Mount(Apps[d.app]) \o d.rest = text
        /\ \A i \in 1 .. d.app - 1 : ~IsPrefix(Mount(Apps[i]), text)
    BY Dispatched
  <1>2. PICK list : list = Apps[d.app].reactors
    OBVIOUS
  <1>3. IsReactors(list)
    <2>1. Apps[d.app] \in ToSet(Apps)
      BY <1>1, RoutingAssumption, ListIs
    <2>2. IsList(list) /\ \A r \in ToSet(list) : IsIfMatch(r) \/ IsAnswerer(r)
      BY <1>2, <2>1, RoutingAssumption
    <2>3. QED
      BY <2>2 DEF IsReactors, IsReactor
  <1>4. Len(d.rest) < NPos
    <2>1. Len(d.rest) \in Nat /\ Len(text) \in Nat
      BY <1>1
    <2>2. NPos \in Int
      BY RoutingAssumption DEF NPos
    <2>3. QED
      BY <1>1, <2>1, <2>2
  <1>5. FirstWanted(list, d.rest, text, Reactor(list, d.rest, text)[1])
    BY <1>1, <1>3, <1>4, FirstIsAsked
  <1>6. NoSecondSlash(list, d.rest, text)
    BY <1>1, <1>3, OneSlash
  <1>7. ASSUME NEW r \in ToSet(list), r.kind = "files"
        PROVE  FileIsRight(r, d.rest, FileAnswer(r, d.rest, text))
    <2>1. IsAnswerer(r)
      BY <1>3, <1>7 DEF IsReactors, IsReactor, IsIfMatch
    <2>2. QED
      BY <1>1, <1>7, <2>1, FilesAreRight
  <1>8. QED
    BY <1>1, <1>2, <1>5, <1>6, <1>7 DEF RoutedTo

\* What is asked of a request.
LEMMA PathRouted ==
  ASSUME kind = "path" => text \in Seq(Nat) /\ Len(text) < NPos
  PROVE  RequestRouted
  <1> SUFFICES ASSUME kind = "path" PROVE RequestRouted
    BY DEF RequestRouted
  <1>1. PICK d : d = Dispatch(text)
    OBVIOUS
  <1>2. d.to = "redirect" => Dispatch(text \o <<Slash>>).to # "redirect"
    BY <1>1, RedirectedOnce
  <1>3. d.to = "none" => \A i \in DOMAIN Apps : ~IsPrefix(Mount(Apps[i]), text)
    <2>1. DOMAIN Apps = 1 .. Len(Apps)
      BY RoutingAssumption, ListIs
    <2>2. d.to = "none" => Mounted(text) = {}
      BY <1>1, Dispatched
    <2>3. QED
      BY <2>1, <2>2 DEF Mounted
  <1>4. d.to = "app" => RoutedTo(d, Apps[d.app].reactors)
    BY <1>1, AppAnswers
  <1>5. QED
    BY <1>1, <1>2, <1>3, <1>4 DEF RequestRouted

(* A request is routed as it should be, however long it is, whatever the       *)
(* applications, their reactors and their directories hold.                    *)
THEOREM RequestsRouted == TextSpec => []RequestRouted
  <1>1. TextTypeOK => RequestRouted
    BY PathRouted DEF TextTypeOK
  <1>2. QED
    BY <1>1, TextTyped, PTL
=============================================================================
