------------------------------ MODULE ReportProofs ----------------------------
(***************************************************************************)
(* What the controls flag and what the report concludes, for every         *)
(* workbook and after every revision.                                      *)
(*                                                                         *)
(* BetterNeverFlags: a correction keeps the rows, the dates and the years  *)
(* a control looks at, and one upwards lets the amounts of its concept     *)
(* rise and leaves the others alone, so F03, F07 and F13 find no shortfall *)
(* they did not find before.                                               *)
(*                                                                         *)
(* FindingsConcluded: the candidates of a check differ in name or cells,   *)
(* what is urgent cites a number of the workbook and becomes a card, and   *)
(* the conclusions share the cards out: first the combinations, then one   *)
(* conclusion for each detector.                                           *)
(***************************************************************************)
EXTENDS ScreeningProofs

-----------------------------------------------------------------------------
(* Sets of numbers and sequences *)

(* The members of a finite set by rank in a strict order: one for each     *)
(* place, and each in a place.                                             *)
Rank(S, R, x) == Cardinality({y \in S : <<y, x>> \in R})

StrictOrder(S, R) ==
  /\ \A x \in S : <<x, x>> \notin R
  /\ \A x, y, z \in S : <<x, y>> \in R /\ <<y, z>> \in R => <<x, z>> \in R
  /\ \A x, y \in S : x # y => <<x, y>> \in R \/ <<y, x>> \in R

LEMMA Ranks ==
  ASSUME NEW S, IsFiniteSet(S), NEW R, StrictOrder(S, R)
  PROVE  /\ \A x \in S : Rank(S, R, x) \in 0..(Cardinality(S) - 1)
         /\ \A x, y \in S : <<x, y>> \in R => Rank(S, R, x) < Rank(S, R, y)
         /\ \A n \in 0..(Cardinality(S) - 1) : \E x \in S : Rank(S, R, x) = n
<1> DEFINE Less(x) == {y \in S : <<y, x>> \in R}
           N == Cardinality(S)
           rank == [x \in S |-> Rank(S, R, x)]
<1>1. /\ N \in Nat /\ \A x : IsFiniteSet(Less(x)) /\ Cardinality(Less(x)) \in Nat
  <2>1. ASSUME NEW x PROVE IsFiniteSet(Less(x))
    BY FS_Subset
  <2> QED  BY <2>1, FS_CardinalityType
<1>2. ASSUME NEW x \in S, NEW y \in S, <<x, y>> \in R PROVE Cardinality(Less(x)) < Cardinality(Less(y))
  <2>1. Less(x) \in SUBSET Less(y) /\ x \in Less(y) /\ x \notin Less(x)
    BY <1>2 DEF StrictOrder
  <2> HIDE DEF Less
  <2>2. Cardinality(Less(x)) <= Cardinality(Less(y)) /\ Cardinality(Less(x)) # Cardinality(Less(y))
    BY <1>1, <2>1, FS_Subset
  <2> QED  BY <1>1, <2>2
<1>3. ASSUME NEW x \in S PROVE Cardinality(Less(x)) \in 0..(N - 1)
  <2>1. Less(x) \in SUBSET S /\ x \notin Less(x)
    BY DEF StrictOrder
  <2> HIDE DEF Less
  <2>2. Cardinality(Less(x)) <= N /\ N # Cardinality(Less(x))
    BY <2>1, FS_Subset
  <2> QED  BY <1>1, <2>2
<1>4. \A x : Rank(S, R, x) = Cardinality(Less(x))
  BY DEF Rank
<1> HIDE DEF Less
<1>5. \A x, y \in S : rank[x] = rank[y] => x = y
  <2> SUFFICES ASSUME NEW x \in S, NEW y \in S, rank[x] = rank[y], x # y PROVE FALSE
    OBVIOUS
  <2>1. Cardinality(Less(x)) < Cardinality(Less(y)) \/ Cardinality(Less(y)) < Cardinality(Less(x))
    BY <1>2 DEF StrictOrder
  <2> QED  BY <1>1, <1>4, <2>1
<1>6. rank \in Injection(S, 0..(N - 1))
  <2>1. rank \in [S -> 0..(N - 1)]
    BY <1>3, <1>4
  <2> HIDE DEF rank
  <2> QED  BY <1>5, <2>1 DEF Injection, IsInjective
<1>7. IsFiniteSet(0..(N - 1)) /\ Cardinality(0..(N - 1)) = N
  BY <1>1, FS_Interval
<1>8. rank \in Surjection(S, 0..(N - 1))
  BY <1>6, <1>7, FS_Injection
<1>9. \A n \in 0..(N - 1) : \E x \in S : rank[x] = n
  BY <1>8 DEF Surjection
<1> QED
  BY <1>2, <1>3, <1>4, <1>9

(* A sequence with the member of each rank in its place. *)
LEMMA ByRank ==
  ASSUME NEW S, IsFiniteSet(S), NEW R, StrictOrder(S, R),
         NEW f, \A n \in 1..Cardinality(S) : f[n] \in S /\ Rank(S, R, f[n]) = n - 1
  PROVE  /\ Cardinality(S) \in Nat
         /\ \A m, n \in 1..Cardinality(S) : m < n => <<f[m], f[n]>> \in R /\ f[m] # f[n]
         /\ \A x \in S : \E n \in 1..Cardinality(S) : f[n] = x
<1> DEFINE N == Cardinality(S)
<1>1. N \in Nat
  BY FS_CardinalityType
<1> HIDE DEF N
<1>3. \A n \in 1..N : f[n] \in S /\ Rank(S, R, f[n]) = n - 1
  BY DEF N
<1>4. \A x \in S : Rank(S, R, x) \in 0..(N - 1)
  BY Ranks DEF N
<1>5. \A x, y \in S : <<x, y>> \in R => Rank(S, R, x) < Rank(S, R, y)
  BY Ranks
<1>6. ASSUME NEW m \in 1..N, NEW n \in 1..N, m < n PROVE <<f[m], f[n]>> \in R /\ f[m] # f[n]
  <2>1. f[m] \in S /\ f[n] \in S /\ Rank(S, R, f[m]) < Rank(S, R, f[n])
    BY <1>1, <1>3, <1>6
  <2>2. f[m] # f[n] /\ ~(Rank(S, R, f[n]) < Rank(S, R, f[m]))
    BY <1>1, <1>4, <2>1
  <2> QED  BY <1>5, <2>1, <2>2 DEF StrictOrder
<1>7. ASSUME NEW x \in S PROVE \E n \in 1..N : f[n] = x
  <2>1. PICK n \in 1..N : n = Rank(S, R, x) + 1
    BY <1>1, <1>4
  <2>2. f[n] \in S /\ Rank(S, R, f[n]) = Rank(S, R, x)
    BY <1>1, <1>3, <1>4, <2>1
  <2>3. ~(Rank(S, R, f[n]) < Rank(S, R, x)) /\ ~(Rank(S, R, x) < Rank(S, R, f[n]))
    BY <1>1, <1>4, <2>2
  <2>4. f[n] = x
    BY <1>5, <2>2, <2>3 DEF StrictOrder
  <2> QED  BY <2>4
<1> QED
  BY <1>1, <1>6, <1>7 DEF N

(* Numbers in order. *)
LEMMA OrderedIs ==
  ASSUME NEW S \in SUBSET Int, IsFiniteSet(S)
  PROVE  /\ Cardinality(S) \in Nat
         /\ DOMAIN Ordered(S) = 1..Cardinality(S)
         /\ \A n \in 1..Cardinality(S) : Ordered(S)[n] \in S
         /\ \A m, n \in 1..Cardinality(S) : m < n => Ordered(S)[m] < Ordered(S)[n]
         /\ \A x \in S : \E n \in 1..Cardinality(S) : Ordered(S)[n] = x
<1> DEFINE R == {p \in S \X S : p[1] < p[2]}
           N == Cardinality(S)
           Lower(x) == Cardinality({y \in S : y < x})
<1>1. \A x, y \in S : <<x, y>> \in R <=> x < y
  OBVIOUS
<1>2. \A n \in 1..N : Ordered(S)[n] = CHOOSE x \in S : Lower(x) = n - 1
  BY DEF Ordered
<1>3. ASSUME NEW x \in S PROVE Lower(x) = Rank(S, R, x)
  <2>1. {y \in S : y < x} = {y \in S : <<y, x>> \in R}
    BY <1>1
  <2> QED  BY <2>1 DEF Rank
<1> HIDE DEF R, Lower
<1>4. StrictOrder(S, R)
  BY <1>1 DEF StrictOrder
<1>5. N \in Nat /\ \A n \in 0..(N - 1) : \E x \in S : Rank(S, R, x) = n
  BY <1>4, Ranks, FS_CardinalityType
<1>6. ASSUME NEW n \in 1..N PROVE Ordered(S)[n] \in S /\ Rank(S, R, Ordered(S)[n]) = n - 1
  <2>1. n - 1 \in 0..(N - 1)
    BY <1>5
  <2>2. PICK x \in S : Lower(x) = n - 1
    BY <1>3, <1>5, <2>1
  <2>3. Ordered(S)[n] \in S /\ Lower(Ordered(S)[n]) = n - 1
    BY <1>2, <2>2
  <2> QED  BY <1>3, <2>3
<1> HIDE DEF N
<1>7. DOMAIN Ordered(S) = 1..N
  BY DEF Ordered, N
<1>8. /\ \A m, n \in 1..N : m < n => <<Ordered(S)[m], Ordered(S)[n]>> \in R
      /\ \A x \in S : \E n \in 1..N : Ordered(S)[n] = x
  BY <1>4, <1>6, ByRank DEF N
<1>9. \A m, n \in 1..N : m < n => Ordered(S)[m] < Ordered(S)[n]
  BY <1>1, <1>6, <1>8
<1> QED
  BY <1>5, <1>6, <1>7, <1>8, <1>9 DEF N

(* The elements of a sequence in a set are a sequence of them, in order.   *)
LEMMA AmongIs ==
  ASSUME NEW s, NEW N \in Nat, DOMAIN s = 1..N, NEW T
  PROVE  /\ \E n \in Nat : DOMAIN Among(s, T) = 1..n
         /\ \A i \in DOMAIN Among(s, T) : Among(s, T)[i] \in T /\ \E j \in 1..N : Among(s, T)[i] = s[j]
         /\ \A j \in 1..N : s[j] \in T => \E i \in DOMAIN Among(s, T) : Among(s, T)[i] = s[j]
         /\ \A i, j \in DOMAIN Among(s, T) : i # j =>
              \E k, l \in 1..N : k # l /\ Among(s, T)[i] = s[k] /\ Among(s, T)[j] = s[l]
<1> DEFINE hits == {i \in DOMAIN s : s[i] \in T}
           at == Ordered(hits)
<1>1. hits \in SUBSET Int /\ IsFiniteSet(hits) /\ hits \in SUBSET (1..N)
  <2>1. IsFiniteSet(1..N)
    BY FS_Interval
  <2> QED  BY <2>1, FS_Subset
<1>2. \A i \in hits : i \in 1..N /\ s[i] \in T
  OBVIOUS
<1>3. \A i \in 1..N : s[i] \in T => i \in hits
  OBVIOUS
<1>4. Among(s, T) = [n \in DOMAIN at |-> s[at[n]]]
  BY DEF Among
<1> HIDE DEF hits
<1>5. /\ DOMAIN at = 1..Cardinality(hits) /\ Cardinality(hits) \in Nat
      /\ \A n \in DOMAIN at : at[n] \in hits
      /\ \A i \in hits : \E n \in DOMAIN at : at[n] = i
      /\ \A m, n \in DOMAIN at : m # n => at[m] # at[n]
  <2>1. /\ DOMAIN at = 1..Cardinality(hits) /\ Cardinality(hits) \in Nat
        /\ \A n \in 1..Cardinality(hits) : at[n] \in hits
        /\ \A i \in hits : \E n \in 1..Cardinality(hits) : at[n] = i
        /\ \A m, n \in 1..Cardinality(hits) : m < n => at[m] < at[n]
    BY <1>1, OrderedIs
  <2> DEFINE C == Cardinality(hits)
  <2> HIDE DEF C, at
  <2>2. C \in Nat /\ \A m, n \in 1..C : (m < n => at[m] < at[n]) /\ at[m] \in 1..N
    BY <1>1, <2>1 DEF C
  <2>3. \A m, n \in 1..C : m # n => at[m] # at[n]
    BY <2>2
  <2> QED  BY <2>1, <2>3 DEF C
<1> HIDE DEF at
<1>6. DOMAIN Among(s, T) = DOMAIN at /\ \A i \in DOMAIN at : Among(s, T)[i] = s[at[i]]
  BY <1>4
<1> QED
  BY <1>2, <1>3, <1>5, <1>6

(* The row of a concept in the book is one of its rows. *)
LEMMA BookTotalIs ==
  ASSUME WorkbookOK, NEW c
  PROVE  BookTotal(c) = NoRow \/ (BookTotal(c) \in Rows /\ book.rows[BookTotal(c)].concept = c)
<1> DEFINE rs == {r \in RowsOf(c) : WholeBook = WholeBook \/ book.rows[r].block = WholeBook}
           outs == {r \in rs : book.rows[r].out}
<1>1. rs \in SUBSET Nat /\ outs \in SUBSET Nat /\ outs \subseteq rs /\ \A r \in rs : r \in RowsOf(c)
  BY DEF RowsOf, Rows, WorkbookOK, Sound
<1>2. BookTotal(c) = IF rs = {} THEN NoRow ELSE IF outs = {} THEN Least(rs) ELSE Least(outs)
  BY DEF BookTotal, TotalIn, Representative
<1> HIDE DEF rs, outs
<1>3. rs # {} => Least(rs) \in rs
  BY <1>1, LeastIs
<1>4. outs # {} => Least(outs) \in outs
  BY <1>1, LeastIs
<1>5. BookTotal(c) = NoRow \/ BookTotal(c) \in RowsOf(c)
  BY <1>1, <1>2, <1>3, <1>4
<1> QED  BY <1>5 DEF RowsOf

(* The sum of a sequence adds one element at a time. *)
Adding(s, f) == f = [n \in 0..Len(s) |-> IF n = 0 THEN 0 ELSE f[n - 1] + s[n]]

LEMMA SumOfIs ==
  ASSUME NEW s \in Seq(Int)
  PROVE  \E f : Adding(s, f) /\ SumOf(s) = f[Len(s)]
<1> DEFINE N == Len(s)
           Upto(n, f) == f = [m \in 0..n |-> IF m = 0 THEN 0 ELSE f[m - 1] + s[m]]
           none == {n \in 0..N : ~\E f : Upto(n, f)}
<1>1. N \in Nat
  OBVIOUS
<1>2. ASSUME none # {} PROVE FALSE
  <2>1. PICK n \in none : \A m \in none : n <= m
    <3>1. none \in SUBSET Nat
      BY <1>1
    <3> HIDE DEF none
    <3> QED  BY <1>2, <3>1, LeastIs
  <2>2. n # 0
    <3>1. Upto(0, [m \in 0..0 |-> 0])
      OBVIOUS
    <3> QED  BY <2>1, <3>1
  <2>3. n - 1 \in 0..N /\ n \in 1..N /\ ~(n <= n - 1)
    BY <1>1, <2>1, <2>2
  <2>4. PICK f : Upto(n - 1, f)
    BY <2>1, <2>3
  <2> DEFINE g == [m \in 0..n |-> IF m = n THEN f[n - 1] + s[n] ELSE f[m]]
  <2>5. ASSUME NEW m \in 0..n PROVE g[m] = IF m = 0 THEN 0 ELSE g[m - 1] + s[m]
    <3>1. CASE m = n
      BY <2>3, <3>1
    <3>2. CASE m # n
      <4>1. m \in 0..(n - 1) /\ (m # 0 => m - 1 \in 0..n /\ m - 1 # n)
        BY <2>3, <3>2
      <4>2. f[m] = IF m = 0 THEN 0 ELSE f[m - 1] + s[m]
        BY <2>4, <4>1
      <4> QED  BY <2>3, <3>2, <4>1, <4>2
    <3> QED  BY <3>1, <3>2
  <2>6. Upto(n, g)
    BY <2>5
  <2> QED  BY <2>1, <2>6
<1>3. \E f : Adding(s, f)
  <2>1. N \in 0..N
    BY <1>1
  <2>2. PICK f : Upto(N, f)
    BY <1>2, <2>1
  <2> QED  BY <2>2 DEF Adding
<1> DEFINE sum == CHOOSE f : Adding(s, f)
<1>4. SumOf(s) = sum[Len(s)]
  BY DEF SumOf, Adding
<1>5. Adding(s, sum)
  BY <1>3
<1> HIDE DEF sum
<1> QED  BY <1>4, <1>5

(* More in each place is more in all. *)
LEMMA SumsRise ==
  ASSUME NEW N \in Nat, NEW s \in [1..N -> Int], NEW t \in [1..N -> Int], \A i \in 1..N : s[i] <= t[i]
  PROVE  SumOf(s) \in Int /\ SumOf(t) \in Int /\ SumOf(s) <= SumOf(t)
<1>1. s \in Seq(Int) /\ t \in Seq(Int) /\ Len(s) = N /\ Len(t) = N
  OBVIOUS
<1>2. PICK f : Adding(s, f) /\ SumOf(s) = f[N]
  BY <1>1, SumOfIs
<1>3. PICK g : Adding(t, g) /\ SumOf(t) = g[N]
  BY <1>1, SumOfIs
<1> DEFINE bad == {n \in 0..N : ~(f[n] \in Int /\ g[n] \in Int /\ f[n] <= g[n])}
<1>4. ASSUME bad # {} PROVE FALSE
  <2>1. PICK n \in bad : \A m \in bad : n <= m
    <3>1. bad \in SUBSET Nat
      OBVIOUS
    <3> HIDE DEF bad
    <3> QED  BY <1>4, <3>1, LeastIs
  <2>2. n \in 0..N /\ f[n] = (IF n = 0 THEN 0 ELSE f[n - 1] + s[n]) /\ g[n] = (IF n = 0 THEN 0 ELSE g[n - 1] + t[n])
    BY <1>1, <1>2, <1>3, <2>1 DEF Adding
  <2>3. n # 0
    BY <2>1, <2>2
  <2>4. n - 1 \in 0..N /\ n \in 1..N /\ ~(n <= n - 1)
    BY <2>2, <2>3
  <2>5. f[n - 1] \in Int /\ g[n - 1] \in Int /\ f[n - 1] <= g[n - 1]
    BY <2>1, <2>4
  <2>6. s[n] \in Int /\ t[n] \in Int /\ s[n] <= t[n]
    BY <2>4
  <2> QED  BY <2>1, <2>2, <2>3, <2>5, <2>6
<1>5. N \in 0..N
  OBVIOUS
<1> QED  BY <1>2, <1>3, <1>4, <1>5

-----------------------------------------------------------------------------
(* Fractions *)

Fraction == {p \in Int \X Int : p[2] > 0}

LEMMA FractionsCompare ==
  ASSUME NEW p \in Fraction, NEW q \in Fraction, NEW r \in Fraction
  PROVE  /\ AtMost(p, q) \/ AtMost(q, p)
         /\ AtMost(p, q) /\ AtMost(q, r) => AtMost(p, r)
         /\ AtMost(p, q) /\ Below(q, r) => Below(p, r)
<1>1. PICK a \in Int, b \in Int : p = <<a, b>> /\ b > 0
  BY DEF Fraction
<1>2. PICK c \in Int, d \in Int : q = <<c, d>> /\ d > 0
  BY DEF Fraction
<1>3. PICK e \in Int, f \in Int : r = <<e, f>> /\ f > 0
  BY DEF Fraction
<1>4. \A u, x, y \in Int : u > 0 /\ x <= y => u * x <= u * y
  OBVIOUS
<1>5. \A u, x, y \in Int : u > 0 /\ x < y => u * x < u * y
  OBVIOUS
<1>6. /\ a * d \in Int /\ c * b \in Int /\ c * f \in Int /\ e * d \in Int /\ a * f \in Int /\ e * b \in Int
      /\ f * (a * d) = d * (a * f) /\ f * (c * b) = b * (c * f) /\ b * (e * d) = d * (e * b)
  OBVIOUS
<1> HIDE DEF Fraction
<1>7. AtMost(p, q) \/ AtMost(q, p)
  BY <1>1, <1>2, <1>6 DEF AtMost
<1>8. ASSUME a * d <= c * b, c * f <= e * d PROVE a * f <= e * b
  <2>1. d * (a * f) <= d * (e * b)
    BY <1>1, <1>3, <1>4, <1>6, <1>8
  <2>2. ~(e * b < a * f)
    BY <1>2, <1>5, <1>6, <2>1
  <2> QED  BY <1>6, <2>2
<1>9. ASSUME a * d <= c * b, c * f < e * d PROVE a * f < e * b
  <2>1. d * (a * f) < d * (e * b)
    BY <1>1, <1>3, <1>4, <1>5, <1>6, <1>9
  <2>2. ~(e * b <= a * f)
    BY <1>2, <1>4, <1>6, <2>1
  <2> QED  BY <1>6, <2>2
<1> QED
  BY <1>1, <1>2, <1>3, <1>7, <1>8, <1>9 DEF AtMost, Below

(* Of a sequence of fractions one is the lowest. *)
LEMMA LowestIs ==
  ASSUME NEW N \in Nat \ {0}, NEW s \in [1..N -> Fraction]
  PROVE  Lowest(s) \in 1..N /\ \A j \in 1..N : AtMost(s[Lowest(s)], s[j])
<1> DEFINE Low(n, i) == i \in 1..n /\ \A j \in 1..n : AtMost(s[i], s[j])
           none == {n \in 1..N : ~\E i : Low(n, i)}
<1>1. ASSUME none # {} PROVE FALSE
  <2>1. PICK n \in none : \A m \in none : n <= m
    <3>1. none \in SUBSET Nat
      OBVIOUS
    <3> HIDE DEF none
    <3> QED  BY <1>1, <3>1, LeastIs
  <2>2. n \in 1..N
    OBVIOUS
  <2>3. n # 1
    <3>1. s[1] \in Fraction
      OBVIOUS
    <3>2. AtMost(s[1], s[1])
      BY <3>1, FractionsCompare
    <3>3. Low(1, 1)
      BY <3>2
    <3> QED  BY <2>1, <3>3
  <2>4. n - 1 \in 1..N /\ ~(n <= n - 1)
    BY <2>2, <2>3
  <2>5. PICK i : Low(n - 1, i)
    BY <2>1, <2>4
  <2>6. /\ s[i] \in Fraction /\ s[n] \in Fraction /\ i \in 1..n /\ \A j \in 1..n : s[j] \in Fraction
        /\ \A j \in 1..n : j # n => j \in 1..(n - 1)
    BY <2>2, <2>4, <2>5
  <2>7. CASE AtMost(s[i], s[n])
    <3>1. Low(n, i)
      BY <2>5, <2>6, <2>7
    <3> QED  BY <2>1, <3>1
  <2>8. CASE ~AtMost(s[i], s[n])
    <3>1. AtMost(s[n], s[i]) /\ AtMost(s[n], s[n])
      BY <2>6, <2>8, FractionsCompare
    <3>2. \A j \in 1..(n - 1) : AtMost(s[n], s[j])
      <4> TAKE j \in 1..(n - 1)
      <4>1. s[j] \in Fraction /\ AtMost(s[i], s[j])
        BY <2>5, <2>6
      <4> QED  BY <2>6, <3>1, <4>1, FractionsCompare
    <3>3. Low(n, n)
      BY <2>2, <2>6, <3>1, <3>2
    <3> QED  BY <2>1, <3>3
  <2> QED  BY <2>7, <2>8
<1>2. PICK i : Low(N, i)
  <2>1. N \in 1..N
    OBVIOUS
  <2> QED  BY <1>1, <2>1
<1> DEFINE lows == {k \in DOMAIN s : \A j \in DOMAIN s : AtMost(s[k], s[j])}
<1>3. lows \in SUBSET Nat /\ lows # {} /\ \A k \in lows : k \in 1..N /\ \A j \in 1..N : AtMost(s[k], s[j])
  BY <1>2
<1>4. Lowest(s) = Least(lows)
  BY DEF Lowest
<1> HIDE DEF lows
<1>5. Least(lows) \in lows
  BY <1>3, LeastIs
<1> QED
  BY <1>3, <1>4, <1>5

-----------------------------------------------------------------------------
(* A row's amounts *)

(* The cells of a concept, and a step that raises numbers of them at most. *)
OfConcept(c) == {p \in DOMAIN book.val : book.rows[p[1]].concept = c}
Raised(c) == Edited(OfConcept(c)) /\ \A p \in DOMAIN book.val : book.val[p] <= book'.val[p]

(* A known amount cites known cells; one amount is another or more. *)
Cited(a) == /\ a.val \in Int
            /\ a.known => Cells(a) # {} /\ Cells(a) \subseteq DOMAIN book.val
Grown(a, b) == /\ b.known <=> a.known
               /\ b.refs = a.refs
               /\ a.val \in Int /\ b.val \in Int /\ a.val <= b.val

LEMMA AxisIs ==
  ASSUME WorkbookOK, NEW r \in Rows
  PROVE  AxisOf(r) \in Seq(Header) /\ Len(AxisOf(r)) \in Nat /\ DOMAIN AxisOf(r) = 1..Len(AxisOf(r))
<1>1. AxisOf(r) \in Seq(Header)
  BY DEF WorkbookOK, Sound, Rows, AxisOf
<1> HIDE DEF AxisOf
<1> QED  BY <1>1

(* The headers of a year are a sequence. *)
LEMMA HeadersByIs ==
  ASSUME NEW ax \in Seq(Header), NEW ks
  PROVE  Cardinality({i \in DOMAIN ax : ax[i].role \in PeriodRoles /\ ax[i].key \in ks}) \in Nat
         /\ DOMAIN HeadersBy(ax, ks) = 1..Cardinality({i \in DOMAIN ax : ax[i].role \in PeriodRoles /\ ax[i].key \in ks})
<1> DEFINE hits == {i \in DOMAIN ax : ax[i].role \in PeriodRoles /\ ax[i].key \in ks}
<1>1. hits \in SUBSET (1..Len(ax)) /\ Len(ax) \in Nat
  OBVIOUS
<1>2. DOMAIN HeadersBy(ax, ks) = 1..Cardinality(hits)
  BY DEF HeadersBy
<1> HIDE DEF hits
<1>3. Cardinality(hits) \in Nat
  <2>1. IsFiniteSet(1..Len(ax))
    BY <1>1, FS_Interval
  <2>2. IsFiniteSet(hits)
    BY <1>1, <2>1, FS_Subset
  <2> QED  BY <2>2, FS_CardinalityType
<1> QED  BY <1>2, <1>3 DEF hits

(* The cells of a row in columns that have numbers. *)
NumberCells(r, cols) == Among([i \in DOMAIN cols |-> <<r, cols[i]>>], DOMAIN book.val)

LEMMA NumberCellsAre ==
  ASSUME NEW r, NEW N \in Nat, NEW cols, DOMAIN cols = 1..N
  PROVE  /\ \E n \in Nat : DOMAIN NumberCells(r, cols) = 1..n
         /\ \A i \in DOMAIN NumberCells(r, cols) : /\ NumberCells(r, cols)[i] \in DOMAIN book.val
                                                   /\ NumberCells(r, cols)[i][1] = r
         /\ NumberCells(r, cols) # <<>> => Len(NumberCells(r, cols)) \in DOMAIN NumberCells(r, cols)
<1> DEFINE cells == [i \in DOMAIN cols |-> <<r, cols[i]>>]
           refs == NumberCells(r, cols)
<1>1. refs = Among(cells, DOMAIN book.val)
  BY DEF NumberCells
<1>2. DOMAIN cells = 1..N /\ \A i \in 1..N : cells[i][1] = r
  OBVIOUS
<1> HIDE DEF cells
<1>3. /\ \E n \in Nat : DOMAIN refs = 1..n
      /\ \A i \in DOMAIN refs : refs[i] \in DOMAIN book.val /\ \E j \in 1..N : refs[i] = cells[j]
  BY <1>1, <1>2, AmongIs
<1>4. refs = [n \in DOMAIN refs |-> refs[n]]
  BY <1>1 DEF Among
<1> HIDE DEF refs
<1>5. PICK n \in Nat : DOMAIN refs = 1..n
  BY <1>3
<1>6. refs # <<>> => n # 0 /\ Len(refs) = n
  BY <1>4, <1>5
<1> QED
  BY <1>2, <1>3, <1>5, <1>6 DEF refs

LEMMA MergeCited ==
  ASSUME WorkbookOK, NEW r, NEW stock, NEW N \in Nat, NEW cols, DOMAIN cols = 1..N
  PROVE  Cited(Merge(r, stock, cols))
<1> DEFINE refs == NumberCells(r, cols)
           end == refs[Len(refs)]
<1>1. Merge(r, stock, cols) = IF refs = <<>> THEN NoAmount
                              ELSE IF stock THEN Amount(TRUE, Val(end), <<end>>)
                              ELSE Amount(TRUE, Total(refs, Val), refs)
  BY DEF Merge, NumberCells
<1>2. /\ \A i \in DOMAIN refs : refs[i] \in DOMAIN book.val
      /\ refs # <<>> => Len(refs) \in DOMAIN refs
      /\ \E n \in Nat : DOMAIN refs = 1..n
  BY NumberCellsAre
<1> HIDE DEF refs
<1>6. \A p \in DOMAIN book.val : Val(p) \in Int
  BY DEF WorkbookOK, Sound, Val
<1>7. Total(refs, Val) \in Int
  <2>1. PICK n \in Nat : DOMAIN refs = 1..n
    BY <1>2
  <2> DEFINE s == [i \in DOMAIN refs |-> Val(refs[i])]
  <2>2. s \in [1..n -> Int]
    BY <1>2, <1>6, <2>1
  <2> HIDE DEF s
  <2>3. \A i \in 1..n : s[i] <= s[i]
    BY <2>2
  <2>4. SumOf(s) \in Int
    BY <2>2, <2>3, SumsRise
  <2> QED  BY <2>4 DEF Total, s
<1>3. CASE refs = <<>>
  BY <1>1, <1>3 DEF NoAmount, Amount, Cited
<1>4. CASE refs # <<>> /\ stock
  <2>1. Merge(r, stock, cols).refs = <<end>> /\ Merge(r, stock, cols).val = Val(end)
    BY <1>1, <1>4 DEF Amount
  <2>2. Cells(Merge(r, stock, cols)) = {end}
    BY <2>1 DEF Cells, Members
  <2> QED  BY <1>2, <1>4, <1>6, <2>1, <2>2 DEF Cited
<1>5. CASE refs # <<>> /\ ~stock
  <2>1. Merge(r, stock, cols).refs = refs /\ Merge(r, stock, cols).val = Total(refs, Val)
    BY <1>1, <1>5 DEF Amount
  <2>2. Cells(Merge(r, stock, cols)) = {refs[i] : i \in DOMAIN refs}
    BY <2>1 DEF Cells, Members
  <2> QED  BY <1>2, <1>5, <1>7, <2>1, <2>2 DEF Cited
<1> QED
  BY <1>3, <1>4, <1>5

LEMMA MergeRaised ==
  ASSUME WorkbookOK, WorkbookOK', NEW c, Raised(c), NEW r, NEW stock, NEW N \in Nat, NEW cols, DOMAIN cols = 1..N
  PROVE  /\ Grown(Merge(r, stock, cols), Merge(r, stock, cols)')
         /\ book.rows[r].concept # c => Merge(r, stock, cols)' = Merge(r, stock, cols)
<1> DEFINE refs == NumberCells(r, cols)
           end == refs[Len(refs)]
           nums == [i \in DOMAIN refs |-> Val(refs[i])]
           amount == IF refs = <<>> THEN NoAmount
                     ELSE IF stock THEN Amount(TRUE, Val(end), <<end>>)
                     ELSE Amount(TRUE, SumOf(nums), refs)
<1>1. Merge(r, stock, cols) = amount
  BY DEF Merge, Total, NumberCells
<1>2. Merge(r, stock, cols)' = amount'
  BY DEF Merge, Total, NumberCells
<1>3. refs' = refs
  BY DEF Raised, Edited, NumberCells
<1>4. /\ \E n \in Nat : DOMAIN refs = 1..n
      /\ \A i \in DOMAIN refs : refs[i] \in DOMAIN book.val /\ refs[i][1] = r
      /\ refs # <<>> => Len(refs) \in DOMAIN refs
  BY NumberCellsAre
<1> HIDE DEF refs
<1>5. PICK n \in Nat : DOMAIN refs = 1..n
  BY <1>4
<1>6. \A p \in DOMAIN book.val : /\ Val(p) \in Int /\ Val(p)' \in Int /\ Val(p) <= Val(p)'
                                 /\ book.rows[p[1]].concept # c => Val(p)' = Val(p)
  BY DEF Raised, Edited, OfConcept, WorkbookOK, Sound, Val
<1>7. \A i \in DOMAIN refs : Val(refs[i])' = book'.val[refs[i]]
  BY <1>3 DEF Val
<1>8. nums' = [i \in DOMAIN refs |-> Val(refs[i])']
  BY <1>3 DEF Val
<1>9. /\ nums \in [1..n -> Int] /\ nums' \in [1..n -> Int]
      /\ \A i \in 1..n : nums[i] <= nums'[i]
  BY <1>3, <1>4, <1>5, <1>6, <1>8 DEF Val
<1>10. book.rows[r].concept # c => nums' = nums
  <2>1. \A i \in DOMAIN refs : refs[i] \in DOMAIN book.val /\ refs[i][1] = r
    BY <1>4
  <2> QED  BY <1>3, <1>6, <1>8, <2>1 DEF Val
<1> HIDE DEF nums
<1>11. SumOf(nums) \in Int /\ SumOf(nums') \in Int /\ SumOf(nums) <= SumOf(nums')
  BY <1>9, SumsRise
<1>12. end' = end
  BY <1>3
<1>13. ASSUME refs # <<>>
       PROVE  /\ Val(end) \in Int /\ Val(end)' \in Int /\ Val(end) <= Val(end)'
              /\ book.rows[r].concept # c => Val(end)' = Val(end)
  <2>1. end \in DOMAIN book.val /\ end[1] = r
    BY <1>4, <1>13
  <2> QED  BY <1>6, <1>12, <2>1 DEF Val
<1>14. amount' = IF refs = <<>> THEN NoAmount
                 ELSE IF stock THEN Amount(TRUE, Val(end)', <<end>>)
                 ELSE Amount(TRUE, SumOf(nums'), refs)
  BY <1>3, <1>12 DEF SumOf, NoAmount, Amount
<1> HIDE DEF end
<1>15. Grown(amount, amount')
  BY <1>11, <1>13, <1>14 DEF Grown, NoAmount, Amount
<1>16. book.rows[r].concept # c => amount' = amount
  BY <1>10, <1>13, <1>14
<1> HIDE DEF amount
<1> QED
  BY <1>1, <1>2, <1>15, <1>16

LEMMA OfMonthsAre ==
  ASSUME WorkbookOK, NEW r, NEW stock, NEW N \in Nat, NEW hs, DOMAIN hs = 1..N
  PROVE  Cited(OfMonths(r, stock, hs))
<1>1. DOMAIN ColsOf(hs) = 1..N
  BY DEF ColsOf
<1> QED  BY <1>1, MergeCited DEF OfMonths

LEMMA OfQuartersAre ==
  ASSUME WorkbookOK, NEW r, NEW stock, NEW y, NEW hs
  PROVE  Cited(OfQuarters(r, stock, y, hs))
<1> DEFINE cols == [q \in 1..4 |-> hs[Greatest({i \in DOMAIN hs : hs[i].key = YearKey(y) + 20 + q})].col]
<1>1. OfQuarters(r, stock, y, hs)
        = IF Complete([i \in DOMAIN hs |-> hs[i].key], y) THEN Merge(r, stock, cols) ELSE NoAmount
  BY DEF OfQuarters
<1>2. DOMAIN cols = 1..4 /\ 4 \in Nat
  OBVIOUS
<1> HIDE DEF cols
<1>3. Cited(Merge(r, stock, cols))
  BY <1>2, MergeCited
<1>4. Cited(NoAmount)
  BY DEF Cited, NoAmount, Amount
<1> QED  BY <1>1, <1>3, <1>4

LEMMA OfMonthsRaised ==
  ASSUME WorkbookOK, WorkbookOK', NEW c, Raised(c), NEW r, NEW stock, NEW N \in Nat, NEW hs, DOMAIN hs = 1..N
  PROVE  /\ Grown(OfMonths(r, stock, hs), OfMonths(r, stock, hs)')
         /\ book.rows[r].concept # c => OfMonths(r, stock, hs)' = OfMonths(r, stock, hs)
<1>1. DOMAIN ColsOf(hs) = 1..N
  BY DEF ColsOf
<1> QED  BY <1>1, MergeRaised DEF OfMonths

LEMMA NoAmountGrown == Grown(NoAmount, NoAmount)
BY DEF Grown, NoAmount, Amount

LEMMA OfQuartersRaised ==
  ASSUME WorkbookOK, WorkbookOK', NEW c, Raised(c), NEW r, NEW stock, NEW y, NEW hs
  PROVE  /\ Grown(OfQuarters(r, stock, y, hs), OfQuarters(r, stock, y, hs)')
         /\ book.rows[r].concept # c => OfQuarters(r, stock, y, hs)' = OfQuarters(r, stock, y, hs)
<1> DEFINE cols == [q \in 1..4 |-> hs[Greatest({i \in DOMAIN hs : hs[i].key = YearKey(y) + 20 + q})].col]
           full == Complete([i \in DOMAIN hs |-> hs[i].key], y)
<1>1. /\ OfQuarters(r, stock, y, hs) = IF full THEN Merge(r, stock, cols) ELSE NoAmount
      /\ OfQuarters(r, stock, y, hs)' = IF full THEN Merge(r, stock, cols)' ELSE NoAmount
  BY DEF OfQuarters, NoAmount, Amount
<1>2. DOMAIN cols = 1..4 /\ 4 \in Nat
  OBVIOUS
<1> HIDE DEF cols, full
<1>3. /\ Grown(Merge(r, stock, cols), Merge(r, stock, cols)')
      /\ book.rows[r].concept # c => Merge(r, stock, cols)' = Merge(r, stock, cols)
  BY <1>2, MergeRaised
<1> QED  BY <1>1, <1>3, NoAmountGrown

(* The amount of a row in a period cites known cells. *)
LEMMA YearAmountCited ==
  ASSUME WorkbookOK, NEW r \in Rows, NEW k
  PROVE  Cited(YearAmount(r, k))
<1> DEFINE ax == AxisOf(r)
           named == {i \in DOMAIN ax : ax[i].key = k}
           cell == <<r, ax[Least(named)].col>>
           stock == book.rows[r].concept \in StockConcepts
           ofMonths == HeadersBy(ax, {j \in {h.key : h \in Members(ax)} : IsMonth(j) /\ Year(j) = Year(k)})
           ofQuarters == HeadersBy(ax, {j \in {h.key : h \in Members(ax)} : IsQuarter(j) /\ Year(j) = Year(k)})
           monthly == \E i \in DOMAIN ax : ax[i].role \in PeriodRoles /\ IsMonth(ax[i].key) /\ Year(ax[i].key) = Year(k)
<1>1. YearAmount(r, k) =
        IF named # {} THEN Amount(Known(cell), IF Known(cell) THEN Val(cell) ELSE 0, <<cell>>)
        ELSE IF ~IsYear(k) THEN NoAmount
        ELSE IF monthly THEN OfMonths(r, stock, ofMonths) ELSE OfQuarters(r, stock, Year(k), ofQuarters)
  BY DEF YearAmount
<1>2. \E N \in Nat : DOMAIN ofMonths = 1..N
  BY AxisIs, HeadersByIs
<1>3. Cited(OfMonths(r, stock, ofMonths))
  BY <1>2, OfMonthsAre
<1>4. Cited(OfQuarters(r, stock, Year(k), ofQuarters)) /\ Cited(NoAmount)
  <2>1. Cited(OfQuarters(r, stock, Year(k), ofQuarters))
    BY OfQuartersAre
  <2>2. Cited(NoAmount)
    BY DEF Cited, NoAmount, Amount
  <2> QED  BY <2>1, <2>2
<1>5. Cited(Amount(Known(cell), IF Known(cell) THEN Val(cell) ELSE 0, <<cell>>))
  <2> DEFINE a == Amount(Known(cell), IF Known(cell) THEN Val(cell) ELSE 0, <<cell>>)
  <2> HIDE DEF cell
  <2>1. a.refs = <<cell>> /\ (a.known <=> Known(cell)) /\ a.val = IF Known(cell) THEN Val(cell) ELSE 0
    BY DEF Amount
  <2>2. Cells(a) = {cell}
    BY <2>1 DEF Cells, Members
  <2>3. a.val \in Int
    BY <2>1 DEF WorkbookOK, Sound, Val, Known
  <2> QED  BY <2>1, <2>2, <2>3 DEF Cited, Known
<1> HIDE DEF named, cell, stock, ofMonths, ofQuarters, monthly
<1> QED  BY <1>1, <1>3, <1>4, <1>5

LEMMA YearAmountRaised ==
  ASSUME WorkbookOK, WorkbookOK', NEW c, Raised(c), NEW r \in Rows, NEW k
  PROVE  /\ Grown(YearAmount(r, k), YearAmount(r, k)')
         /\ book.rows[r].concept # c => YearAmount(r, k)' = YearAmount(r, k)
<1> DEFINE ax == AxisOf(r)
           named == {i \in DOMAIN ax : ax[i].key = k}
           cell == <<r, ax[Least(named)].col>>
           stock == book.rows[r].concept \in StockConcepts
           ofMonths == HeadersBy(ax, {j \in {h.key : h \in Members(ax)} : IsMonth(j) /\ Year(j) = Year(k)})
           ofQuarters == HeadersBy(ax, {j \in {h.key : h \in Members(ax)} : IsQuarter(j) /\ Year(j) = Year(k)})
           monthly == \E i \in DOMAIN ax : ax[i].role \in PeriodRoles /\ IsMonth(ax[i].key) /\ Year(ax[i].key) = Year(k)
           direct == Amount(Known(cell), IF Known(cell) THEN Val(cell) ELSE 0, <<cell>>)
<1>1. YearAmount(r, k) =
        IF named # {} THEN direct
        ELSE IF ~IsYear(k) THEN NoAmount
        ELSE IF monthly THEN OfMonths(r, stock, ofMonths) ELSE OfQuarters(r, stock, Year(k), ofQuarters)
  BY DEF YearAmount
<1>2. YearAmount(r, k)' =
        IF named' # {} THEN direct'
        ELSE IF ~IsYear(k) THEN NoAmount
        ELSE IF monthly' THEN OfMonths(r, stock, ofMonths)' ELSE OfQuarters(r, stock, Year(k), ofQuarters)'
  BY DEF YearAmount, NoAmount, Amount
<1>3. ax' = ax /\ stock' = stock
  BY DEF Raised, Edited, AxisOf
<1>4. named' = named /\ cell' = cell /\ ofMonths' = ofMonths /\ ofQuarters' = ofQuarters /\ (monthly' <=> monthly)
  BY <1>3
<1>5. \E N \in Nat : DOMAIN ofMonths = 1..N
  BY AxisIs, HeadersByIs
<1> HIDE DEF named, stock, ofMonths, ofQuarters, monthly
<1>6. /\ Grown(OfMonths(r, stock, ofMonths), OfMonths(r, stock, ofMonths)')
      /\ book.rows[r].concept # c => OfMonths(r, stock, ofMonths)' = OfMonths(r, stock, ofMonths)
  BY <1>3, <1>4, <1>5, OfMonthsRaised
<1>7. /\ Grown(OfQuarters(r, stock, Year(k), ofQuarters), OfQuarters(r, stock, Year(k), ofQuarters)')
      /\ book.rows[r].concept # c => OfQuarters(r, stock, Year(k), ofQuarters)' = OfQuarters(r, stock, Year(k), ofQuarters)
  BY <1>3, <1>4, OfQuartersRaised
<1>8. Grown(direct, direct') /\ (book.rows[r].concept # c => direct' = direct)
  <2>0. cell[1] = r
    OBVIOUS
  <2> HIDE DEF cell
  <2>1. Known(cell)' <=> Known(cell)
    BY <1>4 DEF Raised, Edited, Known
  <2>2. Known(cell) => Val(cell) \in Int /\ Val(cell)' \in Int /\ Val(cell) <= Val(cell)'
    BY <1>4, <2>1 DEF Raised, Edited, Known, Val, WorkbookOK, Sound
  <2>3. Known(cell) /\ book.rows[r].concept # c => Val(cell)' = Val(cell)
    BY <1>4, <2>0 DEF Raised, Edited, OfConcept, Known, Val
  <2>4. CASE Known(cell)
    <3>1. direct = Amount(TRUE, Val(cell), <<cell>>) /\ direct' = Amount(TRUE, Val(cell)', <<cell>>)
      BY <1>4, <2>1, <2>4 DEF Amount
    <3> QED  BY <2>2, <2>3, <2>4, <3>1 DEF Grown, Amount
  <2>5. CASE ~Known(cell)
    <3>0. Known(cell)' = Known(cell)
      BY <1>4 DEF Raised, Edited, Known
    <3>1. direct = [known |-> Known(cell), val |-> 0, refs |-> <<cell>>]
      BY <2>5 DEF Amount
    <3>2. direct' = [known |-> Known(cell), val |-> 0, refs |-> <<cell>>]
      BY <1>4, <2>5, <3>0 DEF Amount
    <3> HIDE DEF direct
    <3> QED  BY <3>1, <3>2 DEF Grown
  <2> QED  BY <2>4, <2>5
<1> HIDE DEF direct
<1> QED  BY <1>1, <1>2, <1>4, <1>6, <1>7, <1>8, NoAmountGrown

-----------------------------------------------------------------------------
(* The lines the controls read *)

(* The same row, periods and roles, with amounts that are the same or more. *)
Rises(l, m) == /\ m.row = l.row /\ m.cols = l.cols /\ m.role = l.role
               /\ \A k : Grown(At(l, k), At(m, k))

LEMMA LineCited ==
  ASSUME WorkbookOK, NEW r, r = NoRow \/ r \in Rows
  PROVE  \A k : Cited(At(Line(r), k))
<1> DEFINE periods == IF r = NoRow THEN {} ELSE UNION {{h.key, YearKey(Year(h.key))} : h \in Members(AxisOf(r))}
<1>1. Line(r).at = [k \in periods |-> YearAmount(r, k)]
  BY DEF Line
<1>2. r \notin Rows => periods = {}
  OBVIOUS
<1> HIDE DEF periods
<1>3. Cited(NoAmount)
  BY DEF Cited, NoAmount, Amount
<1> QED  BY <1>1, <1>2, <1>3, YearAmountCited DEF At

LEMMA LineRaised ==
  ASSUME WorkbookOK, WorkbookOK', NEW c, Raised(c), NEW r, r = NoRow \/ r \in Rows
  PROVE  /\ Rises(Line(r), Line(r)')
         /\ r = NoRow \/ book.rows[r].concept # c => Line(r)' = Line(r)
<1> DEFINE periods == IF r = NoRow THEN {} ELSE UNION {{h.key, YearKey(Year(h.key))} : h \in Members(AxisOf(r))}
           cols == IF r = NoRow THEN [k \in {} |-> 0] ELSE AxisCols(r, PeriodRoles)
           at == [k \in periods |-> YearAmount(r, k)]
           role == [k \in periods |-> PeriodRole(AxisOf(r), k)]
<1>1. /\ Line(r) = [row |-> r, cols |-> cols, at |-> at, role |-> role]
      /\ Line(r)' = [row |-> r, cols |-> cols', at |-> at', role |-> role']
  BY DEF Line, AxisCols, AxisOf
<1>2. AxisOf(r)' = AxisOf(r)
  BY DEF Raised, Edited, AxisOf
<1>3. periods' = periods /\ cols' = cols
  BY <1>2 DEF AxisCols
<1>4. role' = role
  BY <1>2, <1>3
<1>5. r \notin Rows => periods = {}
  OBVIOUS
<1> HIDE DEF periods, cols, role
<1>6. at' = [k \in periods |-> YearAmount(r, k)']
  BY <1>3
<1>7. \A k \in periods : /\ Grown(YearAmount(r, k), YearAmount(r, k)')
                         /\ book.rows[r].concept # c => YearAmount(r, k)' = YearAmount(r, k)
  BY <1>5, YearAmountRaised
<1>8. r = NoRow \/ book.rows[r].concept # c => at' = at
  <2>1. r = NoRow => periods = {}
    BY DEF periods
  <2> QED  BY <1>6, <1>7, <2>1
<1>9. ASSUME NEW k PROVE Grown(At(Line(r), k), At(Line(r)', k))
  <2>1. At(Line(r), k) = IF k \in periods THEN YearAmount(r, k) ELSE NoAmount
    BY <1>1 DEF At
  <2>2. At(Line(r)', k) = IF k \in periods THEN YearAmount(r, k)' ELSE NoAmount
    BY <1>1, <1>6 DEF At
  <2> QED  BY <1>7, <2>1, <2>2, NoAmountGrown
<1> HIDE DEF at
<1> QED  BY <1>1, <1>3, <1>4, <1>8, <1>9 DEF Rises

LEMMA LinesCited ==
  ASSUME WorkbookOK, NEW d \in FrsConcepts
  PROVE  \A k : Cited(At(Lines[d], k))
<1>1. Lines[d] = Line(BookTotal(d)) /\ (BookTotal(d) = NoRow \/ BookTotal(d) \in Rows)
  BY BookTotalIs DEF Lines
<1> QED  BY <1>1, LineCited

(* A correction upwards lets the amounts of its concept rise and keeps the *)
(* others.                                                                 *)
LEMMA LinesRaised ==
  ASSUME WorkbookOK, WorkbookOK', NEW c, Raised(c), NEW d \in FrsConcepts
  PROVE  /\ Rises(Lines[d], Lines'[d])
         /\ d # c => Lines'[d] = Lines[d]
<1> DEFINE r == BookTotal(d)
<1>1. r' = r
  BY TotalsStay DEF Raised, BookTotal
<1>2. r = NoRow \/ (r \in Rows /\ book.rows[r].concept = d)
  BY BookTotalIs
<1>3. Lines[d] = Line(r)
  BY DEF Lines
<1> HIDE DEF r
<1>4. Lines'[d] = Line(r)'
  BY <1>1 DEF Lines, r
<1> QED  BY <1>1, <1>2, <1>3, <1>4, LineRaised

-----------------------------------------------------------------------------
(* The controls that look for a shortfall *)

(* A control is flagged with cells and clear without any. *)
LEMMA FlagIs ==
  ASSUME NEW refs, NEW class, NEW priority
  PROVE  /\ Flag(refs, class, priority).status = "flagged" <=> refs # {}
         /\ Flag(refs, class, priority).refs = refs
         /\ Flag(refs, class, priority).priority = priority
BY DEF Flag, Finish, Result

(* An urgent issue is about a number of the workbook. *)
Urgent(r) == r.status = "flagged" /\ r.priority = "high" => r.refs \cap DOMAIN book.val # {}

(* F03 is flagged when two years in a row are at a loss. *)
Loss(e, k) == IsForecast(e, k) /\ At(e, k).known /\ At(e, k).val < 0
LossesInARow(e) ==
  \E i \in DOMAIN Pairs(YearKeys(<<e>>)) :
    LET p == Pairs(YearKeys(<<e>>))[i]
    IN  Loss(e, p[1]) /\ Loss(e, p[2]) /\ Cells(At(e, p[1])) \cup Cells(At(e, p[2])) # {}

LEMMA F03Is ==
  ASSUME NEW m
  PROVE  F03(m).status = "flagged" <=> LossesInARow(m["pnl.ebitda"])
<1> DEFINE e == m["pnl.ebitda"]
           s == Pairs(YearKeys(<<e>>))
           Refs(p) == IF Loss(e, p[1]) /\ Loss(e, p[2]) THEN Cells(At(e, p[1])) \cup Cells(At(e, p[2])) ELSE {}
           hits == {i \in DOMAIN s : Refs(s[i]) # {}}
           found == IF hits = {} THEN {} ELSE Refs(s[Least(hits)])
<1>1. F03(m) = Flag(found, "assumptions", "medium")
  BY DEF F03, FirstHit, Loss
<1>2. DOMAIN s \subseteq Nat
  BY DEF Pairs
<1> HIDE DEF s
<1>3. hits \in SUBSET Nat
  BY <1>2
<1>4. LossesInARow(e) <=> hits # {}
  BY DEF LossesInARow, s
<1>5. \A i \in hits : Refs(s[i]) # {}
  OBVIOUS
<1> HIDE DEF hits, Refs
<1>6. hits # {} => found # {}
  BY <1>3, <1>5, LeastIs
<1> QED  BY <1>1, <1>4, <1>6, FlagIs

(* Higher EBITDA makes no loss. *)
LEMMA F03Kept ==
  ASSUME NEW m, NEW n, Rises(m["pnl.ebitda"], n["pnl.ebitda"]), F03(n).status = "flagged"
  PROVE  F03(m).status = "flagged"
<1> DEFINE e == m["pnl.ebitda"]
           f == n["pnl.ebitda"]
<1>1. LossesInARow(f)
  BY F03Is
<1>2. YearKeys(<<f>>) = YearKeys(<<e>>)
  <2>1. {k \in DOMAIN <<f>>[1].cols : \A i \in DOMAIN <<f>> : k \in DOMAIN <<f>>[i].cols}
          = {k \in DOMAIN <<e>>[1].cols : \A i \in DOMAIN <<e>> : k \in DOMAIN <<e>>[i].cols}
    BY DEF Rises
  <2>2. Shared(<<f>>) = Shared(<<e>>)
    BY <2>1 DEF Shared
  <2> QED  BY <2>2 DEF YearKeys
<1> HIDE DEF e, f
<1>3. Rises(e, f)
  BY DEF e, f
<1>4. \A k : Cells(At(f, k)) = Cells(At(e, k)) /\ (Loss(f, k) => Loss(e, k))
  BY <1>3 DEF Rises, Grown, Cells, Loss, IsForecast, RoleIn
<1>5. LossesInARow(e)
  BY <1>1, <1>2, <1>4 DEF LossesInARow
<1> QED  BY <1>5, F03Is DEF e

-----------------------------------------------------------------------------
(* Keys and periods are finite sequences *)

LEMMA ValuesFinite ==
  ASSUME NEW f, IsFiniteSet(DOMAIN f)
  PROVE  IsFiniteSet({f[x] : x \in DOMAIN f})
<1> DEFINE T == {f[x] : x \in DOMAIN f}
           g == [x \in DOMAIN f |-> f[x]]
<1>1. g \in Surjection(DOMAIN f, T)
  BY DEF Surjection
<1> QED  BY <1>1, FS_Surjection

(* The columns of a line are keyed by finitely many periods. *)
Keyed(l) == DOMAIN l.cols \in SUBSET Int /\ IsFiniteSet(DOMAIN l.cols)

LEMMA AxisColsKeyed ==
  ASSUME WorkbookOK, NEW r \in Rows, NEW roles
  PROVE  DOMAIN AxisCols(r, roles) \in SUBSET Int /\ IsFiniteSet(DOMAIN AxisCols(r, roles))
<1> DEFINE ax == AxisOf(r)
           kept == {i \in DOMAIN ax : ax[i].role \in roles}
           key == [i \in kept |-> ax[i].key]
<1> DEFINE N == Len(ax)
<1>1. kept \in SUBSET (1..N) /\ N \in Nat /\ \A i \in kept : ax[i].key \in Int
  <2>1. ax \in Seq(Header) /\ N \in Nat /\ DOMAIN ax = 1..N
    BY AxisIs
  <2> HIDE DEF ax, N
  <2>2. \A i \in 1..N : ax[i] \in Header
    BY <2>1
  <2>3. \A i \in 1..N : ax[i].key \in Int
    BY <2>2 DEF Header
  <2> QED  BY <2>1, <2>3
<1>2. DOMAIN AxisCols(r, roles) = {ax[i].key : i \in kept}
  BY DEF AxisCols, KeyCols
<1> HIDE DEF kept, ax, N
<1>3. IsFiniteSet(kept)
  <2>1. 1 \in Int /\ N \in Int
    BY <1>1
  <2>2. IsFiniteSet(1..N)
    BY <2>1, FS_Interval
  <2> QED  BY <1>1, <2>2, FS_Subset
<1>4. DOMAIN key = kept /\ {key[i] : i \in kept} = {ax[i].key : i \in kept}
  OBVIOUS
<1> HIDE DEF key
<1>5. IsFiniteSet({ax[i].key : i \in kept})
  BY <1>3, <1>4, ValuesFinite
<1> QED  BY <1>1, <1>2, <1>5

LEMMA LinesKeyed ==
  ASSUME WorkbookOK, NEW d \in FrsConcepts
  PROVE  Keyed(Lines[d])
<1>1. Lines[d] = Line(BookTotal(d)) /\ (BookTotal(d) = NoRow \/ BookTotal(d) \in Rows)
  BY BookTotalIs DEF Lines
<1>2. Line(BookTotal(d)).cols = IF BookTotal(d) = NoRow THEN [k \in {} |-> 0] ELSE AxisCols(BookTotal(d), PeriodRoles)
  BY DEF Line
<1>3. CASE BookTotal(d) = NoRow
  BY <1>1, <1>2, <1>3, FS_EmptySet DEF Keyed
<1>4. CASE BookTotal(d) # NoRow
  BY <1>1, <1>2, <1>4, AxisColsKeyed DEF Keyed
<1> QED  BY <1>3, <1>4

(* A sequence of keys. *)
Keys(s) == \E n \in Nat : s \in [1..n -> Int]

LEMMA OrderedKeys ==
  ASSUME NEW S \in SUBSET Int, IsFiniteSet(S)
  PROVE  Keys(Ordered(S))
<1>1. Ordered(S) = [i \in DOMAIN Ordered(S) |-> Ordered(S)[i]]
  BY DEF Ordered
<1> QED  BY <1>1, OrderedIs DEF Keys

LEMMA AmongKeys ==
  ASSUME NEW s, Keys(s), NEW T
  PROVE  Keys(Among(s, T))
<1>1. PICK N \in Nat : s \in [1..N -> Int]
  BY DEF Keys
<1>2. Among(s, T) = [i \in DOMAIN Among(s, T) |-> Among(s, T)[i]]
  BY DEF Among
<1>3. /\ \E n \in Nat : DOMAIN Among(s, T) = 1..n
      /\ \A i \in DOMAIN Among(s, T) : \E j \in 1..N : Among(s, T)[i] = s[j]
  BY <1>1, AmongIs
<1> QED  BY <1>1, <1>2, <1>3 DEF Keys

LEMMA SharedKeysAre ==
  ASSUME NEW ls, Keyed(ls[1])
  PROVE  Keys(Shared(ls))
<1> DEFINE S == {k \in DOMAIN ls[1].cols : \A i \in DOMAIN ls : k \in DOMAIN ls[i].cols}
<1>1. S \in SUBSET DOMAIN ls[1].cols /\ S \in SUBSET Int
  BY DEF Keyed
<1>2. Shared(ls) = Ordered(S)
  BY DEF Shared
<1> HIDE DEF S
<1>3. IsFiniteSet(S)
  BY <1>1, FS_Subset DEF Keyed
<1> QED  BY <1>1, <1>2, <1>3, OrderedKeys

LEMMA KeyYearsAre ==
  ASSUME NEW keys, Keys(keys), NEW S \in SUBSET Members(keys)
  PROVE  LET years == {Year(k) : k \in S} IN years \in SUBSET Int /\ IsFiniteSet(years)
<1> DEFINE year == [k \in S |-> Year(k)]
<1>1. PICK N \in Nat : keys \in [1..N -> Int]
  BY DEF Keys
<1>2. IsFiniteSet(Members(keys)) /\ Members(keys) \in SUBSET Int
  <2>1. DOMAIN keys = 1..N /\ IsFiniteSet(1..N)
    BY <1>1, FS_Interval
  <2>2. IsFiniteSet(Members(keys))
    BY <2>1, ValuesFinite DEF Members
  <2> QED  BY <1>1, <2>2 DEF Members
<1>3. IsFiniteSet(S)
  BY <1>2, FS_Subset
<1>4. DOMAIN year = S /\ {year[k] : k \in S} = {Year(k) : k \in S}
  OBVIOUS
<1> HIDE DEF year
<1>5. IsFiniteSet({Year(k) : k \in S})
  BY <1>3, <1>4, ValuesFinite
<1>6. \A k \in S : Year(k) \in Int
  BY <1>2 DEF Year
<1> QED  BY <1>5, <1>6

LEMMA YearsAmongAre ==
  ASSUME NEW keys, Keys(keys)
  PROVE  \E n \in Nat : DOMAIN YearsAmong(keys) = 1..n
<1> DEFINE direct == Among(keys, {k \in Members(keys) : ~IsMonth(k) /\ ~IsQuarter(k)})
           quarters == {Year(k) : k \in {j \in Members(keys) : IsQuarter(j)}}
           months == {Year(k) : k \in {j \in Members(keys) : IsMonth(j)}}
           whole == Ordered({y \in quarters : Complete(keys, y) /\ YearKey(y) \notin Members(direct)})
           years == Ordered(months)
           own == [i \in DOMAIN direct |-> [key |-> direct[i], from |-> direct[i]]]
           added == [i \in DOMAIN whole |-> [key |-> YearKey(whole[i]), from |-> YearKey(whole[i]) + 21]]
           full == own \o added
           split == [i \in DOMAIN years |-> [key |-> YearKey(years[i]),
                                             from |-> Greatest({k \in Members(keys) : IsMonth(k) /\ Year(k) = years[i]})]]
<1>1. YearsAmong(keys) = IF full # <<>> THEN full ELSE split
  BY DEF YearsAmong, OrElse, FullYears, MonthYears, YearsOf
<1>2. Keys(direct)
  BY AmongKeys
<1>3. quarters \in SUBSET Int /\ IsFiniteSet(quarters) /\ months \in SUBSET Int /\ IsFiniteSet(months)
  BY KeyYearsAre
<1>4. Keys(whole)
  <2> DEFINE S == {y \in quarters : Complete(keys, y) /\ YearKey(y) \notin Members(direct)}
  <2>1. S \in SUBSET quarters
    OBVIOUS
  <2> HIDE DEF S, quarters
  <2>2. S \in SUBSET Int /\ IsFiniteSet(S)
    BY <1>3, <2>1, FS_Subset
  <2>3. Keys(Ordered(S))
    BY <2>2, OrderedKeys
  <2> QED  BY <2>3 DEF S
<1>5. Keys(years)
  BY <1>3, OrderedKeys
<1> DEFINE Slot == [key : Int, from : Int]
<1> HIDE DEF direct, whole, years
<1>6. own \in Seq(Slot)
  <2>1. PICK n \in Nat : direct \in [1..n -> Int]
    BY <1>2 DEF Keys
  <2>2. own \in [1..n -> Slot]
    BY <2>1
  <2> HIDE DEF own, Slot
  <2> QED  BY <2>2
<1>7. added \in Seq(Slot)
  <2>1. PICK n \in Nat : whole \in [1..n -> Int]
    BY <1>4 DEF Keys
  <2>2. \A i \in 1..n : whole[i] \in Int /\ YearKey(whole[i]) \in Int
    BY <2>1 DEF YearKey
  <2>3. added \in [1..n -> Slot]
    BY <2>1, <2>2
  <2> HIDE DEF added, Slot
  <2> QED  BY <2>3
<1>8. full \in Seq(Slot)
  BY <1>6, <1>7
<1>9. DOMAIN full = 1..Len(full) /\ Len(full) \in Nat
  BY <1>8
<1>10. \E n \in Nat : DOMAIN split = 1..n
  BY <1>5 DEF Keys
<1> HIDE DEF full, split
<1> QED  BY <1>1, <1>9, <1>10

LEMMA YearKeysAre ==
  ASSUME NEW ls, Keyed(ls[1])
  PROVE  \E n \in Nat : DOMAIN YearKeys(ls) = 1..n
BY SharedKeysAre, YearsAmongAre DEF YearKeys, KeysOf

-----------------------------------------------------------------------------
(* F07 is flagged when a cover row falls below one, or in some year the    *)
(* EBITDA below one and a half of the interest.                            *)
Icr(e, i, k) == Frac(At(e, k).val, Abs(At(i, k).val))
ThinYears(e, i, keys) == {k \in Members(keys) : Below(Icr(e, i, k), IcrFloor)}

(* The keys are years with both amounts, and the interest is not zero. *)
Comparable(e, i, keys) ==
  \A k \in Members(keys) : /\ At(e, k).known /\ At(e, k).val \in Int /\ Cells(At(e, k)) \cap DOMAIN book.val # {}
                           /\ At(i, k).val \in Int /\ At(i, k).val # 0

LEMMA IcrIs ==
  ASSUME NEW e, NEW i, NEW k, At(e, k).val \in Int, At(i, k).val \in Int, At(i, k).val # 0
  PROVE  /\ Icr(e, i, k) = <<At(e, k).val, Abs(At(i, k).val)>>
         /\ Abs(At(i, k).val) \in Int /\ Abs(At(i, k).val) > 0
         /\ Icr(e, i, k) \in Fraction
<1>1. Abs(At(i, k).val) \in Int /\ Abs(At(i, k).val) > 0
  BY DEF Abs
<1>2. Icr(e, i, k) = <<At(e, k).val, Abs(At(i, k).val)>>
  BY <1>1 DEF Icr, Frac
<1> QED  BY <1>1, <1>2 DEF Fraction

LEMMA ThinCoverIs ==
  ASSUME NEW e, NEW i, NEW N \in Nat, NEW S, NEW keys \in [1..N -> S], Comparable(e, i, keys)
  PROVE  /\ ThinCover(e, i, keys).refs # {} <=> ThinYears(e, i, keys) # {}
         /\ ThinCover(e, i, keys).refs # {} => ThinCover(e, i, keys).refs \cap DOMAIN book.val # {}
         /\ ThinCover(e, i, keys).short => ThinCover(e, i, keys).refs # {}
<1> DEFINE icrs == [n \in DOMAIN keys |-> Icr(e, i, keys[n])]
           low == keys[Lowest(icrs)]
           thin == IF keys = <<>> THEN FALSE ELSE Below(Icr(e, i, low), IcrFloor)
<1>1. /\ ThinCover(e, i, keys).refs = IF thin THEN Cells(At(e, low)) \cup Cells(At(i, low)) ELSE {}
      /\ ThinCover(e, i, keys).short => thin
  BY DEF ThinCover, Icr
<1>2. \A n \in 1..N : keys[n] \in Members(keys)
  BY DEF Members
<1>3. \A n \in 1..N : Icr(e, i, keys[n]) \in Fraction /\ Cells(At(e, keys[n])) \cap DOMAIN book.val # {}
  BY <1>2, IcrIs DEF Comparable
<1>4. CASE N = 0
  <2>1. keys = <<>> /\ Members(keys) = {}
    BY <1>4 DEF Members
  <2> QED  BY <1>1, <2>1 DEF ThinYears
<1>5. CASE N # 0
  <2>1. icrs \in [1..N -> Fraction] /\ N \in Nat \ {0} /\ \A n \in 1..N : icrs[n] = Icr(e, i, keys[n])
    BY <1>3, <1>5
  <2>2. keys # <<>>
    BY <1>5
  <2> HIDE DEF icrs
  <2> DEFINE at == Lowest(icrs)
  <2>3. at \in 1..N /\ \A j \in 1..N : AtMost(icrs[at], icrs[j])
    BY <2>1, LowestIs
  <2>4. low = keys[at]
    OBVIOUS
  <2> HIDE DEF at
  <2>5. low \in Members(keys) /\ icrs[at] = Icr(e, i, low) /\ Icr(e, i, low) \in Fraction /\ Cells(At(e, low)) \cap DOMAIN book.val # {}
    BY <1>2, <1>3, <2>1, <2>3, <2>4
  <2> HIDE DEF low
  <2>6. ASSUME NEW k \in Members(keys), Below(Icr(e, i, k), IcrFloor) PROVE Below(Icr(e, i, low), IcrFloor)
    <3>1. PICK j \in 1..N : k = keys[j]
      BY DEF Members
    <3>2. Icr(e, i, k) \in Fraction /\ AtMost(Icr(e, i, low), Icr(e, i, k))
      BY <1>3, <2>1, <2>3, <2>5, <3>1
    <3>3. IcrFloor \in Fraction
      BY DEF IcrFloor, Fraction
    <3> QED  BY <2>5, <2>6, <3>2, <3>3, FractionsCompare
  <2>7. thin <=> ThinYears(e, i, keys) # {}
    BY <2>2, <2>5, <2>6 DEF ThinYears
  <2> QED  BY <1>1, <2>5, <2>7
<1> QED  BY <1>4, <1>5

LEMMA IcrKeysAre ==
  ASSUME NEW e, NEW i, Keyed(e), \A k : Cited(At(e, k)), \A k : At(e, k).val \in Int /\ At(i, k).val \in Int
  PROVE  /\ \E n \in Nat : \E S : IcrKeys(e, i) \in [1..n -> S]
         /\ Comparable(e, i, IcrKeys(e, i))
<1> DEFINE years == YearKeys(<<e, i>>)
           T == {k \in Members(years) : At(e, k).known /\ At(i, k).known /\ At(i, k).val # 0}
           keys == IcrKeys(e, i)
<1>1. keys = Among(years, T)
  BY DEF IcrKeys
<1>2. PICK N \in Nat : DOMAIN years = 1..N
  <2>1. <<e, i>>[1] = e
    OBVIOUS
  <2> QED  BY <2>1, YearKeysAre
<1>3. \A k \in T : At(e, k).known /\ At(i, k).val # 0
  OBVIOUS
<1> HIDE DEF years, T
<1>4. (\E n \in Nat : DOMAIN keys = 1..n) /\ \A n \in DOMAIN keys : keys[n] \in T
  BY <1>1, <1>2, AmongIs
<1>5. keys = [n \in DOMAIN keys |-> keys[n]]
  BY <1>1 DEF Among
<1> HIDE DEF keys
<1>6. \E n \in Nat : keys \in [1..n -> T]
  BY <1>4, <1>5
<1>7. \A k \in Members(keys) : k \in T
  BY <1>4 DEF Members
<1>8. Comparable(e, i, keys)
  BY <1>3, <1>7 DEF Comparable, Cited
<1> QED  BY <1>6, <1>8 DEF keys

(* The lines of EBITDA and interest are what F07 can compare. *)
Measured(e, i) ==
  Keyed(e) /\ (\A k : Cited(At(e, k))) /\ \A k : At(e, k).val \in Int /\ At(i, k).val \in Int

LEMMA F07Is ==
  ASSUME NEW m, Measured(m["pnl.ebitda"], m["pnl.interest"])
  PROVE  F07(m).status = "flagged" <=>
           \/ CoverageGaps(m) # {}
           \/ ThinYears(m["pnl.ebitda"], m["pnl.interest"], IcrKeys(m["pnl.ebitda"], m["pnl.interest"])) # {}
<1> DEFINE e == m["pnl.ebitda"]
           i == m["pnl.interest"]
           keys == IcrKeys(e, i)
           thin == ThinCover(e, i, keys)
           gaps == CoverageGaps(m)
<1>1. F07(m) = Flag(gaps \cup thin.refs, "leverage", IF gaps # {} \/ thin.short THEN "high" ELSE "medium")
  BY DEF F07, Covered
<1>2. thin.refs # {} <=> ThinYears(e, i, keys) # {}
  <2>1. (\E n \in Nat : \E S : keys \in [1..n -> S]) /\ Comparable(e, i, keys)
    BY IcrKeysAre DEF Measured
  <2> HIDE DEF keys, e, i
  <2> QED  BY <2>1, ThinCoverIs
<1> HIDE DEF thin, gaps
<1>3. F07(m).status = "flagged" <=> gaps \cup thin.refs # {}
  BY <1>1, FlagIs
<1> QED  BY <1>2, <1>3 DEF gaps

(* Higher EBITDA makes no cover thin. *)
LEMMA F07Kept ==
  ASSUME NEW m, NEW n, Rises(m["pnl.ebitda"], n["pnl.ebitda"]),
         \A c \in {"pnl.interest", "cov.dscr", "cov.llcr", "cov.plcr"} : n[c] = m[c],
         Measured(m["pnl.ebitda"], m["pnl.interest"]), Measured(n["pnl.ebitda"], n["pnl.interest"]),
         F07(n).status = "flagged"
  PROVE  F07(m).status = "flagged"
<1> DEFINE e == m["pnl.ebitda"]
           f == n["pnl.ebitda"]
           i == m["pnl.interest"]
<1>1. CoverageGaps(n) = CoverageGaps(m)
  BY DEF CoverageGaps
<1>2. n["pnl.interest"] = i
  OBVIOUS
<1>3. CoverageGaps(n) # {} \/ ThinYears(f, i, IcrKeys(f, i)) # {}
  BY <1>2, F07Is
<1>4. CoverageGaps(m) # {} \/ ThinYears(e, i, IcrKeys(e, i)) # {} => F07(m).status = "flagged"
  BY F07Is
<1>5. Rises(e, f) /\ Measured(e, i) /\ Measured(f, i)
  BY <1>2
<1> HIDE DEF e, f, i
<1>6. YearKeys(<<f, i>>) = YearKeys(<<e, i>>)
  <2>1. {k \in DOMAIN <<f, i>>[1].cols : \A j \in DOMAIN <<f, i>> : k \in DOMAIN <<f, i>>[j].cols}
          = {k \in DOMAIN <<e, i>>[1].cols : \A j \in DOMAIN <<e, i>> : k \in DOMAIN <<e, i>>[j].cols}
    BY <1>5 DEF Rises
  <2>2. Shared(<<f, i>>) = Shared(<<e, i>>)
    BY <2>1 DEF Shared
  <2> QED  BY <2>2 DEF YearKeys
<1>7. IcrKeys(f, i) = IcrKeys(e, i)
  <2>1. \A k : At(f, k).known <=> At(e, k).known
    BY <1>5 DEF Rises, Grown
  <2> DEFINE years == YearKeys(<<e, i>>)
  <2>2. {k \in Members(years) : At(f, k).known /\ At(i, k).known /\ At(i, k).val # 0}
          = {k \in Members(years) : At(e, k).known /\ At(i, k).known /\ At(i, k).val # 0}
    BY <2>1
  <2> QED  BY <1>6, <2>2 DEF IcrKeys
<1> DEFINE keys == IcrKeys(e, i)
<1>8. ASSUME NEW k \in Members(keys), Below(Icr(f, i, k), IcrFloor) PROVE Below(Icr(e, i, k), IcrFloor)
  <2>1. Comparable(e, i, keys) /\ Comparable(f, i, keys)
    BY <1>5, <1>7, IcrKeysAre DEF Measured
  <2>2. /\ At(e, k).val \in Int /\ At(f, k).val \in Int /\ At(i, k).val \in Int /\ At(i, k).val # 0
    BY <2>1 DEF Comparable
  <2>3. At(e, k).val <= At(f, k).val
    BY <1>5 DEF Rises, Grown
  <2>4. Icr(e, i, k) = <<At(e, k).val, Abs(At(i, k).val)>> /\ Icr(f, i, k) = <<At(f, k).val, Abs(At(i, k).val)>>
    BY <2>2, IcrIs
  <2>5. Abs(At(i, k).val) \in Int
    BY <2>2, IcrIs
  <2> QED  BY <1>8, <2>2, <2>3, <2>4, <2>5 DEF Below, IcrFloor
<1>9. ThinYears(f, i, keys) \subseteq ThinYears(e, i, keys)
  BY <1>8 DEF ThinYears
<1> QED  BY <1>1, <1>3, <1>4, <1>7, <1>9

(* F13 is flagged when in some year dividends are paid out of a deficit. *)
Paid(m, k) == /\ At(m["cf.dividends"], k).known /\ At(m["cf.dividends"], k).val > 0
              /\ FcfAt(m, k).known /\ FcfAt(m, k).val < 0
DeficitPaid(m) ==
  FcfSource # "missing" /\ \E k \in Members(YearKeys(<<m["cf.dividends"]>>)) : Paid(m, k)

LEMMA F13Is ==
  ASSUME NEW m, Keyed(m["cf.dividends"]), \A k : Cited(At(m["cf.dividends"], k))
  PROVE  /\ F13(m).status = "flagged" <=> DeficitPaid(m)
         /\ Urgent(F13(m))
<1> DEFINE d == m["cf.dividends"]
           keys == YearKeys(<<d>>)
           T == {k \in Members(keys) : Paid(m, k)}
           paying == Among(keys, T)
           cells == Cells(At(d, paying[1])) \cup Cells(FcfAt(m, paying[1]))
                      \cup FirstCell(At(m["cf.drawdown"], paying[1])) \cup FirstCell(At(m["cf.repayment"], paying[1]))
           high == IF At(m["cf.drawdown"], paying[1]).val > At(m["cf.repayment"], paying[1]).val THEN "high" ELSE "medium"
<1>1. F13(m) = IF FcfSource = "missing" \/ keys = <<>> THEN Insufficient
               ELSE IF paying = <<>> THEN Flag({}, "dividend_policy", "high")
               ELSE Flag(cells, "dividend_policy", high)
  BY DEF F13, PaidOut, Paid
<1>2. PICK N \in Nat : DOMAIN keys = 1..N
  <2>1. <<d>>[1] = d
    OBVIOUS
  <2> QED  BY <2>1, YearKeysAre
<1>3. \A k \in T : k \in Members(keys) /\ Paid(m, k) /\ Cells(At(d, k)) \cap DOMAIN book.val # {}
  BY DEF Paid, Cited
<1>4. DeficitPaid(m) <=> FcfSource # "missing" /\ T # {}
  BY DEF DeficitPaid
<1>5. \A k \in T : \E j \in 1..N : k = keys[j]
  BY <1>2 DEF Members
<1>6. keys = <<>> => T = {}
  BY DEF Members
<1> HIDE DEF keys, T
<1>7. /\ \E n \in Nat : DOMAIN paying = 1..n
      /\ \A i \in DOMAIN paying : paying[i] \in T
      /\ \A j \in 1..N : keys[j] \in T => \E i \in DOMAIN paying : paying[i] = keys[j]
  BY <1>2, AmongIs
<1>8. paying = [n \in DOMAIN paying |-> paying[n]]
  BY DEF Among
<1> HIDE DEF paying
<1>9. T # {} => paying # <<>>
  BY <1>5, <1>7
<1>10. paying # <<>> => paying[1] \in T
  <2>1. PICK n \in Nat : DOMAIN paying = 1..n
    BY <1>7
  <2>2. paying # <<>> => n # 0
    BY <1>8, <2>1
  <2> QED  BY <1>7, <2>1, <2>2
<1>11. paying # <<>> => cells \cap DOMAIN book.val # {}
  BY <1>3, <1>10
<1> HIDE DEF cells, high
<1>12. Insufficient.status = "insufficient"
  BY DEF Insufficient, Result
<1>13. F13(m).status = "flagged" <=> DeficitPaid(m)
  BY <1>1, <1>4, <1>6, <1>9, <1>10, <1>11, <1>12, FlagIs
<1>14. Urgent(F13(m))
  BY <1>1, <1>11, <1>12, FlagIs DEF Urgent
<1> QED  BY <1>13, <1>14

-----------------------------------------------------------------------------
(* What the three controls show *)

Shortfalls == {"F03", "F07", "F13"}
Raises(f) == (\A c \in Members(Needs[f]) : Mapped(c)) /\ Handle(Lines, f).status = "flagged"

LEMMA HandlesAre ==
  /\ Handle(Lines, "F03") = F03(Lines)
  /\ Handle(Lines, "F07") = F07(Lines)
  /\ Handle(Lines, "F13") = F13(Lines)
BY DEF Handle

(* The cap on the confidence of a control keeps its result. *)
Shaped(r) == DOMAIN r = {"status", "refs", "class", "priority", "confidence", "cause"}

LEMMA FlagShaped ==
  ASSUME NEW refs, NEW class, NEW priority
  PROVE  Shaped(Flag(refs, class, priority))
BY DEF Flag, Finish, Result, Shaped

LEMMA CappedKeeps ==
  ASSUME NEW f, NEW result, Shaped(result), NEW broken, NEW coarse
  PROVE  /\ Capped(f, result, broken, coarse).status = result.status
         /\ Capped(f, result, broken, coarse).refs = result.refs
         /\ Capped(f, result, broken, coarse).priority = result.priority
BY DEF Capped, Shaped

LEMMA ShortfallsShaped ==
  ASSUME NEW m
  PROVE  Shaped(F03(m)) /\ Shaped(F07(m)) /\ Shaped(F13(m))
<1>1. Shaped(F03(m))
  BY FlagShaped DEF F03
<1>2. Shaped(F07(m))
  BY FlagShaped DEF F07, Covered
<1>3. Shaped(F13(m))
  <2>1. \A paying : Shaped(PaidOut(m, paying))
    BY FlagShaped DEF PaidOut
  <2>2. Shaped(Insufficient)
    BY DEF Insufficient, Result, Shaped
  <2> QED  BY <2>1, <2>2 DEF F13
<1> QED  BY <1>1, <1>2, <1>3

LEMMA ControlsShow ==
  ASSUME NEW f \in Shortfalls, NEW broken
  PROVE  FrsResults(broken)[f].status = "flagged" <=> Raises(f)
<1> DEFINE coarse == f \notin {"F08", "F09"} /\ FromMonths([i \in DOMAIN Needs[f] |-> Lines[Needs[f][i]]])
<1>1. FrsResults(broken)[f] = IF \A c \in Members(Needs[f]) : Mapped(c)
                              THEN Capped(f, Handle(Lines, f), broken, coarse) ELSE NotApplicable
  BY DEF FrsResults, Controlled, Control, Controls, Shortfalls
<1>2. Shaped(Handle(Lines, f))
  BY HandlesAre, ShortfallsShaped DEF Shortfalls
<1> HIDE DEF coarse
<1>3. Capped(f, Handle(Lines, f), broken, coarse).status = Handle(Lines, f).status
  BY <1>2, CappedKeeps
<1>4. NotApplicable.status = "not_applicable"
  BY DEF NotApplicable, Result
<1> DEFINE mapped == \A c \in Members(Needs[f]) : Mapped(c)
           handled == Handle(Lines, f)
<1>5. Raises(f) <=> mapped /\ handled.status = "flagged"
  BY DEF Raises
<1>6. FrsResults(broken)[f] = IF mapped THEN Capped(f, handled, broken, coarse) ELSE NotApplicable
  BY <1>1
<1>7. Capped(f, handled, broken, coarse).status = handled.status
  BY <1>3
<1> HIDE DEF mapped, handled
<1> QED  BY <1>4, <1>5, <1>6, <1>7

LEMMA LinesAre ==
  ASSUME WorkbookOK
  PROVE  /\ \A d \in FrsConcepts : Keyed(Lines[d]) /\ \A k : Cited(At(Lines[d], k))
         /\ F03(Lines).status = "flagged" <=> LossesInARow(Lines["pnl.ebitda"])
         /\ F13(Lines).status = "flagged" <=> DeficitPaid(Lines)
<1>1. \A d \in FrsConcepts : Keyed(Lines[d]) /\ \A k : Cited(At(Lines[d], k))
  BY LinesKeyed, LinesCited
<1>2. "cf.dividends" \in FrsConcepts
  BY DEF FrsConcepts
<1> QED  BY <1>1, <1>2, F03Is, F13Is

LEMMA HandlesNext ==
  /\ Handle(Lines, "F03")' = F03(Lines')
  /\ Handle(Lines, "F07")' = F07(Lines')
  /\ Handle(Lines, "F13")' = F13(Lines)'
<1>1. (/\ Handle(Lines, "F03") = F03(Lines)
       /\ Handle(Lines, "F07") = F07(Lines)
       /\ Handle(Lines, "F13") = F13(Lines))'
  BY HandlesAre, PTL
<1>2. F03(Lines)' = F03(Lines')
  OBVIOUS
<1>3. F07(Lines)' = F07(Lines')
  OBVIOUS
<1> QED  BY <1>1, <1>2, <1>3

(* The lines before and after a correction upwards can be compared. *)
LEMMA LinesMeasured ==
  ASSUME WorkbookOK, WorkbookOK', NEW c, Raised(c)
  PROVE  /\ Measured(Lines["pnl.ebitda"], Lines["pnl.interest"])
         /\ Measured(Lines'["pnl.ebitda"], Lines'["pnl.interest"])
<1> DEFINE e == Lines["pnl.ebitda"]
           f == Lines'["pnl.ebitda"]
           i == Lines["pnl.interest"]
           j == Lines'["pnl.interest"]
<1>1. Keyed(e) /\ (\A k : Cited(At(e, k))) /\ Rises(e, f) /\ Rises(i, j)
  <2>1. "pnl.ebitda" \in FrsConcepts /\ "pnl.interest" \in FrsConcepts
    BY DEF FrsConcepts
  <2>2. Keyed(e) /\ \A k : Cited(At(e, k))
    BY <2>1, LinesAre
  <2>3. Rises(e, f) /\ Rises(i, j)
    BY <2>1, LinesRaised
  <2> QED  BY <2>2, <2>3
<1> HIDE DEF e, f, i, j
<1>2. \A k : /\ At(e, k).val \in Int /\ At(f, k).val \in Int /\ At(i, k).val \in Int /\ At(j, k).val \in Int
  BY <1>1 DEF Rises, Grown
<1>3. Keyed(f)
  BY <1>1 DEF Rises, Keyed
<1>4. ASSUME NEW k PROVE Cited(At(f, k))
  <2>1. Cited(At(e, k)) /\ Grown(At(e, k), At(f, k))
    BY <1>1 DEF Rises
  <2> QED  BY <2>1 DEF Cited, Grown, Cells
<1>5. Measured(e, i) /\ Measured(f, j)
  BY <1>1, <1>2, <1>3, <1>4 DEF Measured
<1> QED  BY <1>5 DEF e, f, i, j

(* A free cash flow that rises pays no dividends out of a deficit. *)
LEMMA DeficitKept ==
  ASSUME WorkbookOK, WorkbookOK', Raised("cf.fcf"), Mapped("cf.fcf"), DeficitPaid(Lines)'
  PROVE  DeficitPaid(Lines)
<1>1. Mapped("cf.fcf")'
  BY TotalsStay DEF Raised
<1>2. FcfSource = "mapped" /\ FcfSource' = "mapped"
  BY <1>1 DEF FcfSource
<1>3. /\ \A k : FcfAt(Lines, k) = At(Lines["cf.fcf"], k)
      /\ \A k : FcfAt(Lines, k)' = At(Lines'["cf.fcf"], k)
  BY <1>2 DEF FcfAt
<1>4. Lines'["cf.dividends"] = Lines["cf.dividends"] /\ Rises(Lines["cf.fcf"], Lines'["cf.fcf"])
  BY LinesRaised DEF FrsConcepts
<1>5. PICK k \in Members(YearKeys(<<Lines'["cf.dividends"]>>)) : Paid(Lines, k)'
  BY DEF DeficitPaid
<1>6. /\ At(Lines'["cf.dividends"], k).known /\ At(Lines'["cf.dividends"], k).val > 0
      /\ At(Lines'["cf.fcf"], k).known /\ At(Lines'["cf.fcf"], k).val < 0
  BY <1>3, <1>5 DEF Paid
<1>7. Grown(At(Lines["cf.fcf"], k), At(Lines'["cf.fcf"], k))
  BY <1>4 DEF Rises
<1>8. Paid(Lines, k)
  BY <1>3, <1>4, <1>6, <1>7 DEF Paid, Grown
<1>9. k \in Members(YearKeys(<<Lines["cf.dividends"]>>))
  BY <1>4, <1>5
<1> QED  BY <1>2, <1>8, <1>9 DEF DeficitPaid

(* A correction upwards sets none of them off. *)
LEMMA RaisesKept ==
  ASSUME WorkbookOK, WorkbookOK', NEW c, Raised(c), Mapped(c)
  PROVE  /\ c = "pnl.ebitda" => (Raises("F03")' => Raises("F03")) /\ (Raises("F07")' => Raises("F07"))
         /\ c = "cf.fcf" => (Raises("F13")' => Raises("F13"))
<1>1. \A f : (\A d \in Members(Needs[f]) : Mapped(d))' <=> (\A d \in Members(Needs[f]) : Mapped(d))
  BY TotalsStay DEF Raised
<1>2. /\ Handle(Lines, "F03")' = F03(Lines')
      /\ Handle(Lines, "F07")' = F07(Lines')
      /\ Handle(Lines, "F13")' = F13(Lines)'
  BY HandlesNext
<1>3. ASSUME c = "pnl.ebitda"
      PROVE  (Raises("F03")' => Raises("F03")) /\ (Raises("F07")' => Raises("F07"))
  <2>1. /\ Rises(Lines["pnl.ebitda"], Lines'["pnl.ebitda"])
        /\ \A d \in {"pnl.interest", "cov.dscr", "cov.llcr", "cov.plcr"} : Lines'[d] = Lines[d]
    BY <1>3, LinesRaised DEF FrsConcepts
  <2>2. F03(Lines').status = "flagged" => F03(Lines).status = "flagged"
    BY <2>1, F03Kept
  <2>3. /\ Measured(Lines["pnl.ebitda"], Lines["pnl.interest"])
        /\ Measured(Lines'["pnl.ebitda"], Lines'["pnl.interest"])
    BY LinesMeasured
  <2>4. F07(Lines').status = "flagged" => F07(Lines).status = "flagged"
    BY <2>1, <2>3, F07Kept
  <2> QED  BY <1>1, <1>2, <2>2, <2>4, HandlesAre DEF Raises
<1>4. ASSUME c = "cf.fcf" PROVE Raises("F13")' => Raises("F13")
  <2>1. F13(Lines).status = "flagged" <=> DeficitPaid(Lines)
    BY LinesAre
  <2>2. (F13(Lines).status = "flagged" <=> DeficitPaid(Lines))'
    BY LinesAre, PTL
  <2>3. F13(Lines)'.status = "flagged" => F13(Lines).status = "flagged"
    BY <1>4, <2>1, <2>2, DeficitKept
  <2> QED  BY <1>1, <1>2, <2>3, HandlesAre DEF Raises
<1> QED  BY <1>3, <1>4

-----------------------------------------------------------------------------
(* What holds of the last correction, until the next revision: the results *)
(* are those of the book, and of the two concepts none is new.             *)

ShortfallsShown == Screened => \A f \in Shortfalls : frs[f].status = "flagged" <=> Raises(f)

NoneNew ==
  last.kind = "correct" /\ last.delta > 0 =>
    LET c == book.rows[last.cell[1]].concept
        Known0(f) == Raises(f) => before.frs[f].status = "flagged"
    IN  /\ c = "pnl.ebitda" => Known0("F03") /\ Known0("F07")
        /\ c = "cf.fcf" => Known0("F13")

LEMMA RaisesStay ==
  ASSUME WorkbookOK, UNCHANGED book, NEW f \in Shortfalls
  PROVE  Raises(f)' <=> Raises(f)
<1>1. WorkbookOK'
  BY DEF WorkbookOK, Sound
<1>2. Raised(NoConcept)
  BY DEF Raised, Edited, WorkbookOK, Sound
<1>3. Lines' = Lines
  <2>1. NoConcept \notin FrsConcepts
    BY DEF FrsConcepts, NoConcept
  <2>2. \A d \in FrsConcepts : Lines'[d] = Lines[d]
    BY <1>1, <1>2, <2>1, LinesRaised
  <2> QED  BY <2>2 DEF Lines
<1>4. \A c : Mapped(c)' <=> Mapped(c)
  BY <1>2, TotalsStay DEF Raised
<1>5. FcfSource' = FcfSource
  BY <1>4 DEF FcfSource
<1>6. \A k : Paid(Lines, k)' <=> Paid(Lines, k)
  BY <1>3, <1>5 DEF Paid, FcfAt
<1>7. DeficitPaid(Lines)' <=> DeficitPaid(Lines)
  BY <1>3, <1>5, <1>6 DEF DeficitPaid
<1>8. F13(Lines).status = "flagged" <=> DeficitPaid(Lines)
  BY LinesAre
<1>9. (F13(Lines).status = "flagged" <=> DeficitPaid(Lines))'
  BY <1>1, LinesAre, PTL
<1>10. /\ Handle(Lines, "F03")' = F03(Lines')
       /\ Handle(Lines, "F07")' = F07(Lines')
       /\ Handle(Lines, "F13")' = F13(Lines)'
  BY HandlesNext
<1>11. Handle(Lines, f)'.status = "flagged" <=> Handle(Lines, f).status = "flagged"
  BY <1>3, <1>7, <1>8, <1>9, <1>10, HandlesAre DEF Shortfalls
<1> QED  BY <1>4, <1>11 DEF Raises

LEMMA ShortfallsAfterStage ==
  ASSUME WorkbookOK, ShortfallsShown, NoneNew, UNCHANGED <<book, last, before>>,
         \A f \in Shortfalls : Screened' => (frs'[f].status = "flagged" <=> Raises(f))
  PROVE  ShortfallsShown' /\ NoneNew'
<1>1. \A f \in Shortfalls : Raises(f)' <=> Raises(f)
  BY RaisesStay
<1> QED  BY <1>1 DEF ShortfallsShown, NoneNew, Shortfalls

LEMMA ShortfallsAfterCorrect ==
  ASSUME WorkbookOK, WorkbookOK', ShortfallsShown, NEW p \in DOMAIN book.val, NEW d \in Int, Correct(p, d)
  PROVE  ShortfallsShown' /\ NoneNew'
<1> DEFINE b == [book EXCEPT !.val[p] = @ + d]
           c == book.rows[p[1]].concept
<1>1. /\ book' = b /\ last' = [kind |-> "correct", cell |-> p, delta |-> d]
      /\ ~Screened' /\ before'.frs = frs /\ Screened
  BY DEF Correct, Revised, Move, Screened
<1>2. /\ b.axis = book.axis /\ b.sheet = book.sheet /\ b.rows = book.rows
      /\ DOMAIN b.val = DOMAIN book.val
      /\ \A q \in DOMAIN book.val : b.val[q] = IF q = p THEN book.val[p] + d ELSE book.val[q]
  BY DEF WorkbookOK, Sound, Fields
<1> HIDE DEF b
<1>3. ASSUME d > 0 PROVE Raised(c) /\ Mapped(c)
  <2>1. p \in OfConcept(c) /\ p[1] \in RowsOf(c)
    BY DEF OfConcept, RowsOf, Rows, WorkbookOK, Sound
  <2>2. \A q \in DOMAIN book.val : book.val[q] <= b.val[q]
    BY <1>2, <1>3 DEF WorkbookOK, Sound
  <2> QED  BY <1>1, <1>2, <2>1, <2>2 DEF Raised, Edited, Mapped
<1>4. book'.rows[last'.cell[1]].concept = c
  BY <1>1, <1>2
<1> HIDE DEF c
<1>5. ASSUME d > 0
      PROVE  /\ c = "pnl.ebitda" => (Raises("F03")' => Raises("F03")) /\ (Raises("F07")' => Raises("F07"))
             /\ c = "cf.fcf" => (Raises("F13")' => Raises("F13"))
  BY <1>3, <1>5, RaisesKept
<1>6. \A f \in Shortfalls : Raises(f) => before'.frs[f].status = "flagged"
  BY <1>1 DEF ShortfallsShown
<1> QED  BY <1>1, <1>4, <1>5, <1>6 DEF ShortfallsShown, NoneNew, Shortfalls

LEMMA ShortfallsKept ==
  ASSUME WorkbookOK, WorkbookOK', ShortfallsShown, NoneNew, [Next]_vars
  PROVE  ShortfallsShown' /\ NoneNew'
<1>1. CASE FrsWorkbook
  BY <1>1, ShortfallsAfterStage, ControlsShow DEF FrsWorkbook
<1>2. CASE CheckWorkbook
  BY <1>2, ShortfallsAfterStage DEF CheckWorkbook, Screened
<1>3. CASE ExplainWorkbook \/ UNCHANGED vars
  BY <1>3, ShortfallsAfterStage DEF ExplainWorkbook, vars, Screened, ShortfallsShown
<1>4. ASSUME NEW p \in DOMAIN book.val, NEW d \in Deltas, Correct(p, d) PROVE ShortfallsShown' /\ NoneNew'
  BY <1>4, ShortfallsAfterCorrect, ScreeningAssumption
<1>5. ASSUME NEW p \in DOMAIN book.formula, Overwrite(p) PROVE ShortfallsShown' /\ NoneNew'
  BY <1>5 DEF Overwrite, Revised, Move, Screened, ShortfallsShown, NoneNew
<1>6. ASSUME NEW n \in Grains, Regrain(n) PROVE ShortfallsShown' /\ NoneNew'
  BY <1>6 DEF Regrain, Revised, Move, Screened, ShortfallsShown, NoneNew
<1> QED
  BY <1>1, <1>2, <1>3, <1>4, <1>5, <1>6 DEF Next

(* More EBITDA sets off neither the control of losses nor that of cover,   *)
(* and more free cash flow not that of dividends, in every workbook and    *)
(* after every revision: each looks at the same years before and after.    *)
THEOREM BetterFlagsNothing == Spec => []BetterNeverFlags
<1>1. Init => ShortfallsShown /\ NoneNew
  BY DEF Init, ShortfallsShown, NoneNew, Screened, Start
<1>2. ShortfallsShown /\ NoneNew => BetterNeverFlags
  BY DEF ShortfallsShown, NoneNew, BetterNeverFlags, Shortfalls
<1> QED
  BY <1>1, <1>2, BooksStaySound, ShortfallsKept, PTL DEF Spec

-----------------------------------------------------------------------------
(* One finding for a detector and cells *)

LEMMA MismatchIs == \A detector, refs, key : Mismatch(detector, refs, key).detector = detector
BY DEF Mismatch

LEMMA RollForwardNamed ==
  ASSUME NEW detector, NEW stock, NEW must, NEW may
  PROVE  \A x \in RollForward(detector, stock, must, may) : x.detector = detector
<1> DEFINE flows == must \o may
           Open(s)  == CellAt(stock, s[1], PeriodRoles)
           Close(s) == CellAt(stock, s[2], PeriodRoles)
           Read(s)  == {Open(s), Close(s)} \cup FlowCells(flows, s[2])
           Expected(s) == Val(Open(s)) + FlowSum(flows, s[2])
           Failing(s) == /\ AllKnown(Read(s))
                         /\ Off(Val(Close(s)) - Expected(s), Larger(Abs(Val(Open(s))), Abs(Val(Close(s)))), 1)
           rs == <<stock>> \o [i \in DOMAIN must |-> must[i].row]
           at == {t \in Steps(rs) : Failing(t)}
<1>1. RollForward(detector, stock, must, may) = {Mismatch(detector, Read(s), s[2]) : s \in at}
  BY DEF RollForward
<1> HIDE DEF Read, at
<1> QED  BY <1>1, MismatchIs

LEMMA AcrossSheetsNamed == \A detector, c : \A x \in AcrossSheets(detector, c) : x.detector = detector
BY MismatchIs DEF AcrossSheets, Snapshot

LEMMA StockWithNamed ==
  ASSUME NEW detector, NEW stock, NEW flows, NEW fx
  PROVE  \A x \in StockWith(detector, stock, flows, fx) : x.detector = detector
<1> DEFINE Row(g, f) == Optional(g, f[1])
           Of(g) == IF \A i \in DOMAIN flows : Row(g, flows[i]) = NoRow THEN {}
                    ELSE RollForward(detector, TotalIn(g, stock), <<>>,
                           [i \in DOMAIN flows |-> Flow(Row(g, flows[i]), flows[i][2])]
                             \o <<Flow(Optional(g, fx), "in")>>)
<1>1. StockMoves(detector, stock, flows, fx) = UNION {Of(g) : g \in Groups({stock})}
  BY DEF StockMoves
<1>2. \A g : \A x \in Of(g) : x.detector = detector
  BY RollForwardNamed
<1> HIDE DEF Of
<1> QED  BY <1>1, <1>2, AcrossSheetsNamed DEF StockWith

(* The identities report under their names. *)
LEMMA IdentitiesNamed == \A x \in IdentityCandidates : x.detector \in IdentityNames
<1> USE MismatchIs
<1>1. \A x \in BalanceSheet : x.detector = "I1"
  BY DEF BalanceSheet, Tie, Snapshot
<1>2. \A x \in GrossProfit : x.detector = "I5"
  BY DEF GrossProfit, Tie, Snapshot
<1>3. \A x \in OperatingProfit : x.detector = "I7"
  BY DEF OperatingProfit, Tie, Snapshot
<1>4. \A x \in Ebitda : x.detector = "I6"
  BY DEF Ebitda, Tie, Snapshot
<1>5. \A x \in VolumePrice : x.detector = "I4"
  BY DEF VolumePrice, Tie, Snapshot
<1>6. \A x \in AddBack : x.detector = "I8"
  BY DEF AddBack, Tie, Snapshot
<1>7. \A x \in Tax : x.detector = "I12"
  <2> DEFINE Ref(r, k) == CellAt(r, k, SnapshotRoles)
             Deferred(g) == Optional(g, "pnl.deferred_tax")
             Extra(g, k) == Deferred(g) # NoRow /\ k \in DOMAIN AxisCols(Deferred(g), SnapshotRoles)
             Read(g, rs, k) == Members(CellsAt(rs, k)) \cup (IF Extra(g, k) THEN {Ref(Deferred(g), k)} ELSE {})
             Failing(g, rs, k) ==
               /\ AllKnown(Read(g, rs, k))
               /\ LET tax == Val(Ref(rs[1], k)) + (IF Extra(g, k) THEN Val(Ref(Deferred(g), k)) ELSE 0)
                      due == Abs(AsRate(Val(Ref(rs[3], k)))) * (Abs(Val(Ref(rs[2], k))) + Abs(tax))
                  IN  Off(100 * Abs(tax) - due, Larger(100 * Abs(tax), due), 100)
             rs(g) == RowsIn(g, <<"pnl.tax", "pnl.net_income", "pnl.tax_rate">>)
             at(g) == {j \in Members(Aligned(rs(g), SnapshotRoles)) : Failing(g, rs(g), j)}
             In(g) == {Mismatch("I12", Read(g, rs(g), k), k) : k \in at(g)}
  <2>1. Tax = UNION {In(g) : g \in Groups({"pnl.tax", "pnl.net_income", "pnl.tax_rate"})}
    BY DEF Tax
  <2> HIDE DEF Read, at
  <2>2. \A g : \A x \in In(g) : x.detector = "I12"
    OBVIOUS
  <2> HIDE DEF In
  <2> QED  BY <2>1, <2>2
<1>8. \A x \in Cash : x.detector = "I3a"
  <2> DEFINE Fx(g) == IF Optional(g, "fx.cash") = NoRow THEN <<>>
                      ELSE <<Flow(Optional(g, "fx.cash"), "in")>>
             Flows(g, cs) == [i \in DOMAIN cs |-> Flow(TotalIn(g, cs[i]), "in")] \o Fx(g)
             Of(p) == RollForward("I3a", TotalIn(p[1], "bs.cash"), Flows(p[1], p[2]), <<>>)
  <2>1. CashMoves = UNION {Of(p) : p \in CashGroups}
    BY DEF CashMoves
  <2>2. \A p : \A x \in Of(p) : x.detector = "I3a"
    BY RollForwardNamed
  <2> HIDE DEF Of
  <2> QED  BY <2>1, <2>2, AcrossSheetsNamed DEF Cash
<1>9. \A x \in RetainedEarnings : x.detector = "I3b"
  <2> DEFINE Of(g) == RollForward("I3b", TotalIn(g, "bs.retained_earnings"),
                                  <<Flow(TotalIn(g, "pnl.net_income"), "in")>>,
                                  <<Flow(Optional(g, "cf.dividends"), "out"), Flow(Optional(g, "bs.re_adj"), "in")>>)
  <2>1. RetainedEarnings = UNION {Of(g) : g \in Groups({"bs.retained_earnings", "pnl.net_income"})}
    BY DEF RetainedEarnings
  <2>2. \A g : \A x \in Of(g) : x.detector = "I3b"
    BY RollForwardNamed
  <2> HIDE DEF Of
  <2> QED  BY <2>1, <2>2
<1>10. \A x \in Equity : x.detector = "I13"
  <2> DEFINE Of(g) == RollForward("I13", TotalIn(g, "bs.equity"),
                                  <<Flow(TotalIn(g, "pnl.net_income"), "in")>>,
                                  <<Flow(TotalIn(g, "cf.dividends"), "out"),
                                    Flow(Optional(g, "cf.equity_issue"), "in"), Flow(Optional(g, "fx.equity"), "in")>>)
  <2>1. Equity = UNION {Of(g) : g \in Groups({"bs.equity", "pnl.net_income", "cf.dividends"})}
    BY DEF Equity
  <2>2. \A g : \A x \in Of(g) : x.detector = "I13"
    BY RollForwardNamed
  <2> HIDE DEF Of
  <2> QED  BY <2>1, <2>2
<1>11. \A x \in Debt : x.detector = "I10"
  BY StockWithNamed DEF Debt
<1>12. \A x \in FixedAssets : x.detector = "I8b"
  BY StockWithNamed DEF FixedAssets
<1>13. \A x \in IndirectCfo : x.detector = "I9"
  <2> DEFINE Da(g) == <<Flow(Optional(g, "pnl.da"), "in")>>
             Stocks(g) == <<Flow(Optional(g, "bs.ar"), "out"), Flow(Optional(g, "bs.inventory"), "out"),
                            Flow(Optional(g, "bs.ap"), "in")>>
             Adjusted(g) == \E f \in Members(Da(g) \o Stocks(g)) : f.row # NoRow
             Dated(g, s) == \A f \in Members(Stocks(g)) : f.row # NoRow => HasDate(f, s[1]) /\ HasDate(f, s[2])
             Net(g, s) == CellAt(TotalIn(g, "pnl.net_income"), s[2], PeriodRoles)
             Got(g, s) == CellAt(TotalIn(g, "cf.cfo"), s[2], PeriodRoles)
             Read(g, s) == {Net(g, s), Got(g, s)} \cup FlowCells(Da(g), s[2])
                             \cup FlowCells(Stocks(g), s[1]) \cup FlowCells(Stocks(g), s[2])
             Gap(g, s) == Val(Got(g, s)) - Val(Net(g, s)) - FlowSum(Da(g), s[2])
                            - (FlowSum(Stocks(g), s[2]) - FlowSum(Stocks(g), s[1]))
             Size(g, s) == Larger(Abs(Val(Got(g, s))), Abs(Val(Net(g, s))))
             Failing(g, s) == Dated(g, s) /\ AllKnown(Read(g, s)) /\ Off(Gap(g, s), Size(g, s), 1)
             at(g) == {t \in Steps(<<TotalIn(g, "pnl.net_income"), TotalIn(g, "cf.cfo")>>) : Failing(g, t)}
             In(g) == {Mismatch("I9", Read(g, s), s[2]) : s \in at(g)}
             groups == {h \in Groups({"pnl.net_income", "cf.cfo"}) : Adjusted(h)}
  <2>1. IndirectCfo = UNION {In(g) : g \in groups}
    BY DEF IndirectCfo
  <2> HIDE DEF Read, at, groups
  <2>2. \A g : \A x \in In(g) : x.detector = "I9"
    OBVIOUS
  <2> HIDE DEF In
  <2> QED  BY <2>1, <2>2
<1>14. \A x \in Interest : x.detector = "I11"
  <2> DEFINE rs(g) == RowsIn(g, <<"pnl.interest", "bs.debt", "pnl.interest_rate">>)
             Ref(g, i, k) == CellAt(rs(g)[i], k, PeriodRoles)
             Read(g, s) == {Ref(g, 1, s[2]), Ref(g, 2, s[1]), Ref(g, 2, s[2]), Ref(g, 3, s[2])}
             Failing(g, s) ==
               LET unit == 200 * RatePeriods(s[2])
                   paid == unit * Abs(Val(Ref(g, 1, s[2])))
                   due  == Abs(AsRate(Val(Ref(g, 3, s[2])))) * (Abs(Val(Ref(g, 2, s[1]))) + Abs(Val(Ref(g, 2, s[2]))))
               IN  AllKnown(Read(g, s)) /\ Off(paid - due, Larger(paid, due), unit)
             at(g) == {t \in Steps(rs(g)) : Failing(g, t)}
             In(g) == {Mismatch("I11", Read(g, s), s[2]) : s \in at(g)}
  <2>1. Interest = UNION {In(g) : g \in Groups({"pnl.interest", "bs.debt", "pnl.interest_rate"})}
    BY DEF Interest
  <2> HIDE DEF Read, at
  <2>2. \A g : \A x \in In(g) : x.detector = "I11"
    OBVIOUS
  <2> HIDE DEF In
  <2> QED  BY <2>1, <2>2
<1> QED
  BY <1>1, <1>2, <1>3, <1>4, <1>5, <1>6, <1>7, <1>8, <1>9, <1>10, <1>11, <1>12, <1>13, <1>14
     DEF IdentityCandidates, IdentityNames

(* What a check finds: cells under a name without tags, a circle, or an    *)
(* outlier of a series.                                                    *)
LEMMA CandidatesAre ==
  \A x \in Candidates : \/ x.detector \in OtherNames \cup IdentityNames /\ Untagged(x)
                        \/ \E g : x = Circle(g)
                        \/ \E p : x = Outlier(p)
<1> DEFINE tied == {Plain(c.detector, c.refs) : c \in IdentityCandidates}
<1>1. \A x \in tied : x.detector \in IdentityNames /\ Untagged(x)
  BY IdentitiesNamed, DetectorOf
<1>2. \A x \in Candidates :
        x \in tied \/ x \in UNION {OnErrors, OnWorkbook, SeriesOutliers, RangeGaps, DoubleCounts,
                                   UnusedCells, HiddenInputs,
                                   ScenarioSwitch, StressRate, ConflictingRates, ConflictingFx, ScaleMismatches,
                                   Breakeven, Valuation, VolumeGrowth}
  BY DEF Candidates
<1> HIDE DEF tied
<1> QED  BY <1>1, <1>2, OtherFindings DEF OtherFinding

(* A finding is known by its name and its cells, one of a typed number by  *)
(* its cell; and none has the name of a control.                           *)
Distinct(cs) ==
  /\ \A x, y \in cs : x.detector = y.detector /\ x.refs = y.refs /\ x.refs \cap book.cells # {} => x = y
  /\ \A x, y \in cs :
       x.detector \in Hardcode /\ y.detector \in Hardcode /\ x.refs \cap y.refs \cap book.cells # {} => x = y
  /\ \A x \in cs : x.detector \notin Controls

LEMMA CandidatesDistinct ==
  ASSUME WorkbookOK
  PROVE  Distinct(Candidates)
<1> DEFINE Series(x) == \E p \in book.cells : x = Outlier(p) /\ x.refs = {p}
           Round(x) == x = Circle(x.refs) /\ x.detector = "circular"
           Simple(x) == x.detector \in OtherNames \cup IdentityNames /\ Untagged(x)
<1>1. NoCell \notin book.cells
  BY DEF NoCell, WorkbookOK, Sound
<1>2. \A p : Outlier(p).refs = {IF p \in book.cells THEN p ELSE NoCell}
  BY DetectorOf DEF Outlier
<1>3. \A x : Series(x) => x.detector \in SeriesNames
  BY OutlierNames
<1>4. \A g : Circle(g).detector = "circular" /\ Circle(g).refs = g
  BY DetectorOf DEF Circle
<1>5. /\ SeriesNames \cap (OtherNames \cup IdentityNames \cup Controls \cup {"circular"}) = {}
      /\ (OtherNames \cup IdentityNames) \cap (Controls \cup {"circular"}) = {}
      /\ "circular" \notin Controls
      /\ Hardcode \subseteq SeriesNames
  BY DEF SeriesNames, Hardcode, OtherNames, IdentityNames, Controls
<1>6. \A x \in Candidates : x.refs \cap book.cells # {} => Simple(x) \/ Round(x) \/ Series(x)
  <2> SUFFICES ASSUME NEW x \in Candidates, x.refs \cap book.cells # {}, ~Simple(x), ~Round(x) PROVE Series(x)
    OBVIOUS
  <2>1. PICK p : x = Outlier(p)
    BY <1>4, CandidatesAre
  <2>2. p \in book.cells /\ x.refs = {p}
    BY <1>1, <1>2, <2>1
  <2> QED  BY <2>1, <2>2
<1>7. \A x \in Candidates : x.detector \in OtherNames \cup IdentityNames \cup {"circular"} \cup SeriesNames
  BY <1>4, CandidatesAre, OutlierNames
<1>8. \A x, y : Series(x) /\ Series(y) /\ x.refs \cap y.refs # {} => x = y
  OBVIOUS
<1>9. \A x, y : Simple(x) /\ Simple(y) /\ x.detector = y.detector /\ x.refs = y.refs => x = y
  BY DEF Untagged
<1>10. \A x, y : Round(x) /\ Round(y) /\ x.refs = y.refs => x = y
  OBVIOUS
<1>11. /\ \A x : Series(x) => x.refs # {}
       /\ \A x : Simple(x) => x.detector \in OtherNames \cup IdentityNames
       /\ \A x : Round(x) => x.detector = "circular"
  OBVIOUS
<1> HIDE DEF Series, Round, Simple
<1>12. ASSUME NEW x \in Candidates, NEW y \in Candidates, x.detector = y.detector, x.refs = y.refs,
              x.refs \cap book.cells # {}
       PROVE  x = y
  <2>1. Simple(x) \/ Round(x) \/ Series(x)
    BY <1>6, <1>12
  <2>2. Simple(y) \/ Round(y) \/ Series(y)
    BY <1>6, <1>12
  <2>3. (Simple(x) /\ Simple(y)) \/ (Round(x) /\ Round(y)) \/ (Series(x) /\ Series(y))
    BY <1>3, <1>5, <1>11, <1>12, <2>1, <2>2
  <2> QED  BY <1>8, <1>9, <1>10, <1>11, <1>12, <2>3
<1>13. ASSUME NEW x \in Candidates, NEW y \in Candidates, x.detector \in Hardcode, y.detector \in Hardcode,
              x.refs \cap y.refs \cap book.cells # {}
       PROVE  x = y
  <2>1. Series(x) /\ Series(y)
    BY <1>5, <1>6, <1>11, <1>13
  <2> QED  BY <1>8, <1>13, <2>1
<1>14. \A x \in Candidates : x.detector \notin Controls
  BY <1>5, <1>7
<1> QED  BY <1>12, <1>13, <1>14 DEF Distinct

-----------------------------------------------------------------------------
(* An urgent issue is about a cell of the workbook *)

LEMMA SlotsKnown ==
  ASSUME NEW l, Keyed(l)
  PROVE  /\ \A s \in Members(KnownSlots(MonthSlots(l))) : Known(s.cell)
         /\ \A s \in Members(KnownSlots(FinestSlots(l))) : Known(s.cell)
<1> DEFINE keys == Shared(<<l>>)
           monthly == MonthSlots(l)
           yearly == YearSlots(l)
<1>1. Keys(keys)
  <2>1. <<l>>[1] = l
    OBVIOUS
  <2> QED  BY <2>1, SharedKeysAre
<1> HIDE DEF keys
<1>2. \E n \in Nat : DOMAIN monthly = 1..n
  <2>1. DOMAIN monthly = DOMAIN Among(keys, {k \in Members(keys) : IsMonth(k)})
    BY DEF MonthSlots, SlotsOf, MonthsAmong, keys
  <2>2. Keys(Among(keys, {k \in Members(keys) : IsMonth(k)}))
    BY <1>1, AmongKeys
  <2> QED  BY <2>1, <2>2 DEF Keys
<1>3. \E n \in Nat : DOMAIN yearly = 1..n
  <2>1. DOMAIN yearly = DOMAIN YearsAmong(keys)
    BY DEF YearSlots, SlotsOf, keys
  <2> QED  BY <1>1, <2>1, YearsAmongAre
<1>4. FinestSlots(l) = monthly \/ FinestSlots(l) = yearly
  BY DEF FinestSlots, OrElse
<1>5. ASSUME NEW slots, \E n \in Nat : DOMAIN slots = 1..n, NEW s \in Members(KnownSlots(slots)) PROVE Known(s.cell)
  <2> DEFINE T == {t \in Members(slots) : Known(t.cell)}
  <2>1. \A i \in DOMAIN Among(slots, T) : Among(slots, T)[i] \in T
    <3> HIDE DEF T
    <3> QED  BY <1>5, AmongIs
  <2>2. s \in T
    BY <2>1 DEF KnownSlots, Members
  <2> QED  BY <2>2
<1> HIDE DEF monthly, yearly
<1> QED  BY <1>2, <1>3, <1>4, <1>5 DEF monthly

LEMMA F08Urgent ==
  ASSUME NEW m, Keyed(m["bs.cash"])
  PROVE  Urgent(F08(m)) /\ Shaped(F08(m))
<1> DEFINE slots == KnownSlots(MonthSlots(m["bs.cash"]))
           cells == {s.cell : s \in Members(slots)}
           overdrawn == {ref \in cells : Val(ref) < 0}
<1>1. \/ F08(m) = Insufficient
      \/ F08(m) = Flag(overdrawn, "liquidity", "high")
      \/ F08(m) = Flag({}, "liquidity", "high")
      \/ \E refs : F08(m) = Finish(refs, "liquidity", "medium", "high", "cash_plug")
  BY DEF F08
<1>2. \A ref \in overdrawn : ref \in DOMAIN book.val
  BY SlotsKnown DEF Known
<1> HIDE DEF overdrawn
<1>3. Urgent(Flag(overdrawn, "liquidity", "high")) /\ Urgent(Flag({}, "liquidity", "high"))
  BY <1>2, FlagIs DEF Urgent
<1>4. \A refs : Urgent(Finish(refs, "liquidity", "medium", "high", "cash_plug"))
                  /\ Shaped(Finish(refs, "liquidity", "medium", "high", "cash_plug"))
  BY DEF Finish, Result, Urgent, Shaped
<1>5. Urgent(Insufficient) /\ Shaped(Insufficient)
  BY DEF Insufficient, Result, Urgent, Shaped
<1> QED  BY <1>1, <1>3, <1>4, <1>5, FlagShaped

LEMMA F14Urgent ==
  ASSUME NEW m, Keyed(m["covenant.headroom"])
  PROVE  Urgent(F14(m)) /\ Shaped(F14(m))
<1> DEFINE slots == KnownSlots(FinestSlots(m["covenant.headroom"]))
           gone == {ref \in {s.cell : s \in Members(slots)} : Val(ref) <= 0}
<1>1. F14(m) = Insufficient \/ F14(m) = Flag(gone, "leverage", "high")
  BY DEF F14
<1>2. \A ref \in gone : ref \in DOMAIN book.val
  BY SlotsKnown DEF Known
<1> HIDE DEF gone
<1>3. Urgent(Flag(gone, "leverage", "high"))
  BY <1>2, FlagIs DEF Urgent
<1>5. Urgent(Insufficient) /\ Shaped(Insufficient)
  BY DEF Insufficient, Result, Urgent, Shaped
<1> QED  BY <1>1, <1>3, <1>5, FlagShaped

(* A cover row below one is cited at its lowest number. *)
LEMMA CoverageCited ==
  ASSUME NEW r, Keyed(r), \A k : Cited(At(r, k)), CoverageGap(r) # {}
  PROVE  CoverageGap(r) \cap DOMAIN book.val # {}
<1> DEFINE years == YearKeys(<<r>>)
           T == {k \in Members(years) : At(r, k).known}
           keys == Among(years, T)
           covers == [i \in DOMAIN keys |-> <<At(r, keys[i]).val, 100>>]
           low == keys[Lowest(covers)]
<1>1. CoverageGap(r) = Cells(At(r, low)) /\ keys # <<>>
  BY DEF CoverageGap, LowestCover
<1>2. PICK N \in Nat : DOMAIN years = 1..N
  <2>1. <<r>>[1] = r
    OBVIOUS
  <2> QED  BY <2>1, YearKeysAre
<1>3. \A k \in T : At(r, k).known
  OBVIOUS
<1> HIDE DEF years, T
<1>4. (\E n \in Nat : DOMAIN keys = 1..n) /\ \A n \in DOMAIN keys : keys[n] \in T
  BY <1>2, AmongIs
<1>5. keys = [n \in DOMAIN keys |-> keys[n]]
  BY DEF Among
<1> HIDE DEF keys
<1>6. PICK n \in Nat \ {0} : DOMAIN keys = 1..n
  BY <1>1, <1>4, <1>5
<1>7. covers \in [1..n -> Fraction]
  <2>1. \A i \in 1..n : <<At(r, keys[i]).val, 100>> \in Fraction
    BY DEF Cited, Fraction
  <2> QED  BY <1>6, <2>1
<1> HIDE DEF covers
<1>8. low \in T
  BY <1>4, <1>6, <1>7, LowestIs
<1> QED  BY <1>1, <1>3, <1>8 DEF Cited

Covers == {"cov.dscr", "cov.llcr", "cov.plcr"}

LEMMA F07Urgent ==
  ASSUME NEW m, Measured(m["pnl.ebitda"], m["pnl.interest"]),
         \A c \in Covers : Keyed(m[c]) /\ \A k : Cited(At(m[c], k))
  PROVE  Urgent(F07(m))
<1> DEFINE e == m["pnl.ebitda"]
           i == m["pnl.interest"]
           thin == ThinCover(e, i, IcrKeys(e, i))
           gaps == CoverageGaps(m)
<1>1. F07(m) = Flag(gaps \cup thin.refs, "leverage", IF gaps # {} \/ thin.short THEN "high" ELSE "medium")
  BY DEF F07, Covered
<1>2. thin.refs # {} => thin.refs \cap DOMAIN book.val # {}
  <2> DEFINE keys == IcrKeys(e, i)
  <2>1. (\E n \in Nat : \E S : keys \in [1..n -> S]) /\ Comparable(e, i, keys)
    BY IcrKeysAre DEF Measured
  <2> HIDE DEF keys, e, i
  <2>2. ThinCover(e, i, keys).refs # {} => ThinCover(e, i, keys).refs \cap DOMAIN book.val # {}
    BY <2>1, ThinCoverIs
  <2> QED  BY <2>2 DEF keys
<1>3. gaps # {} => gaps \cap DOMAIN book.val # {}
  <2>1. \A c \in Covers : CoverageGap(m[c]) # {} => CoverageGap(m[c]) \cap DOMAIN book.val # {}
    BY CoverageCited
  <2>2. gaps = UNION {CoverageGap(m[c]) : c \in Covers}
    BY DEF CoverageGaps, Covers
  <2> HIDE DEF gaps
  <2> QED  BY <2>1, <2>2
<1> HIDE DEF thin, gaps
<1>4. F07(m).refs = gaps \cup thin.refs /\ (F07(m).status = "flagged" => gaps \cup thin.refs # {})
  BY <1>1, FlagIs
<1> QED  BY <1>2, <1>3, <1>4 DEF Urgent

(* The other controls are never urgent. *)
Calm == {"F01", "F02", "F03", "F04", "F05", "F06", "F09", "F10", "F11", "F12"}

LEMMA OthersCalm ==
  ASSUME NEW m, NEW f \in Calm
  PROVE  Urgent(Handle(m, f)) /\ Shaped(Handle(m, f))
<1> DEFINE OK(r) == Urgent(r) /\ Shaped(r)
<1>1. \A refs, class, confidence, cause : \A priority \in {"low", "medium"} :
        OK(Finish(refs, class, priority, confidence, cause))
  BY DEF Finish, Result, Urgent, Shaped
<1>2. OK(Insufficient) /\ OK(NotApplicable)
  BY DEF Insufficient, NotApplicable, Result, Urgent, Shaped
<1> HIDE DEF OK
<1>3. \A refs, class : \A priority \in {"low", "medium"} : OK(Flag(refs, class, priority))
  BY <1>1 DEF Flag
<1>4. OK(F01(m)) /\ OK(F02(m)) /\ OK(F03(m)) /\ OK(F11(m))
  BY <1>3 DEF F01, F02, F03, F11
<1>5. OK(F04(m))
  BY <1>1, <1>2 DEF F04
<1>6. OK(F05(m))
  BY <1>2, <1>3 DEF F05
<1>7. OK(F06(m))
  BY <1>1, <1>2 DEF F06, Leveraged
<1>8. OK(F09(m))
  BY <1>2, <1>3 DEF F09
<1>9. OK(F10(m))
  BY <1>2, <1>3 DEF F10
<1>10. OK(F12(m))
  BY <1>2, <1>3 DEF F12, Decoupled
<1>11. OK(Handle(m, f))
  BY <1>4, <1>5, <1>6, <1>7, <1>8, <1>9, <1>10 DEF Handle, Calm
<1> QED  BY <1>11 DEF OK

LEMMA ResultsUrgent ==
  ASSUME WorkbookOK, NEW f \in Controls, NEW broken
  PROVE  Urgent(FrsResults(broken)[f])
<1> DEFINE coarse == f \notin {"F08", "F09"} /\ FromMonths([i \in DOMAIN Needs[f] |-> Lines[Needs[f][i]]])
           handled == Handle(Lines, f)
           mapped == \A c \in Members(Needs[f]) : Mapped(c)
<1>1. FrsResults(broken)[f] = IF mapped THEN Capped(f, handled, broken, coarse) ELSE NotApplicable
  BY DEF FrsResults, Controlled, Control
<1>2. Urgent(handled) /\ Shaped(handled)
  <2>1. {"pnl.ebitda", "pnl.interest", "bs.cash", "covenant.headroom", "cf.dividends"} \cup Covers \subseteq FrsConcepts
    BY DEF FrsConcepts, Covers
  <2>2. \A d \in FrsConcepts : Keyed(Lines[d]) /\ \A k : Cited(At(Lines[d], k))
    BY LinesAre
  <2>3. CASE f = "F08"
    BY <2>1, <2>2, <2>3, F08Urgent DEF Handle
  <2>4. CASE f = "F14"
    BY <2>1, <2>2, <2>4, F14Urgent DEF Handle
  <2>5. CASE f = "F13"
    BY <2>1, <2>2, <2>5, F13Is, HandlesAre, ShortfallsShaped
  <2>6. CASE f = "F07"
    <3>1. Measured(Lines["pnl.ebitda"], Lines["pnl.interest"])
      BY <2>1, <2>2 DEF Measured, Cited
    <3> QED  BY <2>1, <2>2, <2>6, <3>1, F07Urgent, HandlesAre, ShortfallsShaped
  <2>7. CASE f \in Calm
    BY <2>7, OthersCalm
  <2> QED  BY <2>3, <2>4, <2>5, <2>6, <2>7 DEF Controls, Calm
<1> HIDE DEF coarse, handled, mapped
<1>3. Urgent(Capped(f, handled, broken, coarse))
  BY <1>2, CappedKeeps DEF Urgent
<1>4. Urgent(NotApplicable)
  BY DEF NotApplicable, Result, Urgent
<1> QED  BY <1>1, <1>3, <1>4

-----------------------------------------------------------------------------
(* The first cell of a set, and the stage of a detector *)

LEMMA FirstOfIs ==
  ASSUME NEW S \in SUBSET (Nat \X Nat), S # {}
  PROVE  FirstOf(S) \in S
<1> DEFINE rows == {p[1] : p \in S}
           r == Least(rows)
           cols == {p[2] : p \in {q \in S : q[1] = r}}
           c == Least(cols)
<1>1. \A p \in S : p[1] \in Nat /\ p[2] \in Nat /\ p = <<p[1], p[2]>>
  OBVIOUS
<1>2. rows \in SUBSET Nat /\ rows # {}
  BY <1>1
<1> HIDE DEF rows
<1>3. r \in rows /\ \A y \in rows : r <= y
  BY <1>2, LeastIs
<1> HIDE DEF r
<1>4. cols \in SUBSET Nat /\ cols # {}
  BY <1>1, <1>3 DEF rows
<1> HIDE DEF cols
<1>5. c \in cols /\ \A y \in cols : c <= y
  BY <1>4, LeastIs
<1> HIDE DEF c
<1>6. <<r, c>> \in S
  BY <1>1, <1>5 DEF cols
<1>7. \A q \in S : <<r, c>> = q \/ Before(<<r, c>>, q)
  <2> TAKE q \in S
  <2>1. q[1] \in Nat /\ q[2] \in Nat /\ q = <<q[1], q[2]>> /\ r \in Nat /\ c \in Nat
    BY <1>1, <1>2, <1>3, <1>4, <1>5
  <2>2. r <= q[1] /\ (q[1] = r => c <= q[2])
    BY <1>3, <1>5 DEF rows, cols
  <2> QED  BY <2>1, <2>2 DEF Before
<1> QED  BY <1>6, <1>7 DEF FirstOf

LEMMA StagesAre ==
  /\ DOMAIN Stages = 1..53
  /\ \A i \in 1..53 : i # 7 => \A x, y \in Stages[i] : x = y
  /\ Stages[7] = Hardcode \cup {"source_switch"}
  /\ Trusted \cup Hardcode \cup Controls \subseteq UNION {Stages[i] : i \in 1..53}
<1>1. DOMAIN Stages = 1..53
  BY DEF Stages
<1>2. Stages[7] = Hardcode \cup {"source_switch"}
  BY DEF Stages
<1>3. \A i \in 1..53 : i # 7 => \A x, y \in Stages[i] : x = y
  BY DEF Stages
<1>4. Trusted \cup Hardcode \cup Controls \subseteq UNION {Stages[i] : i \in 1..53}
  BY DEF Stages, Trusted, IdentityNames, Hardcode, Controls
<1> QED  BY <1>1, <1>2, <1>3, <1>4

LEMMA NamesFinite == IsFiniteSet(Trusted \cup Hardcode \cup Controls)
<1> DEFINE names == <<"I1", "I3a", "I3b", "I4", "I5", "I6", "I7", "I8", "I8b", "I9", "I10", "I11", "I12", "I13",
                      "excel_error", "error_masking", "circular", "agg_range_gap", "agg_double_count",
                      "scenario_switch", "stress_rate_unchanged", "conflicting_rate", "conflicting_fx",
                      "scale_mismatch", "hidden_input", "external_link",
                      "literal_in_ast", "value_instead_of_formula", "pattern_break",
                      "F01", "F02", "F03", "F04", "F05", "F06", "F07", "F08", "F09", "F10", "F11", "F12", "F13", "F14">>
<1>1. DOMAIN names = 1..43
  OBVIOUS
<1>2. \A x \in Trusted \cup Hardcode \cup Controls : \E i \in 1..43 : x = names[i]
  BY DEF Trusted, IdentityNames, Hardcode, Controls
<1> HIDE DEF names
<1>3. IsFiniteSet(1..43)
  <2>1. 1 \in Int /\ 43 \in Int
    OBVIOUS
  <2> QED  BY <2>1, FS_Interval
<1>4. IsFiniteSet({names[i] : i \in DOMAIN names})
  BY <1>1, <1>3, ValuesFinite
<1>5. Trusted \cup Hardcode \cup Controls \in SUBSET {names[i] : i \in DOMAIN names}
  BY <1>1, <1>2
<1> QED  BY <1>4, <1>5, FS_Subset

(* The order of the detectors: by stage, in one stage by the first cell.   *)
Owned(cards, d) == {c \in cards : c.detector = d}
First(cards, d) == FirstOf(UNION {c.refs \cap book.cells : c \in Owned(cards, d)})
Ahead(cards, d, e) ==
  Stage(d) < Stage(e) \/ (Stage(d) = Stage(e) /\ Before(First(cards, d), First(cards, e)))

(* Cards of detectors the groups are for, each about a cell of the book    *)
(* and typed numbers about one of their own.                               *)
Groupable(cards) ==
  /\ \A x \in cards : x.detector \in Trusted \cup Hardcode \cup Controls /\ x.refs \cap book.cells # {}
  /\ \A x, y \in cards :
       x.detector \in Hardcode /\ y.detector \in Hardcode /\ x.refs \cap y.refs \cap book.cells # {} => x = y

LEMMA AheadIsOrder ==
  ASSUME WorkbookOK, NEW cards, Groupable(cards)
  PROVE  LET S == {c.detector : c \in cards}
         IN  StrictOrder(S, {p \in S \X S : Ahead(cards, p[1], p[2])})
<1> DEFINE S == {c.detector : c \in cards}
           R == {p \in S \X S : Ahead(cards, p[1], p[2])}
<1>1. book.cells \in SUBSET (Nat \X Nat)
  BY DEF WorkbookOK, Sound
<1>2. ASSUME NEW d \in S
      PROVE  /\ Stage(d) \in 1..53 /\ d \in Stages[Stage(d)]
             /\ First(cards, d) \in Nat \X Nat
             /\ \E c \in Owned(cards, d) : First(cards, d) \in c.refs \cap book.cells
  <2>1. PICK c \in cards : d = c.detector
    OBVIOUS
  <2>2. \E i \in DOMAIN Stages : d \in Stages[i]
    BY <2>1, StagesAre DEF Groupable
  <2>3. Stage(d) \in 1..53 /\ d \in Stages[Stage(d)]
    BY <2>2, StagesAre DEF Stage
  <2> DEFINE T == UNION {x.refs \cap book.cells : x \in Owned(cards, d)}
  <2>4. T \in SUBSET (Nat \X Nat)
    BY <1>1
  <2>5. T # {}
    BY <2>1 DEF Groupable, Owned
  <2>6. \A p \in T : \E x \in Owned(cards, d) : p \in x.refs \cap book.cells
    OBVIOUS
  <2>7. First(cards, d) = FirstOf(T)
    BY DEF First
  <2> HIDE DEF T
  <2>8. First(cards, d) \in T
    BY <2>4, <2>5, <2>7, FirstOfIs
  <2> QED  BY <2>3, <2>4, <2>6, <2>8
<1>3. ASSUME NEW d \in S, NEW e \in S, Stage(d) = Stage(e), d # e PROVE First(cards, d) # First(cards, e)
  <2>1. d \in Stages[Stage(d)] /\ e \in Stages[Stage(d)] /\ Stage(d) \in 1..53
    BY <1>2, <1>3
  <2>2. Stage(d) = 7
    BY <1>3, <2>1, StagesAre
  <2>3. d \in Hardcode \cup {"source_switch"} /\ e \in Hardcode \cup {"source_switch"}
    BY <2>1, <2>2, StagesAre
  <2>4. "source_switch" \notin Trusted \cup Hardcode \cup Controls
    BY DEF Trusted, IdentityNames, Hardcode, Controls
  <2>5. d \in Hardcode /\ e \in Hardcode
    BY <2>3, <2>4 DEF Groupable
  <2>6. PICK c \in Owned(cards, d) : First(cards, d) \in c.refs \cap book.cells
    BY <1>2
  <2>7. PICK b \in Owned(cards, e) : First(cards, e) \in b.refs \cap book.cells
    BY <1>2
  <2> QED  BY <1>3, <2>5, <2>6, <2>7 DEF Owned, Groupable
<1> DEFINE stage == [d \in S |-> Stage(d)]
           first == [d \in S |-> First(cards, d)]
<1>4. \A d \in S : stage[d] \in Nat /\ first[d][1] \in Nat /\ first[d][2] \in Nat /\ first[d] = <<first[d][1], first[d][2]>>
  BY <1>2
<1>5. \A d, e \in S : stage[d] = stage[e] /\ d # e => first[d] # first[e]
  BY <1>3
<1>6. \A d, e \in S : Ahead(cards, d, e) <=>
        \/ stage[d] < stage[e]
        \/ stage[d] = stage[e] /\ (\/ first[d][1] < first[e][1]
                                   \/ first[d][1] = first[e][1] /\ first[d][2] < first[e][2])
  BY DEF Ahead, Before
<1>7. \A d, e \in S : <<d, e>> \in R <=> Ahead(cards, d, e)
  OBVIOUS
<1> HIDE DEF R, S, stage, first
<1>8. \A d \in S : <<d, d>> \notin R
  BY <1>4, <1>6, <1>7
<1>9. \A d, e, f \in S : <<d, e>> \in R /\ <<e, f>> \in R => <<d, f>> \in R
  <2> TAKE d, e, f \in S
  <2>1. Ahead(cards, d, e) /\ Ahead(cards, e, f) => Ahead(cards, d, f)
    BY <1>4, <1>6
  <2> QED  BY <1>7, <2>1
<1>10. \A d, e \in S : d # e => <<d, e>> \in R \/ <<e, d>> \in R
  <2> SUFFICES ASSUME NEW d \in S, NEW e \in S, d # e PROVE Ahead(cards, d, e) \/ Ahead(cards, e, d)
    BY <1>7
  <2>1. stage[d] = stage[e] => first[d][1] # first[e][1] \/ first[d][2] # first[e][2]
    BY <1>4, <1>5
  <2> QED  BY <1>4, <1>6, <2>1
<1>11. StrictOrder(S, R)
  BY <1>8, <1>9, <1>10 DEF StrictOrder
<1> QED  BY <1>11 DEF R, S

(* One conclusion for each detector, with all its cards. *)
InOrder(all, kind, cards, n, order) ==
  /\ all = [i \in 1..n |-> Conclusion(kind, order[i], Owned(cards, order[i]))]
  /\ \A i, j \in 1..n : i # j => order[i] # order[j]
  /\ \A c \in cards : \E i \in 1..n : c.detector = order[i]

LEMMA GroupedIs ==
  ASSUME WorkbookOK, NEW kind, NEW cards, Groupable(cards)
  PROVE  \E n \in Nat : \E order : InOrder(Grouped(kind, cards), kind, cards, n, order)
<1> DEFINE S == {c.detector : c \in cards}
           R == {p \in S \X S : Ahead(cards, p[1], p[2])}
           Less(x) == {y \in S : Ahead(cards, y, x)}
           order == [n \in 1..Cardinality(S) |-> CHOOSE x \in S : Cardinality(Less(x)) = n - 1]
<1>1. Grouped(kind, cards) = [i \in DOMAIN order |-> Conclusion(kind, order[i], Owned(cards, order[i]))]
  BY DEF Grouped, Arranged, Owned, First, Ahead
<1>2. IsFiniteSet(S)
  <2>1. S \in SUBSET (Trusted \cup Hardcode \cup Controls)
    BY DEF Groupable
  <2> HIDE DEF S
  <2> QED  BY <2>1, NamesFinite, FS_Subset
<1>3. StrictOrder(S, R)
  BY AheadIsOrder
<1>4. \A x \in S : Cardinality(Less(x)) = Rank(S, R, x)
  <2> TAKE x \in S
  <2>1. Less(x) = {y \in S : <<y, x>> \in R}
    OBVIOUS
  <2> HIDE DEF Less, R, S
  <2> QED  BY <2>1 DEF Rank
<1>5. \A c \in cards : c.detector \in S
  OBVIOUS
<1> DEFINE N == Cardinality(S)
<1>6. order = [n \in 1..N |-> CHOOSE x \in S : Cardinality(Less(x)) = n - 1]
  OBVIOUS
<1> HIDE DEF order, Less, R, S
<1>7. N \in Nat /\ \A n \in 0..(N - 1) : \E x \in S : Rank(S, R, x) = n
  BY <1>2, <1>3, Ranks, FS_CardinalityType
<1>8. \A n \in 1..N : order[n] \in S /\ Rank(S, R, order[n]) = n - 1
  <2> TAKE n \in 1..N
  <2>1. \E x \in S : Rank(S, R, x) = n - 1
    BY <1>7
  <2>2. order[n] = CHOOSE x \in S : Cardinality(Less(x)) = n - 1
    BY <1>6
  <2> QED  BY <1>4, <2>1, <2>2
<1>9. /\ \A m, n \in 1..N : m < n => order[m] # order[n]
      /\ \A x \in S : \E n \in 1..N : order[n] = x
  BY <1>2, <1>3, <1>8, ByRank
<1> HIDE DEF N
<1>10. \A i, j \in 1..N : i # j => order[i] # order[j]
  BY <1>7, <1>9
<1>11. DOMAIN order = 1..N
  BY <1>6
<1>12. Grouped(kind, cards) = [i \in 1..N |-> Conclusion(kind, order[i], Owned(cards, order[i]))]
  BY <1>1, <1>11
<1>13. \A c \in cards : \E i \in 1..N : c.detector = order[i]
  BY <1>5, <1>9
<1>14. InOrder(Grouped(kind, cards), kind, cards, N, order)
  BY <1>10, <1>12, <1>13 DEF InOrder
<1> QED  BY <1>7, <1>14

-----------------------------------------------------------------------------
(* Lists of conclusions that share no card *)

Disjoint(s) ==
  /\ \E n \in Nat : DOMAIN s = 1..n /\ s = [i \in 1..n |-> s[i]]
  /\ \A i, j \in DOMAIN s : i # j => s[i].cards \cap s[j].cards = {}
Concluded(s) == UNION {c.cards : c \in Members(s)}

LEMMA ConcludedIs ==
  ASSUME NEW s, NEW x
  PROVE  x \in Concluded(s) <=> \E i \in DOMAIN s : x \in s[i].cards
BY DEF Concluded, Members

LEMMA ApartJoined ==
  ASSUME NEW s, NEW t, Disjoint(s), Disjoint(t), Concluded(s) \cap Concluded(t) = {}
  PROVE  Disjoint(s \o t) /\ Concluded(s \o t) = Concluded(s) \cup Concluded(t)
<1>1. PICK m \in Nat : DOMAIN s = 1..m /\ s = [i \in 1..m |-> s[i]]
  BY DEF Disjoint
<1>2. PICK n \in Nat : DOMAIN t = 1..n /\ t = [i \in 1..n |-> t[i]]
  BY DEF Disjoint
<1> DEFINE X == {s[i] : i \in 1..m} \cup {t[i] : i \in 1..n}
           all == s \o t
<1>3. s \in Seq(X) /\ t \in Seq(X) /\ Len(s) = m /\ Len(t) = n
  <2>1. s \in [1..m -> X] /\ t \in [1..n -> X]
    BY <1>1, <1>2
  <2> HIDE DEF X
  <2> QED  BY <2>1
<1> HIDE DEF X
<1>4. /\ DOMAIN all = 1..(m + n)
      /\ all = [i \in 1..(m + n) |-> all[i]]
      /\ \A i \in 1..m : all[i] = s[i]
      /\ \A i \in (m + 1)..(m + n) : all[i] = t[i - m]
  <2>1. all \in Seq(X) /\ Len(all) = m + n /\ m + n \in Nat
    BY <1>3
  <2>2. \A i \in 1..m : all[i] = s[i]
    BY <1>3
  <2>3. \A i \in (m + 1)..(m + n) : all[i] = t[i - m]
    BY <1>3
  <2> HIDE DEF all
  <2>4. all = [i \in 1..(m + n) |-> all[i]] /\ DOMAIN all = 1..(m + n)
    BY <2>1
  <2> QED  BY <2>2, <2>3, <2>4
<1> HIDE DEF all
<1>5. /\ \A i \in 1..m : s[i].cards \subseteq Concluded(s)
      /\ \A i \in 1..n : t[i].cards \subseteq Concluded(t)
  BY <1>1, <1>2, ConcludedIs
<1>6. ASSUME NEW i \in 1..(m + n), NEW j \in 1..(m + n), i # j PROVE all[i].cards \cap all[j].cards = {}
  <2>1. CASE i \in 1..m /\ j \in 1..m
    BY <1>1, <1>4, <1>6, <2>1 DEF Disjoint
  <2>2. CASE i \in (m + 1)..(m + n) /\ j \in (m + 1)..(m + n)
    <3>1. i - m \in 1..n /\ j - m \in 1..n /\ i - m # j - m
      BY <1>6, <2>2
    <3> QED  BY <1>2, <1>4, <2>2, <3>1 DEF Disjoint
  <2>3. CASE i \in 1..m /\ j \in (m + 1)..(m + n)
    <3>1. j - m \in 1..n
      BY <2>3
    <3> QED  BY <1>4, <1>5, <2>3, <3>1
  <2>4. CASE i \in (m + 1)..(m + n) /\ j \in 1..m
    <3>1. i - m \in 1..n
      BY <2>4
    <3> QED  BY <1>4, <1>5, <2>4, <3>1
  <2> QED  BY <2>1, <2>2, <2>3, <2>4
<1>7. Disjoint(all)
  <2>1. m + n \in Nat
    OBVIOUS
  <2> QED  BY <1>4, <1>6, <2>1 DEF Disjoint
<1>8. ASSUME NEW x PROVE x \in Concluded(all) <=> x \in Concluded(s) \cup Concluded(t)
  <2>1. ASSUME NEW i \in 1..m, x \in s[i].cards PROVE x \in Concluded(all)
    <3>1. i \in 1..(m + n)
      OBVIOUS
    <3> QED  BY <1>4, <2>1, <3>1, ConcludedIs
  <2>2. ASSUME NEW i \in 1..n, x \in t[i].cards PROVE x \in Concluded(all)
    <3>1. i + m \in (m + 1)..(m + n) /\ i + m \in 1..(m + n) /\ (i + m) - m = i
      OBVIOUS
    <3>2. all[i + m] = t[i]
      BY <1>4, <3>1
    <3>3. x \in all[i + m].cards /\ i + m \in DOMAIN all
      BY <1>4, <2>2, <3>1, <3>2
    <3> QED  BY <3>3, ConcludedIs
  <2>3. ASSUME NEW i \in 1..(m + n), x \in all[i].cards PROVE x \in Concluded(s) \cup Concluded(t)
    <3>1. i \in 1..m \/ (i \in (m + 1)..(m + n) /\ i - m \in 1..n)
      OBVIOUS
    <3> QED  BY <1>4, <1>5, <2>3, <3>1
  <2> QED  BY <1>1, <1>2, <1>4, <2>1, <2>2, <2>3, ConcludedIs
<1> QED  BY <1>7, <1>8 DEF all

(* The first of them, up to a number: all, when they are fewer. *)
LEMMA ApartCut ==
  ASSUME NEW s, Disjoint(s), NEW M \in Nat \ {0}
  PROVE  LET cut == SubSeq(s, 1, IF Len(s) < M THEN Len(s) ELSE M)
         IN  /\ \A i, j \in DOMAIN cut : i # j => cut[i].cards \cap cut[j].cards = {}
             /\ Len(cut) < M => Concluded(cut) = Concluded(s)
<1>1. PICK n \in Nat : DOMAIN s = 1..n /\ s = [i \in 1..n |-> s[i]]
  BY DEF Disjoint
<1> DEFINE X == {s[i] : i \in 1..n}
           k == IF Len(s) < M THEN Len(s) ELSE M
           cut == SubSeq(s, 1, k)
<1>2. s \in Seq(X) /\ Len(s) = n
  <2>1. s \in [1..n -> X]
    BY <1>1
  <2> HIDE DEF X
  <2> QED  BY <2>1
<1> HIDE DEF X
<1>3. k \in Nat /\ k <= n /\ (k < M => k = n)
  BY <1>2
<1> HIDE DEF k
<1>4. DOMAIN cut = 1..k /\ Len(cut) = k /\ \A i \in 1..k : cut[i] = s[i]
  BY <1>2, <1>3
<1> HIDE DEF cut
<1>5. \A i, j \in DOMAIN cut : i # j => cut[i].cards \cap cut[j].cards = {}
  <2>1. \A i \in 1..k : i \in DOMAIN s
    BY <1>1, <1>3
  <2> QED  BY <1>4, <2>1 DEF Disjoint
<1>6. ASSUME k = n PROVE Concluded(cut) = Concluded(s)
  BY <1>1, <1>4, <1>6 DEF Concluded, Members
<1> QED  BY <1>3, <1>4, <1>5, <1>6 DEF cut, k

(* Cards are known by their detector and cells; of typed numbers no two    *)
(* are about one cell.                                                     *)
Deck(cards) ==
  /\ \A x, y \in cards : x.detector = y.detector /\ x.refs = y.refs => x = y
  /\ \A x \in cards : x.refs \cap book.cells # {}
  /\ \A x, y \in cards :
       x.detector \in Hardcode /\ y.detector \in Hardcode /\ x.refs \cap y.refs \cap book.cells # {} => x = y

Tokens(cards) == {<<c.detector, c.refs>> : c \in cards}

LEMMA ConclusionIs == \A kind, topic, cards : Conclusion(kind, topic, cards).cards = Tokens(cards)
BY DEF Conclusion, Tokens

LEMMA TokensApart ==
  ASSUME NEW cards, Deck(cards), NEW A \in SUBSET cards, NEW B \in SUBSET cards
  PROVE  /\ A \cap B = {} => Tokens(A) \cap Tokens(B) = {}
         /\ \A c \in cards : <<c.detector, c.refs>> \in Tokens(A) <=> c \in A
BY DEF Deck, Tokens

LEMMA PairsAmong ==
  ASSUME NEW cards
  PROVE  /\ HardcodeEbitda(cards) \in SUBSET cards
         /\ BalanceCash(cards) \in SUBSET cards
         /\ ExternalMetric(cards) \in SUBSET cards
<1>1. HardcodeEbitda(cards) \in SUBSET cards
  BY DEF HardcodeEbitda, Paired
<1>2. BalanceCash(cards) \in SUBSET cards
  BY DEF BalanceCash, Paired
<1>3. ExternalMetric(cards) \in SUBSET cards
  BY DEF ExternalMetric, Paired
<1> QED  BY <1>1, <1>2, <1>3

LEMMA CombosAre ==
  ASSUME NEW cards, Deck(cards)
  PROVE  Disjoint(Combos(cards)) /\ Concluded(Combos(cards)) \subseteq Tokens(cards)
<1> DEFINE first  == HardcodeEbitda(cards)
           second == BalanceCash(cards \ first)
           third  == ExternalMetric(cards \ (first \cup second))
           s == <<Conclusion("combo", "hardcode_ebitda", first), Conclusion("combo", "balance_cash", second),
                  Conclusion("combo", "external_metric", third)>>
           T == {c \in Members(s) : c.cards # {}}
<1>1. Combos(cards) = Among(s, T)
  BY DEF Combos, NotEmpty
<1>2. first \in SUBSET cards /\ second \in SUBSET (cards \ first) /\ third \in SUBSET (cards \ (first \cup second))
  BY PairsAmong
<1>3. DOMAIN s = 1..3 /\ s[1].cards = Tokens(first) /\ s[2].cards = Tokens(second) /\ s[3].cards = Tokens(third)
  BY ConclusionIs
<1> HIDE DEF first, second, third, s
<1>4. /\ s[1].cards \cap s[2].cards = {} /\ s[1].cards \cap s[3].cards = {} /\ s[2].cards \cap s[3].cards = {}
  <2>1. /\ first \in SUBSET cards /\ second \in SUBSET cards /\ third \in SUBSET cards
        /\ first \cap second = {} /\ first \cap third = {} /\ second \cap third = {}
    BY <1>2
  <2> QED  BY <1>3, <2>1, TokensApart
<1>5. \A k, l \in 1..3 : k # l => s[k].cards \cap s[l].cards = {}
  <2>1. \A k \in 1..3 : k = 1 \/ k = 2 \/ k = 3
    OBVIOUS
  <2> QED  BY <1>4, <2>1
<1>6. \A k \in 1..3 : s[k].cards \subseteq Tokens(cards)
  <2>1. Tokens(first) \subseteq Tokens(cards) /\ Tokens(second) \subseteq Tokens(cards) /\ Tokens(third) \subseteq Tokens(cards)
    BY <1>2 DEF Tokens
  <2>2. \A k \in 1..3 : k = 1 \/ k = 2 \/ k = 3
    OBVIOUS
  <2> QED  BY <1>3, <2>1, <2>2
<1> DEFINE combos == Among(s, T)
<1> HIDE DEF T
<1>7. /\ \E n \in Nat : DOMAIN combos = 1..n
      /\ \A i \in DOMAIN combos : \E j \in 1..3 : combos[i] = s[j]
      /\ \A i, j \in DOMAIN combos : i # j => \E k, l \in 1..3 : k # l /\ combos[i] = s[k] /\ combos[j] = s[l]
  <2> DEFINE N == 3
  <2>1. N \in Nat /\ DOMAIN s = 1..N
    BY <1>3
  <2> HIDE DEF N, combos
  <2>2. /\ \E n \in Nat : DOMAIN combos = 1..n
        /\ \A i \in DOMAIN combos : \E j \in 1..N : combos[i] = s[j]
        /\ \A i, j \in DOMAIN combos : i # j => \E k, l \in 1..N : k # l /\ combos[i] = s[k] /\ combos[j] = s[l]
    BY <2>1, AmongIs DEF combos
  <2> QED  BY <2>2 DEF N
<1>8. combos = [i \in DOMAIN combos |-> combos[i]]
  BY DEF Among
<1> HIDE DEF combos
<1>9. Disjoint(combos)
  BY <1>5, <1>7, <1>8 DEF Disjoint
<1>10. Concluded(combos) \subseteq Tokens(cards)
  BY <1>6, <1>7, ConcludedIs
<1> QED  BY <1>1, <1>9, <1>10 DEF combos

LEMMA GroupedApart ==
  ASSUME WorkbookOK, NEW kind, NEW cards, Deck(cards),
         \A c \in cards : c.detector \in Trusted \cup Hardcode \cup Controls
  PROVE  Disjoint(Grouped(kind, cards)) /\ Concluded(Grouped(kind, cards)) = Tokens(cards)
<1> DEFINE all == Grouped(kind, cards)
<1>1. Groupable(cards)
  BY DEF Groupable, Deck
<1>2. PICK n \in Nat : \E order : InOrder(all, kind, cards, n, order)
  BY <1>1, GroupedIs
<1>3. PICK order : InOrder(all, kind, cards, n, order)
  BY <1>2
<1> HIDE DEF all
<1>4. DOMAIN all = 1..n /\ all = [i \in 1..n |-> all[i]] /\ \A i \in 1..n : all[i].cards = Tokens(Owned(cards, order[i]))
  BY <1>3, ConclusionIs DEF InOrder
<1>5. \A x : \A i \in 1..n : x \in all[i].cards <=> \E c \in cards : c.detector = order[i] /\ x = <<c.detector, c.refs>>
  BY <1>4 DEF Tokens, Owned
<1>6. \A i, j \in 1..n : i # j => all[i].cards \cap all[j].cards = {}
  <2> SUFFICES ASSUME NEW i \in 1..n, NEW j \in 1..n, i # j, NEW x \in all[i].cards, x \in all[j].cards PROVE FALSE
    OBVIOUS
  <2>1. x[1] = order[i] /\ x[1] = order[j]
    BY <1>5
  <2> QED  BY <1>3, <2>1 DEF InOrder
<1>7. Disjoint(all)
  BY <1>4, <1>6 DEF Disjoint
<1>8. ASSUME NEW x PROVE x \in Concluded(all) <=> x \in Tokens(cards)
  BY <1>3, <1>4, <1>5, ConcludedIs DEF Tokens, InOrder
<1> QED  BY <1>7, <1>8 DEF all

LEMMA ConclusionsAre ==
  ASSUME WorkbookOK, NEW cards, Deck(cards)
  PROVE  LET all == Conclusions(cards)
         IN  /\ \A i, j \in DOMAIN all : i # j => all[i].cards \cap all[j].cards = {}
             /\ Len(all) < MaxConclusions =>
                  \A c \in cards : c.detector \in Trusted \cup Controls => <<c.detector, c.refs>> \in Concluded(all)
<1> DEFINE combos == Combos(cards)
           taken  == UNION {c.cards : c \in Members(combos)}
           rest   == {c \in cards : <<c.detector, c.refs>> \notin taken /\ c.detector \notin Skipped}
           trust  == {c \in rest : c.detector \in Trusted \/ (c.detector \in Hardcode /\ c.metrics # {})}
           risks  == {c \in rest : c.detector \in Controls}
           first  == Grouped("trust", trust)
           second == Grouped("dynamics", risks)
           all    == combos \o first \o second
           cut    == SubSeq(all, 1, IF Len(all) < MaxConclusions THEN Len(all) ELSE MaxConclusions)
<1>1. Conclusions(cards) = cut
  BY DEF Conclusions
<1>2. Disjoint(combos) /\ taken = Concluded(combos)
  BY CombosAre DEF Concluded
<1>3. /\ trust \in SUBSET cards /\ risks \in SUBSET cards
      /\ \A c \in trust : c.detector \in Trusted \cup Hardcode /\ <<c.detector, c.refs>> \notin taken
      /\ \A c \in risks : c.detector \in Controls /\ <<c.detector, c.refs>> \notin taken
  OBVIOUS
<1>4. \A c \in cards : c.detector \in Trusted \cup Controls =>
        <<c.detector, c.refs>> \in taken \/ c \in trust \/ c \in risks
  BY DEF Trusted, Skipped, Controls, IdentityNames
<1> HIDE DEF combos, taken, trust, risks
<1>5. Deck(trust) /\ Deck(risks)
  BY <1>3 DEF Deck
<1>6. /\ Disjoint(first) /\ Concluded(first) = Tokens(trust)
      /\ Disjoint(second) /\ Concluded(second) = Tokens(risks)
  BY <1>3, <1>5, GroupedApart
<1> HIDE DEF first, second
<1>7. taken \cap Tokens(trust) = {} /\ taken \cap Tokens(risks) = {}
  BY <1>3 DEF Tokens
<1>8. Tokens(trust) \cap Tokens(risks) = {}
  <2>1. (Trusted \cup Hardcode) \cap Controls = {}
    BY DEF Trusted, IdentityNames, Hardcode, Controls
  <2> QED  BY <1>3, <2>1 DEF Tokens
<1>9. Disjoint(combos \o first) /\ Concluded(combos \o first) = taken \cup Tokens(trust)
  BY <1>2, <1>6, <1>7, ApartJoined
<1>10. Disjoint(all) /\ Concluded(all) = taken \cup Tokens(trust) \cup Tokens(risks)
  <2>1. Concluded(combos \o first) \cap Concluded(second) = {}
    BY <1>6, <1>7, <1>8, <1>9
  <2> QED  BY <1>6, <1>9, <2>1, ApartJoined
<1> HIDE DEF all
<1>11. /\ \A i, j \in DOMAIN cut : i # j => cut[i].cards \cap cut[j].cards = {}
       /\ Len(cut) < MaxConclusions => Concluded(cut) = Concluded(all)
  BY <1>10, ApartCut, ReportAssumption
<1> HIDE DEF cut
<1>12. \A c \in cards : c.detector \in Trusted \cup Controls => <<c.detector, c.refs>> \in Concluded(all)
  BY <1>4, <1>10 DEF Tokens
<1> QED  BY <1>1, <1>11, <1>12

-----------------------------------------------------------------------------
(* Every error and every urgent issue is concluded once *)

(* What holds of the results of the stages, as long as they stand. *)
Concluding ==
  /\ Checked => Distinct(check.candidates)
  /\ Screened => \A f \in Controls : Urgent(frs[f])
  /\ FindingsConcluded

LEMMA CardIs ==
  \A c : Card(c).detector = c.detector /\ Card(c).refs = c.refs /\ Card(c).severity = Severity(c)
BY DEF Card

LEMMA CardsDeck ==
  ASSUME NEW cs, Distinct(cs), NEW results
  PROVE  Deck(Cards(cs) \cup Cards(AsCandidates(results)))
<1> DEFINE found == {c \in cs : c.refs \cap book.cells # {}}
           issues == {c \in AsCandidates(results) : c.refs \cap book.cells # {}}
           cards == Cards(cs) \cup Cards(AsCandidates(results))
<1>1. \A x \in cards : \E c \in found \cup issues : x = Card(c)
  BY DEF Cards
<1>2. /\ \A c \in found : c \in cs /\ c.refs \cap book.cells # {}
      /\ \A c \in issues : c \in AsCandidates(results) /\ c.refs \cap book.cells # {}
  OBVIOUS
<1>3. /\ \A c \in AsCandidates(results) : c.detector \in Controls
      /\ \A c, d \in AsCandidates(results) : c.detector = d.detector => c = d
  <2>1. \A c \in AsCandidates(results) : \E f \in Controls : c = Plain(f, results[f].refs)
    BY DEF AsCandidates, Flagged
  <2>2. \A f, refs : Plain(f, refs).detector = f
    BY DetectorOf
  <2> QED  BY <2>1, <2>2
<1> HIDE DEF found, issues, cards
<1>4. Hardcode \cap Controls = {}
  BY DEF Hardcode, Controls
<1>5. ASSUME NEW c \in found \cup issues, NEW d \in found \cup issues, c.detector = d.detector, c.refs = d.refs
      PROVE  c = d
  BY <1>2, <1>3, <1>5 DEF Distinct
<1>6. ASSUME NEW c \in found \cup issues, NEW d \in found \cup issues, c.detector \in Hardcode, d.detector \in Hardcode,
             c.refs \cap d.refs \cap book.cells # {}
      PROVE  c = d
  BY <1>2, <1>3, <1>4, <1>6 DEF Distinct
<1>7. \A x, y \in cards : x.detector = y.detector /\ x.refs = y.refs => x = y
  BY <1>1, <1>5, CardIs
<1>8. \A x \in cards : x.refs \cap book.cells # {}
  BY <1>1, <1>2, CardIs
<1>9. \A x, y \in cards :
       x.detector \in Hardcode /\ y.detector \in Hardcode /\ x.refs \cap y.refs \cap book.cells # {} => x = y
  BY <1>1, <1>6, CardIs
<1> QED  BY <1>7, <1>8, <1>9 DEF Deck, cards

LEMMA ErrorsTrusted ==
  ASSUME NEW c, Severity(c) = "error"
  PROVE  c.detector \in Trusted
<1>1. BaseSeverity(c.detector) = "error"
  BY DEF Severity
<1>2. c.detector \in IdentityNames \cup {"excel_error", "circular", "agg_double_count", "scenario_switch"}
  BY <1>1 DEF BaseSeverity
<1> QED  BY <1>2 DEF Trusted

LEMMA ReportConcludes ==
  ASSUME WorkbookOK, NEW cs, Distinct(cs), NEW results, \A f \in Controls : Urgent(results[f]), NEW questions
  PROVE  LET all == Compose(cs, questions, results).conclusions
         IN  /\ \A i, j \in DOMAIN all : i # j => all[i].cards \cap all[j].cards = {}
             /\ Len(all) < MaxConclusions =>
                  /\ \A card \in Compose(cs, questions, results).findings :
                       card.severity = "error" => <<card.detector, card.refs>> \in Concluded(all)
                  /\ \A f \in HighIssues(results) : <<f, results[f].refs>> \in Concluded(all)
<1> DEFINE cards == Cards(cs) \cup Cards(AsCandidates(results))
           all == Conclusions(cards)
<1>1. /\ Compose(cs, questions, results).conclusions = all
      /\ Compose(cs, questions, results).findings = Cards(cs)
  BY DEF Compose
<1>2. Deck(cards)
  BY CardsDeck
<1>3. Cards(cs) \subseteq cards
  OBVIOUS
<1>4. \A card \in Cards(cs) : card.severity = "error" => card.detector \in Trusted
  <2>1. \A card \in Cards(cs) : \E c : card = Card(c)
    BY DEF Cards
  <2> QED  BY <2>1, CardIs, ErrorsTrusted
<1>5. ASSUME NEW f \in HighIssues(results)
      PROVE  \E card \in cards : card.detector = f /\ card.refs = results[f].refs /\ f \in Controls
  <2>1. f \in Controls /\ results[f].status = "flagged" /\ results[f].priority = "high"
    BY DEF HighIssues, Flagged
  <2>2. results[f].refs \cap book.cells # {}
    BY <2>1 DEF Urgent, WorkbookOK, Sound
  <2> DEFINE c == Plain(f, results[f].refs)
  <2>3. c.detector = f /\ c.refs = results[f].refs
    BY DetectorOf
  <2>4. c \in AsCandidates(results)
    BY <2>1 DEF AsCandidates, Flagged
  <2> HIDE DEF c
  <2>5. Card(c) \in Cards(AsCandidates(results))
    BY <2>2, <2>3, <2>4 DEF Cards
  <2> QED  BY <2>1, <2>3, <2>5, CardIs
<1> HIDE DEF cards
<1>6. /\ \A i, j \in DOMAIN all : i # j => all[i].cards \cap all[j].cards = {}
      /\ Len(all) < MaxConclusions =>
           \A c \in cards : c.detector \in Trusted \cup Controls => <<c.detector, c.refs>> \in Concluded(all)
  BY <1>2, ConclusionsAre
<1> HIDE DEF all
<1> QED  BY <1>1, <1>3, <1>4, <1>5, <1>6

LEMMA ConcludingKept ==
  ASSUME WorkbookOK, Concluding, [Next]_vars
  PROVE  Concluding'
<1>1. CASE CheckWorkbook
  <2>1. check'.candidates = Candidates /\ book' = book /\ phase' = "checked"
    BY <1>1 DEF CheckWorkbook
  <2>2. Distinct(check.candidates)'
    BY <2>1, CandidatesDistinct DEF Distinct
  <2> QED  BY <2>1, <2>2 DEF Concluding, Screened, FindingsConcluded
<1>2. CASE FrsWorkbook
  <2>1. /\ frs' = FrsResults(BrokenIdentities) /\ UNCHANGED <<book, check>>
        /\ phase = "checked" /\ phase' = "screened"
    BY <1>2 DEF FrsWorkbook
  <2>2. Distinct(check.candidates)'
    BY <2>1 DEF Concluding, Checked, Distinct
  <2>3. \A f \in Controls : Urgent(frs[f])'
    BY <2>1, ResultsUrgent DEF Urgent
  <2> QED  BY <2>1, <2>2, <2>3 DEF Concluding, FindingsConcluded
<1>3. CASE ExplainWorkbook
  <2>1. /\ report' = Compose(check.candidates, check.questions, frs) /\ UNCHANGED <<book, check, frs>>
        /\ phase = "screened" /\ phase' = "reported"
    BY <1>3 DEF ExplainWorkbook
  <2>2. Distinct(check.candidates) /\ \A f \in Controls : Urgent(frs[f])
    BY <2>1 DEF Concluding, Checked, Screened
  <2>3. (Distinct(check.candidates) /\ \A f \in Controls : Urgent(frs[f]))'
    BY <2>1, <2>2 DEF Distinct, Urgent
  <2>4. FindingsConcluded'
    BY <2>1, <2>2, ReportConcludes DEF FindingsConcluded, Concluded
  <2> QED  BY <2>3, <2>4 DEF Concluding
<1>4. CASE UNCHANGED vars
  BY <1>4 DEF vars, Concluding, Checked, Screened, Distinct, Urgent, FindingsConcluded
<1>5. ASSUME NEW b, NEW move, Revised(b, move) PROVE Concluding'
  BY <1>5 DEF Revised, Concluding, Checked, Screened, FindingsConcluded
<1>6. ASSUME NEW p \in DOMAIN book.val, NEW d \in Deltas, Correct(p, d) PROVE Concluding'
  BY <1>5, <1>6 DEF Correct
<1>7. ASSUME NEW p \in DOMAIN book.formula, Overwrite(p) PROVE Concluding'
  BY <1>5, <1>7 DEF Overwrite
<1>8. ASSUME NEW n \in Grains, Regrain(n) PROVE Concluding'
  BY <1>5, <1>8 DEF Regrain
<1> QED
  BY <1>1, <1>2, <1>3, <1>4, <1>6, <1>7, <1>8 DEF Next

(* No finding is in two conclusions of a report, and as long as there is   *)
(* room every error and every urgent issue is in one: for every workbook   *)
(* and every bound on their number.                                        *)
THEOREM FindingsAreConcluded == Spec => []FindingsConcluded
<1>1. Init => Concluding
  BY DEF Init, Concluding, Checked, Screened, FindingsConcluded
<1>2. Concluding => FindingsConcluded
  BY DEF Concluding
<1> QED
  BY <1>1, <1>2, BooksStaySound, ConcludingKept, PTL DEF Spec
=============================================================================
