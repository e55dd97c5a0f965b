-------------------------- MODULE AlgorithmProofs ---------------------------
(***************************************************************************)
(* Proofs about the computations of the node (LoopProofs has those about   *)
(* the fixed-point loops).                                                 *)
(*                                                                         *)
(* Colormap: for every iteration count and every metric value.             *)
(* PixelKernels: for every request, every width of the vector registers,   *)
(* every place of the cancel probe and every range of the numbers.         *)
(* Transition: for every slice and every volume as well, with any legs.    *)
(***************************************************************************)
EXTENDS Transition, Colormap, TLAPS, WellFoundedInduction

-----------------------------------------------------------------------------
(* Integers.                                                               *)

LEMMA Products ==
  \A a, b \in Int : a * b \in Int /\ a * b = b * a /\ (a >= 0 /\ b >= 0 => a * b >= 0)
  OBVIOUS

LEMMA MultipliesInOrder ==
  \A a, b \in Int, u \in Nat : a <= b => u * a <= u * b
  OBVIOUS

LEMMA Quotient ==
  \A a \in Int, u \in Nat \ {0} :
    /\ a \div u \in Int /\ u * (a \div u) <= a /\ a < u * (a \div u) + u
    /\ a >= 0 => a \div u >= 0
  OBVIOUS

LEMMA QuotientIs ==
  \A a, q \in Int, u \in Nat \ {0} : u * q <= a /\ a < u * q + u => a \div u = q
  OBVIOUS

LEMMA Remains ==
  \A a \in Int, u \in Nat \ {0} : a % u = a - u * (a \div u) /\ a % u \in Nat /\ a % u < u
  OBVIOUS

LEMMA RemainsIs ==
  \A a, q \in Int, u \in Nat \ {0} : u * q <= a /\ a < u * q + u => a % u = a - u * q
<1> SUFFICES ASSUME NEW a \in Int, NEW q \in Int, NEW u \in Nat \ {0}, u * q <= a, a < u * q + u
             PROVE  a % u = a - u * q
  OBVIOUS
<1>1. a \div u = q
  BY QuotientIs
<1>2. a % u = a - u * (a \div u)
  BY Remains
<1> QED BY <1>1, <1>2

(* A quotient is compared through its multiple.                            *)

-----------------------------------------------------------------------------
(* Recursive functions.                                                    *)

LEMMA LeastNumber ==
  ASSUME NEW T \in SUBSET Nat, T # {}
  PROVE  \E n \in T : \A m \in T : n <= m
<1>1. IsWellFoundedOn(OpToRel(<, Nat), Nat)
  BY NatLessThanWellFounded
<1>2. PICK n \in T : \A m \in T : ~(<<m, n>> \in OpToRel(<, Nat))
  BY <1>1, WFMin
<1>3. \A m \in T : ~(m < n)
  BY <1>2 DEF OpToRel
<1> QED BY <1>3

LEMMA Induction ==
  ASSUME NEW T \in SUBSET Nat, 0 \in T, \A n \in T : n + 1 \in T
  PROVE  T = Nat
<1>1. SUFFICES ASSUME Nat \ T # {} PROVE FALSE
  OBVIOUS
<1>2. PICK n \in Nat \ T : \A m \in Nat \ T : n <= m
  BY <1>1, LeastNumber
<1>3. n # 0 /\ n - 1 \in Nat
  BY <1>2
<1>4. n - 1 \in T
  BY <1>2, <1>3
<1> QED BY <1>2, <1>3, <1>4

(* A function that is defined from its value before.                       *)
Recurs(f, a, b, n) == f[0] = a /\ \A i \in 1 .. n : f[i] = b[<<i, f[i - 1]>>]

LEMMA Recursion ==
  ASSUME NEW S, NEW a \in S, NEW b \in [Nat \X S -> S], NEW n \in Nat
  PROVE  \E f \in [0 .. n -> S] : Recurs(f, a, b, n)
<1> USE DEF Recurs
<1> DEFINE Defined(k) == \E f \in [0 .. k -> S] : f[0] = a /\ \A i \in 1 .. k : f[i] = b[<<i, f[i - 1]>>]
           T == {k \in Nat : Defined(k)}
<1>1. 0 \in T
  <2>1. [i \in 0 .. 0 |-> a] \in [0 .. 0 -> S]
    OBVIOUS
  <2>2. [i \in 0 .. 0 |-> a][0] = a /\ 1 .. 0 = {}
    OBVIOUS
  <2>3. Defined(0)
    BY <2>1, <2>2
  <2> QED BY <2>3
<1>2. ASSUME NEW k \in T PROVE k + 1 \in T
  <2>1. PICK f \in [0 .. k -> S] : f[0] = a /\ \A i \in 1 .. k : f[i] = b[<<i, f[i - 1]>>]
    OBVIOUS
  <2>2. k \in Nat /\ b[<<k + 1, f[k]>>] \in S
    BY <2>1
  <2>3. PICK g : g = [i \in 0 .. k + 1 |-> IF i = k + 1 THEN b[<<k + 1, f[k]>>] ELSE f[i]]
    OBVIOUS
  <2>4. g \in [0 .. k + 1 -> S]
    BY <2>2, <2>3
  <2>5. g[0] = a
    BY <2>1, <2>2, <2>3
  <2>6. \A i \in 1 .. k + 1 : g[i] = b[<<i, g[i - 1]>>]
    <3> SUFFICES ASSUME NEW i \in 1 .. k + 1 PROVE g[i] = b[<<i, g[i - 1]>>]
      OBVIOUS
    <3>1. i - 1 \in 0 .. k /\ g[i - 1] = f[i - 1]
      BY <2>2, <2>3
    <3>2. CASE i = k + 1
      <4>1. g[i] = b[<<k + 1, f[k]>>]
        BY <2>2, <2>3, <3>2
      <4>2. g[i - 1] = f[k]
        BY <2>2, <3>1, <3>2
      <4> QED BY <3>2, <4>1, <4>2
    <3>3. CASE i \in 1 .. k
      BY <2>1, <2>2, <2>3, <3>1, <3>3
    <3> QED BY <2>2, <3>2, <3>3
  <2>7. Defined(k + 1)
    BY <2>4, <2>5, <2>6
  <2>8. k + 1 \in Nat
    BY <2>2
  <2> HIDE DEF Defined
  <2> QED BY <2>7, <2>8
<1>3. T = Nat
  <2> HIDE DEF T
  <2>1. T \in SUBSET Nat
    BY DEF T
  <2> QED BY <1>1, <1>2, <2>1, Induction
<1> QED BY <1>3

LEMMA UpTo ==
  ASSUME NEW T, NEW n \in Nat, 0 \in T, \A i \in 1 .. n : i - 1 \in T => i \in T
  PROVE  \A i \in 0 .. n : i \in T
<1> DEFINE R == {i \in Nat : i <= n => i \in T}
<1>1. 0 \in R
  OBVIOUS
<1>2. ASSUME NEW i \in R PROVE i + 1 \in R
  <2>1. i \in Nat /\ (i <= n => i \in T)
    OBVIOUS
  <2>2. i + 1 <= n => i + 1 \in 1 .. n /\ (i + 1) - 1 = i
    BY <2>1
  <2>3. i + 1 <= n => i + 1 \in T
    BY <2>1, <2>2
  <2> QED BY <2>1, <2>3
<1>3. R = Nat
  <2>1. R \in SUBSET Nat
    OBVIOUS
  <2> HIDE DEF R
  <2> QED BY <1>1, <1>2, <2>1, Induction
<1> QED BY <1>3

(* How the folds treat a number.                                            *)
Signs == {"+", "-", "|"}
Folding == [1 .. 4 -> Signs]


-----------------------------------------------------------------------------
(* Gradients.                                                              *)

Stops(p) == gradient_stops[p]
Segments(p) == d_gradient_segments[p]
Level == 0 .. 255

(* The segments of the GPU are those between neighbouring stops.           *)
LEMMA SegmentsJoinStops ==
  ASSUME NEW p \in Gradients
  PROVE  LET s == Stops(p) IN
         /\ Len(s) \in Nat /\ Len(s) >= 2 /\ Len(Segments(p)) = Len(s) - 1
         /\ s[1][1] = 0 /\ s[Len(s)][1] = 100
         /\ \A i \in 1 .. Len(s) : s[i][1] \in Nat /\ \A c \in 2 .. 4 : s[i][c] \in Level
         /\ \A i \in 1 .. Len(s) - 1 : s[i][1] < s[i + 1][1]
         /\ \A i \in 1 .. Len(s) - 1 :
              LET g == Segments(p)[i] IN
              /\ g[1] = s[i][1] /\ g[2] = s[i + 1][1]
              /\ \A c \in 2 .. 4 : g[c + 1] = s[i][c] /\ g[c + 4] = s[i + 1][c]
<1>0. Inferno = 6 /\ Viridis = 7 /\ Twilight = 8 /\ EmberBlue = 9
  BY DEF Inferno, Viridis, Twilight, EmberBlue
<1>1. CASE p = Inferno
  <2>1. Len(Stops(p)) = 9 /\ Stops(p)[1][1] = 0 /\ Stops(p)[9][1] = 100
    BY <1>0, <1>1, SMTT(60) DEF Stops, gradient_stops, Gradients
  <2>2. Len(Segments(p)) = 8
    BY <1>0, <1>1, SMTT(60) DEF Segments, d_gradient_segments, Gradients
  <2>3. ASSUME NEW i \in 1 .. 9
        PROVE  Stops(p)[i][1] \in Nat /\ Stops(p)[i][2] \in Level
               /\ Stops(p)[i][3] \in Level /\ Stops(p)[i][4] \in Level
    <3>1. Stops(p)[i][1] \in Nat
      BY <1>0, <1>1, SMTT(60) DEF Stops, gradient_stops, Gradients, Level
    <3>2. Stops(p)[i][2] \in Level
      BY <1>0, <1>1, SMTT(60) DEF Stops, gradient_stops, Gradients, Level
    <3>3. Stops(p)[i][3] \in Level
      BY <1>0, <1>1, SMTT(60) DEF Stops, gradient_stops, Gradients, Level
    <3>4. Stops(p)[i][4] \in Level
      BY <1>0, <1>1, SMTT(60) DEF Stops, gradient_stops, Gradients, Level
    <3> QED BY <3>1, <3>2, <3>3, <3>4
  <2>4. \A i \in 1 .. 8 : Stops(p)[i][1] < Stops(p)[i + 1][1]
    BY <1>0, <1>1, SMTT(60) DEF Stops, gradient_stops, Gradients
  <2>5. \A i \in 1 .. 8 :
          LET g == Segments(p)[i]
              a == Stops(p)[i]
              b == Stops(p)[i + 1]
          IN g[1] = a[1] /\ g[2] = b[1] /\ g[3] = a[2] /\ g[4] = a[3] /\ g[5] = a[4]
             /\ g[6] = b[2] /\ g[7] = b[3] /\ g[8] = b[4]
    BY <1>0, <1>1, SMTT(60) DEF Stops, gradient_stops, Gradients, Segments, d_gradient_segments
  <2> QED BY <2>1, <2>2, <2>3, <2>4, <2>5, SMTT(60)
<1>2. CASE p = Viridis
  <2>1. Len(Stops(p)) = 5 /\ Stops(p)[1][1] = 0 /\ Stops(p)[5][1] = 100
    BY <1>0, <1>2, SMTT(60) DEF Stops, gradient_stops, Gradients
  <2>2. Len(Segments(p)) = 4
    BY <1>0, <1>2, SMTT(60) DEF Segments, d_gradient_segments, Gradients
  <2>3. ASSUME NEW i \in 1 .. 5
        PROVE  Stops(p)[i][1] \in Nat /\ Stops(p)[i][2] \in Level
               /\ Stops(p)[i][3] \in Level /\ Stops(p)[i][4] \in Level
    <3>1. Stops(p)[i][1] \in Nat
      BY <1>0, <1>2, SMTT(60) DEF Stops, gradient_stops, Gradients, Level
    <3>2. Stops(p)[i][2] \in Level
      BY <1>0, <1>2, SMTT(60) DEF Stops, gradient_stops, Gradients, Level
    <3>3. Stops(p)[i][3] \in Level
      BY <1>0, <1>2, SMTT(60) DEF Stops, gradient_stops, Gradients, Level
    <3>4. Stops(p)[i][4] \in Level
      BY <1>0, <1>2, SMTT(60) DEF Stops, gradient_stops, Gradients, Level
    <3> QED BY <3>1, <3>2, <3>3, <3>4
  <2>4. \A i \in 1 .. 4 : Stops(p)[i][1] < Stops(p)[i + 1][1]
    BY <1>0, <1>2, SMTT(60) DEF Stops, gradient_stops, Gradients
  <2>5. \A i \in 1 .. 4 :
          LET g == Segments(p)[i]
              a == Stops(p)[i]
              b == Stops(p)[i + 1]
          IN g[1] = a[1] /\ g[2] = b[1] /\ g[3] = a[2] /\ g[4] = a[3] /\ g[5] = a[4]
             /\ g[6] = b[2] /\ g[7] = b[3] /\ g[8] = b[4]
    BY <1>0, <1>2, SMTT(60) DEF Stops, gradient_stops, Gradients, Segments, d_gradient_segments
  <2> QED BY <2>1, <2>2, <2>3, <2>4, <2>5, SMTT(60)
<1>3. CASE p = Twilight
  <2>1. Len(Stops(p)) = 7 /\ Stops(p)[1][1] = 0 /\ Stops(p)[7][1] = 100
    BY <1>0, <1>3, SMTT(60) DEF Stops, gradient_stops, Gradients
  <2>2. Len(Segments(p)) = 6
    BY <1>0, <1>3, SMTT(60) DEF Segments, d_gradient_segments, Gradients
  <2>3. ASSUME NEW i \in 1 .. 7
        PROVE  Stops(p)[i][1] \in Nat /\ Stops(p)[i][2] \in Level
               /\ Stops(p)[i][3] \in Level /\ Stops(p)[i][4] \in Level
    <3>1. Stops(p)[i][1] \in Nat
      BY <1>0, <1>3, SMTT(60) DEF Stops, gradient_stops, Gradients, Level
    <3>2. Stops(p)[i][2] \in Level
      BY <1>0, <1>3, SMTT(60) DEF Stops, gradient_stops, Gradients, Level
    <3>3. Stops(p)[i][3] \in Level
      BY <1>0, <1>3, SMTT(60) DEF Stops, gradient_stops, Gradients, Level
    <3>4. Stops(p)[i][4] \in Level
      BY <1>0, <1>3, SMTT(60) DEF Stops, gradient_stops, Gradients, Level
    <3> QED BY <3>1, <3>2, <3>3, <3>4
  <2>4. \A i \in 1 .. 6 : Stops(p)[i][1] < Stops(p)[i + 1][1]
    BY <1>0, <1>3, SMTT(60) DEF Stops, gradient_stops, Gradients
  <2>5. \A i \in 1 .. 6 :
          LET g == Segments(p)[i]
              a == Stops(p)[i]
              b == Stops(p)[i + 1]
          IN g[1] = a[1] /\ g[2] = b[1] /\ g[3] = a[2] /\ g[4] = a[3] /\ g[5] = a[4]
             /\ g[6] = b[2] /\ g[7] = b[3] /\ g[8] = b[4]
    BY <1>0, <1>3, SMTT(60) DEF Stops, gradient_stops, Gradients, Segments, d_gradient_segments
  <2> QED BY <2>1, <2>2, <2>3, <2>4, <2>5, SMTT(60)
<1>4. CASE p = EmberBlue
  <2>1. Len(Stops(p)) = 5 /\ Stops(p)[1][1] = 0 /\ Stops(p)[5][1] = 100
    BY <1>0, <1>4, SMTT(60) DEF Stops, gradient_stops, Gradients
  <2>2. Len(Segments(p)) = 4
    BY <1>0, <1>4, SMTT(60) DEF Segments, d_gradient_segments, Gradients
  <2>3. ASSUME NEW i \in 1 .. 5
        PROVE  Stops(p)[i][1] \in Nat /\ Stops(p)[i][2] \in Level
               /\ Stops(p)[i][3] \in Level /\ Stops(p)[i][4] \in Level
    <3>1. Stops(p)[i][1] \in Nat
      BY <1>0, <1>4, SMTT(60) DEF Stops, gradient_stops, Gradients, Level
    <3>2. Stops(p)[i][2] \in Level
      BY <1>0, <1>4, SMTT(60) DEF Stops, gradient_stops, Gradients, Level
    <3>3. Stops(p)[i][3] \in Level
      BY <1>0, <1>4, SMTT(60) DEF Stops, gradient_stops, Gradients, Level
    <3>4. Stops(p)[i][4] \in Level
      BY <1>0, <1>4, SMTT(60) DEF Stops, gradient_stops, Gradients, Level
    <3> QED BY <3>1, <3>2, <3>3, <3>4
  <2>4. \A i \in 1 .. 4 : Stops(p)[i][1] < Stops(p)[i + 1][1]
    BY <1>0, <1>4, SMTT(60) DEF Stops, gradient_stops, Gradients
  <2>5. \A i \in 1 .. 4 :
          LET g == Segments(p)[i]
              a == Stops(p)[i]
              b == Stops(p)[i + 1]
          IN g[1] = a[1] /\ g[2] = b[1] /\ g[3] = a[2] /\ g[4] = a[3] /\ g[5] = a[4]
             /\ g[6] = b[2] /\ g[7] = b[3] /\ g[8] = b[4]
    BY <1>0, <1>4, SMTT(60) DEF Stops, gradient_stops, Gradients, Segments, d_gradient_segments
  <2> QED BY <2>1, <2>2, <2>3, <2>4, <2>5, SMTT(60)
<1> QED BY <1>1, <1>2, <1>3, <1>4 DEF Gradients

Chosen(s, k, n) ==
  CHOOSE i \in 2 .. Len(s) : 100 * k <= s[i][1] * n /\ \A j \in 2 .. i - 1 : 100 * k > s[j][1] * n

(* The first stop at or after a position is the end of the segment hit.    *)
LEMMA SegmentIsHit ==
  ASSUME NEW p \in Gradients, NEW n \in Nat \ {0}, NEW k \in 1 .. n
  PROVE  LET s   == Stops(p)
             i   == Chosen(s, k, n)
             hit == {m \in 1 .. Len(Segments(p)) - 1 : 100 * k <= Segments(p)[m][2] * n}
         IN /\ i \in 2 .. Len(s) /\ s[i - 1][1] * n < 100 * k /\ 100 * k <= s[i][1] * n
            /\ i - 1 = IF hit = {} THEN Len(Segments(p)) ELSE CHOOSE m \in hit : \A j \in hit : m <= j
<1> DEFINE s == Stops(p)
           g == Segments(p)
           N == Len(s)
           hit == {m \in 1 .. Len(g) - 1 : 100 * k <= g[m][2] * n}
<1>1. N \in Nat /\ N >= 2 /\ Len(g) = N - 1
  BY SegmentsJoinStops
<1>2. s[1][1] = 0 /\ s[N][1] = 100 /\ \A i \in 1 .. N : s[i][1] \in Nat
  BY SegmentsJoinStops
<1>3. \A i \in 1 .. N - 1 : g[i][2] = s[i + 1][1]
  BY SegmentsJoinStops
<1> HIDE DEF s, g, N
<1>4. PICK at \in [1 .. N -> Int] : \A i \in 1 .. N : at[i] = s[i][1] * n
  <2>1. [i \in 1 .. N |-> s[i][1] * n] \in [1 .. N -> Int]
    BY <1>2
  <2> QED BY <2>1
<1>5. at[1] = 0 /\ at[N] = 100 * n
  BY <1>1, <1>2, <1>4
<1>6. hit = {m \in 1 .. N - 2 : 100 * k <= at[m + 1]}
  <2>1. ASSUME NEW m \in 1 .. N - 2 PROVE g[m][2] * n = at[m + 1]
    <3>1. m \in 1 .. N - 1 /\ m + 1 \in 1 .. N
      BY <1>1
    <3>2. g[m][2] = s[m + 1][1] /\ at[m + 1] = s[m + 1][1] * n
      BY <1>3, <1>4, <3>1
    <3> QED BY <3>2
  <2>2. Len(g) - 1 = N - 2
    BY <1>1
  <2> QED BY <2>1, <2>2
<1> DEFINE Reached == {i \in 2 .. N : 100 * k <= at[i]}
<1>7. PICK i \in Reached : \A m \in Reached : i <= m
  <2>1. Reached \in SUBSET Nat /\ N \in Reached
    BY <1>1, <1>5
  <2> HIDE DEF Reached
  <2> QED BY <2>1, LeastNumber
<1>8. i \in 2 .. N /\ 100 * k <= at[i] /\ \A j \in 2 .. i - 1 : 100 * k > at[j]
  <2>1. \A j \in 2 .. N : 100 * k <= at[j] => i <= j
    BY <1>7
  <2>2. i \in 2 .. N /\ 100 * k <= at[i]
    BY <1>7
  <2>3. ASSUME NEW j \in 2 .. i - 1 PROVE 100 * k > at[j]
    <3> HIDE DEF Reached
    <3>1. j \in 2 .. N /\ at[j] \in Int /\ ~(i <= j)
      BY <1>1, <1>4, <2>2
    <3> QED BY <2>1, <3>1
  <2> QED BY <2>2, <2>3
<1>9. \A m \in 2 .. N : 100 * k <= at[m] /\ (\A j \in 2 .. m - 1 : 100 * k > at[j]) => m = i
  <2> SUFFICES ASSUME NEW m \in 2 .. N, 100 * k <= at[m], \A j \in 2 .. m - 1 : 100 * k > at[j]
               PROVE  m = i
    OBVIOUS
  <2>1. ~(m < i)
    BY <1>8
  <2>2. ~(i < m)
    BY <1>4, <1>8
  <2> QED BY <1>8, <2>1, <2>2
<1>10. Chosen(s, k, n) = i
  <2>1. \A m \in 2 .. N : \A j \in 2 .. m - 1 : j \in 1 .. N /\ at[j] = s[j][1] * n
    BY <1>1, <1>4
  <2>2. ASSUME NEW m \in 2 .. N
        PROVE  (100 * k <= s[m][1] * n /\ \A j \in 2 .. m - 1 : 100 * k > s[j][1] * n) <=> m = i
    <3>1. s[m][1] * n = at[m] /\ \A j \in 2 .. m - 1 : s[j][1] * n = at[j]
      BY <1>4, <2>1
    <3> QED BY <1>8, <1>9, <3>1
  <2> QED BY <1>8, <2>2 DEF Chosen, N
<1>11. at[i - 1] < 100 * k
  <2>1. CASE i = 2
    BY <1>5, <2>1
  <2>2. CASE i # 2
    <3>1. i \in 2 .. N
      BY <1>8
    <3>2. i - 1 \in 2 .. i - 1 /\ i - 1 \in 1 .. N
      BY <1>1, <2>2, <3>1
    <3> QED BY <1>4, <1>8, <3>2
  <2> QED BY <2>1, <2>2
<1>12. i - 1 = IF hit = {} THEN Len(g) ELSE CHOOSE m \in hit : \A j \in hit : m <= j
  <2>1. CASE i = N
    <3>1. ASSUME NEW m \in 1 .. N - 2 PROVE ~(100 * k <= at[m + 1])
      <4>1. m + 1 \in 2 .. i - 1 /\ at[m + 1] \in Int
        BY <1>1, <1>4, <2>1
      <4> QED BY <1>8, <4>1
    <3>2. hit = {}
      BY <1>6, <3>1
    <3> QED BY <1>1, <2>1, <3>2
  <2>2. CASE i # N
    <3>1. i - 1 \in hit
      BY <1>1, <1>6, <1>8, <2>2, SMTT(30)
    <3>2. ASSUME NEW j \in hit PROVE i - 1 <= j
      <4>1. j \in 1 .. N - 2 /\ 100 * k <= at[j + 1]
        BY <1>6
      <4>2. j + 1 \in 2 .. N /\ at[j + 1] \in Int
        BY <1>1, <1>4, <4>1
      <4>3. ~(j + 1 <= i - 1)
        BY <1>8, <4>1, <4>2
      <4> QED BY <1>8, <4>1, <4>3
    <3>3. hit \in SUBSET Int
      BY <1>6
    <3> HIDE DEF hit
    <3>4. \A m \in hit : (\A j \in hit : m <= j) <=> m = i - 1
      BY <3>1, <3>2, <3>3, <1>8
    <3> QED BY <3>1, <3>4
  <2> QED BY <2>1, <2>2
<1>13. i \in 2 .. Len(s) /\ s[i - 1][1] * n < 100 * k /\ 100 * k <= s[i][1] * n
  <2> HIDE DEF hit, Reached
  <2>1. i \in 1 .. N /\ i - 1 \in 1 .. N
    BY <1>1, <1>8
  <2>2. at[i - 1] = s[i - 1][1] * n /\ at[i] = s[i][1] * n
    BY <1>4, <2>1
  <2> QED BY <1>8, <1>11, <2>2 DEF N
<1> QED BY <1>10, <1>12, <1>13, Zenon DEF s, g, N

(* A colour at the very end of a segment is that of its stop.              *)
LEMMA MixAtStop ==
  ASSUME NEW den \in Nat \ {0}, NEW v \in Level
  PROVE  clamp255((2 * (v * den) + den) \div (2 * den)) = v
<1>1. PICK w \in Nat : w = v * den
  BY DEF Level
<1>2. (2 * den) * v = 2 * w
  BY <1>1 DEF Level
<1>3. (2 * w + den) \div (2 * den) = v
  BY <1>1, <1>2, QuotientIs DEF Level
<1> QED BY <1>1, <1>3 DEF clamp255, Level

LEMMA GradientsAgree ==
  ASSUME NEW p \in Gradients, NEW n \in Nat \ {0}, NEW k \in Int
  PROVE  colorize_gradient_palette_bgr(k, n, p) = d_gradient_palette_bgr(k, n, p)
<1> DEFINE s == Stops(p)
           g == Segments(p)
           t == AtLeast(0, AtMost(k, n))
           hit == {m \in 1 .. Len(g) - 1 : 100 * t <= g[m][2] * n}
           seg == g[IF hit = {} THEN Len(g) ELSE CHOOSE m \in hit : \A j \in hit : m <= j]
<1>0. d_gradient_palette_bgr(k, n, p) = d_gradient_set(seg, t, n)
  BY DEF d_gradient_palette_bgr, Segments
<1>1. Len(s) \in Nat /\ Len(s) >= 2 /\ Len(g) = Len(s) - 1
  BY SegmentsJoinStops
<1>2. \A i \in 1 .. Len(s) : s[i][1] \in Nat /\ \A c \in 2 .. 4 : s[i][c] \in Level
  BY SegmentsJoinStops
<1>3. \A i \in 1 .. Len(s) - 1 :
        /\ s[i][1] < s[i + 1][1] /\ g[i][1] = s[i][1] /\ g[i][2] = s[i + 1][1]
        /\ \A c \in 2 .. 4 : g[i][c + 1] = s[i][c] /\ g[i][c + 4] = s[i + 1][c]
  BY SegmentsJoinStops
<1>4. CASE k > 0
  <2> DEFINE i == Chosen(s, t, n)
  <2>1. t \in 1 .. n /\ t = AtMost(k, n)
    BY <1>4 DEF AtLeast, AtMost
  <2>2. i \in 2 .. Len(s) /\ s[i - 1][1] * n <= 100 * t /\ 100 * t <= s[i][1] * n /\ seg = g[i - 1]
    <3> HIDE DEF t
    <3>1. i \in 2 .. Len(s) /\ s[i - 1][1] * n < 100 * t /\ 100 * t <= s[i][1] * n /\ seg = g[i - 1]
      BY <2>1, SegmentIsHit, ZenonT(40)
    <3>2. s[i - 1][1] \in Nat
      BY <1>1, <1>2, <3>1
    <3> QED BY <2>1, <3>1, <3>2, SMTT(30)
  <2>3. colorize_gradient_palette_bgr(k, n, p) = [c \in 1..3 |-> Mix(s[i - 1], s[i], 5 - c, t, n)]
    <3>1. PICK m : m = AtMost(k, n)
      OBVIOUS
    <3>2. colorize_gradient_palette_bgr(k, n, p)
            = [c \in 1..3 |-> Mix(s[Chosen(s, m, n) - 1], s[Chosen(s, m, n)], 5 - c, m, n)]
      BY <1>4, <3>1 DEF colorize_gradient_palette_bgr, gradient_stops_bgr, Chosen, Stops
    <3> HIDE DEF t
    <3> QED BY <2>1, <3>1, <3>2
  <2>4. ASSUME NEW c \in 1 .. 3
        PROVE  d_gradient_set(g[i - 1], t, n)[c] = Mix(s[i - 1], s[i], 5 - c, t, n)
    <3> HIDE DEF t, i, s, g, seg, hit
    <3>1. i - 1 \in 1 .. Len(s) - 1 /\ (i - 1) + 1 = i /\ i - 1 \in 1 .. Len(s)
      BY <1>1, <2>2
    <3>2. PICK e \in 2 .. 4 : e = 5 - c /\ e + 1 = 6 - c /\ e + 4 = 9 - c
      OBVIOUS
    <3>3. PICK l, h : l = s[i - 1] /\ h = s[i]
      OBVIOUS
    <3>4. /\ i \in 1 .. Len(s) /\ s[i - 1][1] < s[i][1]
          /\ g[i - 1][1] = s[i - 1][1] /\ g[i - 1][2] = s[i][1]
          /\ g[i - 1][e + 1] = s[i - 1][e] /\ g[i - 1][e + 4] = s[i][e]
      <4>1. i \in 1 .. Len(s)
        BY <1>1, <2>2
      <4>2. PICK m \in 1 .. Len(s) - 1 : m = i - 1 /\ m + 1 = i
        BY <3>1
      <4>3. s[m][1] < s[m + 1][1] /\ g[m][1] = s[m][1] /\ g[m][2] = s[m + 1][1]
        BY <1>3
      <4>4. g[m][e + 1] = s[m][e] /\ g[m][e + 4] = s[m + 1][e]
        BY <1>3
      <4> QED BY <4>1, <4>2, <4>3, <4>4
    <3>5. PICK a \in Nat, z \in Nat, from \in Level, to \in Level :
            a = l[1] /\ z = h[1] /\ from = l[e] /\ to = h[e]
      BY <1>2, <3>1, <3>3, <3>4
    <3>6. a < z /\ a * n <= 100 * t /\ 100 * t <= z * n
      BY <2>2, <3>3, <3>4, <3>5
    <3>7. g[i - 1][1] = a /\ g[i - 1][2] = z /\ g[i - 1][6 - c] = from /\ g[i - 1][9 - c] = to
      BY <3>2, <3>3, <3>4, <3>5
    <3>u. PICK u : u = AtLeast(0, AtMost((z - a) * n, 100 * t - a * n))
      OBVIOUS
    <3> DEFINE num == from * ((z - a) * n - u) + to * u
               sum == from * (z * n - 100 * t) + to * (100 * t - a * n)
    <3>8. num = sum
      <4>1. PICK A \in Int, Z \in Int : A = a * n /\ Z = z * n
        OBVIOUS
      <4>2. (z - a) * n = Z - A
        BY <4>1
      <4>3. t \in Int /\ A <= 100 * t /\ 100 * t <= Z
        BY <2>1, <3>6, <4>1
      <4>4. u = 100 * t - A
        BY <3>u, <4>1, <4>2, <4>3 DEF AtLeast, AtMost
      <4>5. (z - a) * n - u = z * n - 100 * t /\ u = 100 * t - a * n
        BY <4>1, <4>2, <4>3, <4>4
      <4> QED BY <4>5, Zenon
    <3>9. d_gradient_set(g[i - 1], t, n)[c] = clamp255((2 * num + (z - a) * n) \div (2 * ((z - a) * n)))
      BY <3>7, <3>u DEF d_gradient_set
    <3>10. Mix(l, h, e, t, n) = clamp255((2 * sum + (z - a) * n) \div (2 * ((z - a) * n)))
      BY <3>5 DEF Mix
    <3> HIDE DEF num, sum
    <3> QED BY <3>2, <3>3, <3>8, <3>9, <3>10
  <2> HIDE DEF t, i, s, g, seg
  <2> QED BY <1>0, <2>2, <2>3, <2>4, ZenonT(40) DEF d_gradient_set
<1>5. CASE k <= 0
  <2>1. t = 0
    BY <1>5 DEF AtLeast, AtMost
  <2>2. seg = g[1]
    <3> HIDE DEF t, s, g
    <3>1. \A m \in 1 .. Len(s) - 2 : g[m][2] \in Nat
      <4>1. ASSUME NEW m \in 1 .. Len(s) - 2 PROVE g[m][2] \in Nat
        <5>1. m \in 1 .. Len(s) - 1 /\ m + 1 \in 1 .. Len(s)
          BY <1>1
        <5> QED BY <1>2, <1>3, <5>1
      <4> QED BY <4>1
    <3>2. \A m \in 1 .. Len(s) - 2 : 100 * t <= g[m][2] * n
      BY <2>1, <3>1
    <3>3. Len(g) - 1 = Len(s) - 2
      BY <1>1
    <3>4. hit = 1 .. Len(s) - 2
      BY <3>2, <3>3
    <3>5. CASE Len(s) = 2
      BY <1>1, <3>4, <3>5
    <3>6. CASE Len(s) # 2
      <4>1. 1 \in hit /\ \A m \in hit : 1 <= m
        BY <1>1, <3>4, <3>6
      <4>2. hit \in SUBSET Int
        BY <3>4
      <4> HIDE DEF hit
      <4>3. \A m \in hit : (\A j \in hit : m <= j) <=> m = 1
        BY <4>1, <4>2
      <4> QED BY <4>1, <4>3
    <3> QED BY <3>5, <3>6
  <2>3. ASSUME NEW c \in 1 .. 3 PROVE d_gradient_set(g[1], 0, n)[c] = s[1][5 - c]
    <3> HIDE DEF t, s, g
    <3>1. 1 \in 1 .. Len(s) /\ 1 \in 1 .. Len(s) - 1
      BY <1>1
    <3>2. PICK e \in 2 .. 4 : e = 5 - c /\ e + 1 = 6 - c /\ e + 4 = 9 - c
      OBVIOUS
    <3>3. PICK v \in Level : v = s[1][e] /\ v = g[1][6 - c]
      BY <1>2, <1>3, <3>1, <3>2
    <3>4. g[1][1] = 0 /\ g[1][2] \in Nat \ {0} /\ g[1][9 - c] \in Int
      <4>1. s[1][1] = 0 /\ 2 \in 1 .. Len(s) /\ 1 + 1 = 2
        BY <1>1, SegmentsJoinStops DEF s
      <4>2. s[1][1] < s[2][1] /\ g[1][1] = s[1][1] /\ g[1][2] = s[2][1] /\ g[1][e + 4] = s[2][e]
        BY <1>3, <3>1, <4>1
      <4>3. s[2][1] \in Nat /\ s[2][e] \in Level
        BY <1>2, <4>1
      <4>4. PICK z \in Nat : z = s[2][1]
        BY <4>3
      <4>5. 0 < z
        BY <4>1, <4>2, <4>4
      <4>6. g[1][9 - c] \in Int
        BY <3>2, <4>2, <4>3 DEF Level
      <4> QED BY <4>1, <4>2, <4>4, <4>5, <4>6
    <3>5. PICK den \in Nat \ {0} : den = (g[1][2] - g[1][1]) * n
      BY <3>4
    <3>6. AtLeast(0, AtMost(den, 100 * 0 - g[1][1] * n)) = 0
      BY <3>4, <3>5 DEF AtLeast, AtMost
    <3>7. d_gradient_set(g[1], 0, n)[c] = clamp255((2 * (v * (den - 0) + g[1][9 - c] * 0) + den) \div (2 * den))
      BY <3>3, <3>5, <3>6 DEF d_gradient_set
    <3>8. v * (den - 0) + g[1][9 - c] * 0 = v * den
      BY <3>4 DEF Level
    <3> QED BY <3>2, <3>3, <3>7, <3>8, MixAtStop
  <2>4. colorize_gradient_palette_bgr(k, n, p) = <<s[1][4], s[1][3], s[1][2]>>
    BY <1>5 DEF colorize_gradient_palette_bgr, gradient_stops_bgr, Stops
  <2> HIDE DEF t, s, g, seg
  <2>5. d_gradient_palette_bgr(k, n, p) = d_gradient_set(g[1], 0, n)
    BY <1>0, <2>1, <2>2
  <2>6. d_gradient_set(g[1], 0, n) = [c \in 1..3 |-> d_gradient_set(g[1], 0, n)[c]]
    BY DEF d_gradient_set
  <2>7. d_gradient_set(g[1], 0, n) = <<s[1][4], s[1][3], s[1][2]>>
    BY <2>3, <2>6
  <2> QED BY <2>4, <2>5, <2>7
<1> QED BY <1>4, <1>5

-----------------------------------------------------------------------------
(* Wheels.                                                                 *)

LEMMA NearColours ==
  ASSUME NEW a, NEW b, NEW gap, Distance(a[1], b[1]) <= gap, Distance(a[2], b[2]) <= gap, Distance(a[3], b[3]) <= gap
  PROVE  Near(a, b, gap)
  BY DEF Near

(* Counting on along a circle of n places.                                 *)
LEMMA NextPlace ==
  ASSUME NEW n \in Nat \ {0}, NEW i \in Nat
  PROVE  /\ i % n \in Nat /\ i % n < n
         /\ i % n = n - 1 => (i + 1) % n = 0
         /\ i % n # n - 1 => (i + 1) % n = (i % n) + 1
<1>1. PICK q \in Int, r \in Int : q = i \div n /\ r = i % n /\ i = n * q + r /\ 0 <= r /\ r < n
  BY Quotient, Remains
<1>2. CASE r = n - 1
  <2>1. n * (q + 1) = n * q + n
    BY <1>1
  <2>2. n * (q + 1) <= i + 1 /\ i + 1 < n * (q + 1) + n
    BY <1>1, <1>2, <2>1
  <2>3. i + 1 \in Int /\ q + 1 \in Int
    BY <1>1
  <2>4. (i + 1) % n = (i + 1) - n * (q + 1)
    BY <2>2, <2>3, RemainsIs, Zenon
  <2> QED BY <1>1, <1>2, <2>1, <2>4
<1>3. CASE r # n - 1
  <2>1. n * q <= i + 1 /\ i + 1 < n * q + n
    BY <1>1, <1>3
  <2>2. i + 1 \in Int
    OBVIOUS
  <2>3. (i + 1) % n = (i + 1) - n * q
    BY <1>1, <2>1, <2>2, RemainsIs, Zenon
  <2> QED BY <1>1, <1>3, <2>3
<1> QED BY <1>1, <1>2, <1>3

LEMMA HuesJoin ==
  ASSUME NEW i \in Nat, NEW gap \in {1, 2}
  PROVE  Near(hue1530(i), hue1530(i + 1), gap) /\ Near(hue1530(i), hue1530(i), gap)
<1>1. 1530 \in Nat \ {0} /\ 1530 - 1 = 1529
  OBVIOUS
<1>2. /\ i % 1530 \in Nat /\ i % 1530 < 1530
      /\ i % 1530 = 1530 - 1 => (i + 1) % 1530 = 0
      /\ i % 1530 # 1530 - 1 => (i + 1) % 1530 = (i % 1530) + 1
  BY <1>1, NextPlace
<1>3. i % 1530 \in 0 .. 1529 /\ (i + 1) % 1530 \in 0 .. 1529
  BY <1>1, <1>2
<1>r. PICK r \in 0 .. 1529 : r = i % 1530
  <2>1. i % 1530 \in 0 .. 1529
    BY <1>3
  <2> QED BY <2>1, SMT
<1>s. PICK s : s = (i + 1) % 1530
  OBVIOUS
<1>n. s \in 0 .. 1529 /\ s = IF r = 1529 THEN 0 ELSE r + 1
  BY <1>1, <1>2, <1>r, <1>s
<1>4. PICK a \in Int, d \in Int, b \in Int, e \in Int :
        /\ a = r \div 255 /\ d = r % 255 /\ b = s \div 255 /\ e = s % 255
        /\ r = 255 * a + d /\ 0 <= d /\ d < 255 /\ s = 255 * b + e /\ 0 <= e /\ e < 255
  BY <1>n
<1>5. hue1530(i) = Hue(a, d) /\ hue1530(i + 1) = Hue(b, e)
  BY <1>r, <1>s, <1>4 DEF hue1530
<1>6. a \in 0 .. 5 /\ b \in 0 .. 5
  BY <1>n, <1>4
<1>7. \/ b = a /\ e = d + 1
      \/ (b = a + 1 \/ (a = 5 /\ b = 0)) /\ d = 254 /\ e = 0
  BY <1>n, <1>4, <1>6
<1>8. \A x \in Int :
        /\ Hue(0, x) = <<x, 255, 0>> /\ Hue(1, x) = <<255, 255 - x, 0>> /\ Hue(2, x) = <<255, 0, x>>
        /\ Hue(3, x) = <<255 - x, 0, 255>> /\ Hue(4, x) = <<0, x, 255>> /\ Hue(5, x) = <<0, 255, 255 - x>>
  BY DEF Hue
<1>9. \A c \in 1 .. 3 : Distance(Hue(a, d)[c], Hue(b, e)[c]) <= gap /\ Distance(Hue(a, d)[c], Hue(a, d)[c]) <= gap
  BY <1>4, <1>6, <1>7, <1>8, SMTT(60) DEF Distance
<1> QED BY <1>5, <1>9 DEF Near

LEMMA RainbowJoins ==
  ASSUME NEW i \in Nat
  PROVE  Near(rainbow_from_index(i), rainbow_from_index(i + 1), 1)
<1>1. ASSUME NEW m \in Nat
      PROVE  /\ m = 0 => rainbow_from_index(m) = <<0, 0, 0>>
             /\ m \in 1 .. 255 => rainbow_from_index(m) = <<m, 0, 0>>
             /\ m \in 256 .. 509 => rainbow_from_index(m) = <<510 - m, 0, m - 255>>
             /\ m \in 510 .. 764 => rainbow_from_index(m) = <<m - 510, 0, 255>>
             /\ m \in 765 .. 1019 => rainbow_from_index(m) = <<1020 - m, m - 765, 1020 - m>>
             /\ m \in 1020 .. 1274 => rainbow_from_index(m) = <<m - 1020, 255, 0>>
             /\ m \in 1275 .. 1529 => rainbow_from_index(m) = <<1530 - m, 255, m - 1275>>
             /\ m \in 1530 .. 1784 => rainbow_from_index(m) = <<m - 1530, 255, 255>>
             /\ m >= 1785 => rainbow_from_index(m) = <<255, 255, 255>>
  <2>1. ASSUME m = 0 PROVE rainbow_from_index(m) = <<0, 0, 0>>
    <3>1. m <= 0 /\ m \notin 1 .. 255 /\ m \notin 256 .. 509 /\ m \notin 510 .. 764 /\ m \notin 765 .. 1019
          /\ m \notin 1020 .. 1274 /\ m \notin 1275 .. 1529 /\ m \notin 1530 .. 1784 /\ ~(m >= 1785)
      BY <2>1
    <3> QED BY <3>1 DEF rainbow_from_index, Grey, White
  <2>2. ASSUME m \in 1 .. 255 PROVE rainbow_from_index(m) = <<m, 0, 0>>
    <3>1. m \in 1 .. 255 /\ ~(m <= 0) /\ m \notin 256 .. 509 /\ m \notin 510 .. 764 /\ m \notin 765 .. 1019
          /\ m \notin 1020 .. 1274 /\ m \notin 1275 .. 1529 /\ m \notin 1530 .. 1784 /\ ~(m >= 1785)
      BY <2>2
    <3>2. rainbow_from_index(m) = Clamped(<<m, 0, 0>>)
      BY <3>1 DEF rainbow_from_index
    <3> QED BY <2>2, <3>2 DEF Clamped, clamp255
  <2>3. ASSUME m \in 256 .. 509 PROVE rainbow_from_index(m) = <<510 - m, 0, m - 255>>
    <3>1. m \in 256 .. 509 /\ ~(m <= 0) /\ m \notin 1 .. 255 /\ m \notin 510 .. 764 /\ m \notin 765 .. 1019
          /\ m \notin 1020 .. 1274 /\ m \notin 1275 .. 1529 /\ m \notin 1530 .. 1784 /\ ~(m >= 1785)
      BY <2>3
    <3>2. rainbow_from_index(m) = Clamped(<<510 - m, 0, m - 255>>)
      BY <3>1 DEF rainbow_from_index
    <3> QED BY <2>3, <3>2 DEF Clamped, clamp255
  <2>4. ASSUME m \in 510 .. 764 PROVE rainbow_from_index(m) = <<m - 510, 0, 255>>
    <3>1. m \in 510 .. 764 /\ ~(m <= 0) /\ m \notin 1 .. 255 /\ m \notin 256 .. 509 /\ m \notin 765 .. 1019
          /\ m \notin 1020 .. 1274 /\ m \notin 1275 .. 1529 /\ m \notin 1530 .. 1784 /\ ~(m >= 1785)
      BY <2>4
    <3>2. rainbow_from_index(m) = Clamped(<<m - 510, 0, 255>>)
      BY <3>1 DEF rainbow_from_index
    <3> QED BY <2>4, <3>2 DEF Clamped, clamp255
  <2>5. ASSUME m \in 765 .. 1019 PROVE rainbow_from_index(m) = <<1020 - m, m - 765, 1020 - m>>
    <3>1. m \in 765 .. 1019 /\ ~(m <= 0) /\ m \notin 1 .. 255 /\ m \notin 256 .. 509 /\ m \notin 510 .. 764
          /\ m \notin 1020 .. 1274 /\ m \notin 1275 .. 1529 /\ m \notin 1530 .. 1784 /\ ~(m >= 1785)
      BY <2>5
    <3>2. rainbow_from_index(m) = Clamped(<<1020 - m, m - 765, 1020 - m>>)
      BY <3>1 DEF rainbow_from_index
    <3> QED BY <2>5, <3>2 DEF Clamped, clamp255
  <2>6. ASSUME m \in 1020 .. 1274 PROVE rainbow_from_index(m) = <<m - 1020, 255, 0>>
    <3>1. m \in 1020 .. 1274 /\ ~(m <= 0) /\ m \notin 1 .. 255 /\ m \notin 256 .. 509 /\ m \notin 510 .. 764
          /\ m \notin 765 .. 1019 /\ m \notin 1275 .. 1529 /\ m \notin 1530 .. 1784 /\ ~(m >= 1785)
      BY <2>6
    <3>2. rainbow_from_index(m) = Clamped(<<m - 1020, 255, 0>>)
      BY <3>1 DEF rainbow_from_index
    <3> QED BY <2>6, <3>2 DEF Clamped, clamp255
  <2>7. ASSUME m \in 1275 .. 1529 PROVE rainbow_from_index(m) = <<1530 - m, 255, m - 1275>>
    <3>1. m \in 1275 .. 1529 /\ ~(m <= 0) /\ m \notin 1 .. 255 /\ m \notin 256 .. 509 /\ m \notin 510 .. 764
          /\ m \notin 765 .. 1019 /\ m \notin 1020 .. 1274 /\ m \notin 1530 .. 1784 /\ ~(m >= 1785)
      BY <2>7
    <3>2. rainbow_from_index(m) = Clamped(<<1530 - m, 255, m - 1275>>)
      BY <3>1 DEF rainbow_from_index
    <3> QED BY <2>7, <3>2 DEF Clamped, clamp255
  <2>8. ASSUME m \in 1530 .. 1784 PROVE rainbow_from_index(m) = <<m - 1530, 255, 255>>
    <3>1. m \in 1530 .. 1784 /\ ~(m <= 0) /\ m \notin 1 .. 255 /\ m \notin 256 .. 509 /\ m \notin 510 .. 764
          /\ m \notin 765 .. 1019 /\ m \notin 1020 .. 1274 /\ m \notin 1275 .. 1529 /\ ~(m >= 1785)
      BY <2>8
    <3>2. rainbow_from_index(m) = Clamped(<<m - 1530, 255, 255>>)
      BY <3>1 DEF rainbow_from_index
    <3> QED BY <2>8, <3>2 DEF Clamped, clamp255
  <2>9. ASSUME m >= 1785 PROVE rainbow_from_index(m) = <<255, 255, 255>>
    <3>1. m >= 1785 /\ ~(m <= 0) /\ m \notin 1 .. 255 /\ m \notin 256 .. 509 /\ m \notin 510 .. 764
          /\ m \notin 765 .. 1019 /\ m \notin 1020 .. 1274 /\ m \notin 1275 .. 1529 /\ m \notin 1530 .. 1784
      BY <2>9
    <3> QED BY <3>1 DEF rainbow_from_index, Grey, White
  <2> QED BY <2>1, <2>2, <2>3, <2>4, <2>5, <2>6, <2>7, <2>8, <2>9
<1>2. ASSUME NEW m \in Nat, NEW q, q = rainbow_from_index(m)
      PROVE  /\ m = 0 => q[1] = 0 /\ q[2] = 0 /\ q[3] = 0
             /\ m \in 1 .. 255 => q[1] = m /\ q[2] = 0 /\ q[3] = 0
             /\ m \in 256 .. 509 => q[1] = 510 - m /\ q[2] = 0 /\ q[3] = m - 255
             /\ m \in 510 .. 764 => q[1] = m - 510 /\ q[2] = 0 /\ q[3] = 255
             /\ m \in 765 .. 1019 => q[1] = 1020 - m /\ q[2] = m - 765 /\ q[3] = 1020 - m
             /\ m \in 1020 .. 1274 => q[1] = m - 1020 /\ q[2] = 255 /\ q[3] = 0
             /\ m \in 1275 .. 1529 => q[1] = 1530 - m /\ q[2] = 255 /\ q[3] = m - 1275
             /\ m \in 1530 .. 1784 => q[1] = m - 1530 /\ q[2] = 255 /\ q[3] = 255
             /\ m >= 1785 => q[1] = 255 /\ q[2] = 255 /\ q[3] = 255
  <2>1. ASSUME m = 0 PROVE q[1] = 0 /\ q[2] = 0 /\ q[3] = 0
    <3>1. q = <<0, 0, 0>>
      BY <1>1, <1>2, <2>1
    <3> QED BY <3>1
  <2>2. ASSUME m \in 1 .. 255 PROVE q[1] = m /\ q[2] = 0 /\ q[3] = 0
    <3>1. q = <<m, 0, 0>>
      BY <1>1, <1>2, <2>2
    <3> QED BY <3>1
  <2>3. ASSUME m \in 256 .. 509 PROVE q[1] = 510 - m /\ q[2] = 0 /\ q[3] = m - 255
    <3>1. q = <<510 - m, 0, m - 255>>
      BY <1>1, <1>2, <2>3
    <3> QED BY <3>1
  <2>4. ASSUME m \in 510 .. 764 PROVE q[1] = m - 510 /\ q[2] = 0 /\ q[3] = 255
    <3>1. q = <<m - 510, 0, 255>>
      BY <1>1, <1>2, <2>4
    <3> QED BY <3>1
  <2>5. ASSUME m \in 765 .. 1019 PROVE q[1] = 1020 - m /\ q[2] = m - 765 /\ q[3] = 1020 - m
    <3>1. q = <<1020 - m, m - 765, 1020 - m>>
      BY <1>1, <1>2, <2>5
    <3> QED BY <3>1
  <2>6. ASSUME m \in 1020 .. 1274 PROVE q[1] = m - 1020 /\ q[2] = 255 /\ q[3] = 0
    <3>1. q = <<m - 1020, 255, 0>>
      BY <1>1, <1>2, <2>6
    <3> QED BY <3>1
  <2>7. ASSUME m \in 1275 .. 1529 PROVE q[1] = 1530 - m /\ q[2] = 255 /\ q[3] = m - 1275
    <3>1. q = <<1530 - m, 255, m - 1275>>
      BY <1>1, <1>2, <2>7
    <3> QED BY <3>1
  <2>8. ASSUME m \in 1530 .. 1784 PROVE q[1] = m - 1530 /\ q[2] = 255 /\ q[3] = 255
    <3>1. q = <<m - 1530, 255, 255>>
      BY <1>1, <1>2, <2>8
    <3> QED BY <3>1
  <2>9. ASSUME m >= 1785 PROVE q[1] = 255 /\ q[2] = 255 /\ q[3] = 255
    <3>1. q = <<255, 255, 255>>
      BY <1>1, <1>2, <2>9
    <3> QED BY <3>1
  <2> QED BY <2>1, <2>2, <2>3, <2>4, <2>5, <2>6, <2>7, <2>8, <2>9
<1>3. PICK a : a = rainbow_from_index(i)
  OBVIOUS
<1>4. PICK b : b = rainbow_from_index(i + 1)
  OBVIOUS
<1>5. PICK k \in Nat : k = i + 1
  OBVIOUS
<1>6. b = rainbow_from_index(k)
  BY <1>4, <1>5
<1>7. /\ i = 0 => a[1] = 0 /\ a[2] = 0 /\ a[3] = 0
      /\ i \in 1 .. 255 => a[1] = i /\ a[2] = 0 /\ a[3] = 0
      /\ i \in 256 .. 509 => a[1] = 510 - i /\ a[2] = 0 /\ a[3] = i - 255
      /\ i \in 510 .. 764 => a[1] = i - 510 /\ a[2] = 0 /\ a[3] = 255
      /\ i \in 765 .. 1019 => a[1] = 1020 - i /\ a[2] = i - 765 /\ a[3] = 1020 - i
      /\ i \in 1020 .. 1274 => a[1] = i - 1020 /\ a[2] = 255 /\ a[3] = 0
      /\ i \in 1275 .. 1529 => a[1] = 1530 - i /\ a[2] = 255 /\ a[3] = i - 1275
      /\ i \in 1530 .. 1784 => a[1] = i - 1530 /\ a[2] = 255 /\ a[3] = 255
      /\ i >= 1785 => a[1] = 255 /\ a[2] = 255 /\ a[3] = 255
  BY <1>2, <1>3, SMTT(60)
<1>8. /\ k = 0 => b[1] = 0 /\ b[2] = 0 /\ b[3] = 0
      /\ k \in 1 .. 255 => b[1] = k /\ b[2] = 0 /\ b[3] = 0
      /\ k \in 256 .. 509 => b[1] = 510 - k /\ b[2] = 0 /\ b[3] = k - 255
      /\ k \in 510 .. 764 => b[1] = k - 510 /\ b[2] = 0 /\ b[3] = 255
      /\ k \in 765 .. 1019 => b[1] = 1020 - k /\ b[2] = k - 765 /\ b[3] = 1020 - k
      /\ k \in 1020 .. 1274 => b[1] = k - 1020 /\ b[2] = 255 /\ b[3] = 0
      /\ k \in 1275 .. 1529 => b[1] = 1530 - k /\ b[2] = 255 /\ b[3] = k - 1275
      /\ k \in 1530 .. 1784 => b[1] = k - 1530 /\ b[2] = 255 /\ b[3] = 255
      /\ k >= 1785 => b[1] = 255 /\ b[2] = 255 /\ b[3] = 255
  BY <1>2, <1>6, SMTT(60)
<1>9. Distance(a[1], b[1]) <= 1 /\ Distance(a[2], b[2]) <= 1 /\ Distance(a[3], b[3]) <= 1
  <2>1. CASE i = 0
    BY <1>5, <1>7, <1>8, <2>1 DEF Distance
  <2>2. CASE i \in 1 .. 255
    BY <1>5, <1>7, <1>8, <2>2 DEF Distance
  <2>3. CASE i \in 256 .. 509
    BY <1>5, <1>7, <1>8, <2>3 DEF Distance
  <2>4. CASE i \in 510 .. 764
    BY <1>5, <1>7, <1>8, <2>4 DEF Distance
  <2>5. CASE i \in 765 .. 1019
    BY <1>5, <1>7, <1>8, <2>5 DEF Distance
  <2>6. CASE i \in 1020 .. 1274
    BY <1>5, <1>7, <1>8, <2>6 DEF Distance
  <2>7. CASE i \in 1275 .. 1529
    BY <1>5, <1>7, <1>8, <2>7 DEF Distance
  <2>8. CASE i \in 1530 .. 1784
    BY <1>5, <1>7, <1>8, <2>8 DEF Distance
  <2>9. CASE i >= 1785
    BY <1>5, <1>7, <1>8, <2>9 DEF Distance
  <2> QED BY <2>1, <2>2, <2>3, <2>4, <2>5, <2>6, <2>7, <2>8, <2>9
<1> QED BY <1>3, <1>4, <1>9 DEF Near

Levels(m, x) ==
  IF m = 0 THEN <<255, x, 255 - x>> ELSE IF m = 1 THEN <<255 - x, 255, x>> ELSE <<x, 255 - x, 255>>

LEMMA BandIs ==
  ASSUME NEW m \in 0 .. 2, NEW x \in 0 .. 255
  PROVE  Band(m, x) = Levels(m, x)
<1>1. Band(m, x) = Clamped(Levels(m, x))
  BY DEF Band, Levels
<1> QED BY <1>1 DEF Clamped, clamp255, Levels

LEMMA BandsJoin ==
  ASSUME NEW i \in Nat
  PROVE  Near(Tri(i % 765), Tri((i + 1) % 765), 2)
<1>1. 765 \in Nat \ {0} /\ 765 - 1 = 764
  OBVIOUS
<1>2. /\ i % 765 \in Nat /\ i % 765 < 765
      /\ i % 765 = 765 - 1 => (i + 1) % 765 = 0
      /\ i % 765 # 765 - 1 => (i + 1) % 765 = (i % 765) + 1
  BY <1>1, NextPlace
<1>r. PICK r : r = i % 765
  OBVIOUS
<1>s. PICK s : s = (i + 1) % 765
  OBVIOUS
<1>3. r \in 0 .. 764 /\ s \in 0 .. 764 /\ s = IF r = 764 THEN 0 ELSE r + 1
  BY <1>1, <1>2, <1>r, <1>s
<1>4. PICK a \in Int, d \in Int, b \in Int, e \in Int :
        /\ a = r \div 255 /\ d = r % 255 /\ b = s \div 255 /\ e = s % 255
        /\ r = 255 * a + d /\ 0 <= d /\ d < 255 /\ s = 255 * b + e /\ 0 <= e /\ e < 255
  BY <1>3
<1>5. Tri(r) = Band(a, d) /\ Tri(s) = Band(b, e)
  BY <1>4 DEF Tri
<1>6. a \in 0 .. 2 /\ b \in 0 .. 2
  BY <1>3, <1>4
<1>7. \/ b = a /\ e = d + 1
      \/ (b = a + 1 \/ (a = 2 /\ b = 0)) /\ d = 254 /\ e = 0
  BY <1>3, <1>4, <1>6
<1>9. d \in 0 .. 255 /\ e \in 0 .. 255
  BY <1>4
<1>10. PICK p, q : p = Band(a, d) /\ q = Band(b, e)
  OBVIOUS
<1>p. p = Levels(a, d) /\ q = Levels(b, e)
  BY <1>6, <1>9, <1>10, BandIs
<1>11. Distance(p[1], q[1]) <= 2 /\ Distance(p[2], q[2]) <= 2 /\ Distance(p[3], q[3]) <= 2
  BY <1>6, <1>7, <1>9, <1>p DEF Distance, Levels
<1> QED BY <1>5, <1>10, <1>11, <1>r, <1>s, NearColours

(* The hue of one of 1440 places: the sector and the place in it.          *)
Ramp(a, d) == IF a \in {0, 2, 4} THEN (1530 * d) \div 1440 ELSE (255 * (1440 - 6 * d)) \div 1440
Sector(a, x) ==
  IF a = 0 THEN <<0, x, 255>> ELSE IF a = 1 THEN <<0, 255, x>> ELSE IF a = 2 THEN <<x, 255, 0>>
  ELSE IF a = 3 THEN <<255, x, 0>> ELSE IF a = 4 THEN <<255, 0, x>> ELSE <<x, 0, 255>>

LEMMA HueOfPlace ==
  ASSUME NEW a \in 0 .. 5, NEW d \in 0 .. 239
  PROVE  hsv_to_rgb(240 * a + d, 1440) = Sector(a, Ramp(a, d))
<1> DEFINE k == 240 * a + d
<1>1. (6 * k) \div 1440 = a
  OBVIOUS
<1>2. (6 * k) % (2 * 1440) = IF a \in {0, 2, 4} THEN 6 * d ELSE 1440 + 6 * d
  BY SMTT(30)
<1>3. (255 * (1440 - Distance((6 * k) % (2 * 1440), 1440))) \div 1440 = Ramp(a, d)
  BY <1>2 DEF Distance, Ramp
<1> HIDE DEF k
<1> QED BY <1>1, <1>3 DEF hsv_to_rgb, Sector, k

LEMMA SectorsJoin ==
  ASSUME NEW i \in Nat
  PROVE  Near(hsv_to_rgb(i % 1440, 1440), hsv_to_rgb((i + 1) % 1440, 1440), 2)
<1>1. 1440 \in Nat \ {0} /\ 1440 - 1 = 1439
  OBVIOUS
<1>2. /\ i % 1440 \in Nat /\ i % 1440 < 1440
      /\ i % 1440 = 1440 - 1 => (i + 1) % 1440 = 0
      /\ i % 1440 # 1440 - 1 => (i + 1) % 1440 = (i % 1440) + 1
  BY <1>1, NextPlace
<1>r. PICK r : r = i % 1440
  OBVIOUS
<1>s. PICK s : s = (i + 1) % 1440
  OBVIOUS
<1>3. r \in 0 .. 1439 /\ s \in 0 .. 1439 /\ s = IF r = 1439 THEN 0 ELSE r + 1
  BY <1>1, <1>2, <1>r, <1>s
<1>4. PICK a \in 0 .. 5, d \in 0 .. 239 : r = 240 * a + d
  <2>1. r \div 240 \in 0 .. 5 /\ r % 240 \in 0 .. 239 /\ r = 240 * (r \div 240) + (r % 240)
    BY <1>3
  <2> QED BY <2>1
<1>5. PICK b \in 0 .. 5, e \in 0 .. 239 : s = 240 * b + e
  <2>1. s \div 240 \in 0 .. 5 /\ s % 240 \in 0 .. 239 /\ s = 240 * (s \div 240) + (s % 240)
    BY <1>3
  <2> QED BY <2>1
<1>6. \/ b = a /\ e = d + 1
      \/ (b = a + 1 \/ (a = 5 /\ b = 0)) /\ d = 239 /\ e = 0
  BY <1>3, <1>4, <1>5
<1>7. hsv_to_rgb(r, 1440) = Sector(a, Ramp(a, d)) /\ hsv_to_rgb(s, 1440) = Sector(b, Ramp(b, e))
  BY <1>4, <1>5, HueOfPlace
<1>8. PICK x \in Int, y \in Int : x = Ramp(a, d) /\ y = Ramp(b, e)
  BY DEF Ramp
<1>9. CASE b = a /\ e = d + 1
  <2>1. x - y <= 2 /\ y - x <= 2
    BY <1>8, <1>9 DEF Ramp
  <2> QED BY <1>7, <1>8, <1>9, <2>1, <1>r, <1>s DEF Sector, Near, Distance
<1>10. CASE (b = a + 1 \/ (a = 5 /\ b = 0)) /\ d = 239 /\ e = 0
  <2>1. /\ a \in {0, 2, 4} => x = 253 /\ y = 255
        /\ a \notin {0, 2, 4} => x = 1 /\ y = 0
    BY <1>8, <1>10 DEF Ramp
  <2> QED BY <1>7, <1>8, <1>10, <2>1, <1>r, <1>s DEF Sector, Near, Distance
<1> QED BY <1>6, <1>9, <1>10

-----------------------------------------------------------------------------
(* The copies.                                                             *)

LEMMA EscapeCopiesAgree ==
  ASSUME NEW p \in Palettes, NEW iter \in Nat
  PROVE  /\ colorize_escape_bgr_cuda(iter, MaxIter, p) = colorize_escape_bgr(iter, MaxIter, p)
         /\ d_colorize_escape_bgr_ln(iter, MaxIter, p) = colorize_escape_bgr(iter, MaxIter, p)
<1> USE DEF colorize_escape_bgr_cuda, d_colorize_escape_bgr_ln, colorize_escape_bgr, StepPalette
<1>1. MaxIter + 2 \in Nat \ {0} /\ iter + 1 \in Int
  BY ColoursAssumption
<1>2. /\ \A k, n : d_hsv_to_rgb(k, n) = hsv_to_rgb(k, n)
      /\ \A i : d_hue1530(i) = hue1530(i) /\ ln_d_hue1530(i) = hue1530(i)
  BY DEF d_hsv_to_rgb, hsv_to_rgb, d_hue1530, ln_d_hue1530, hue1530
<1>3. CASE p \in Gradients
  <2>1. colorize_gradient_palette_bgr(iter + 1, MaxIter + 2, p) = d_gradient_palette_bgr(iter + 1, MaxIter + 2, p)
    BY <1>1, <1>3, GradientsAgree
  <2> QED BY <1>2, <1>3, <2>1
<1>4. CASE p \notin Gradients
  BY <1>2, <1>4
<1> QED BY <1>3, <1>4

LEMMA FieldCopiesAgree ==
  ASSUME NEW p \in Palettes, NEW e \in FieldValues
  PROVE  colorize_metric_field_bgr(e, p) = colorize_direct(e, p, FALSE)
<1>1. colorize_field_hs_bgr_cuda(e) = colorize_field_hs_bgr(e)
  BY DEF colorize_field_hs_bgr_cuda, colorize_field_hs_bgr, d_rainbow_from_index, rainbow_from_index
<1>2. PICK k \in Int : k = normalize_raw_field(e)
  BY ColoursAssumption DEF normalize_raw_field, FieldValues, ValueBits, AtMost, ZeroValue, InfiniteValue
<1>3. colorize_field_bgr_cuda(k, p) = colorize_field_bgr(k, p)
  <2> USE DEF colorize_field_bgr_cuda, colorize_field_bgr, FieldPalette
  <2>1. /\ \A a, n : d_hsv_to_rgb(a, n) = hsv_to_rgb(a, n)
        /\ \A i : d_hue1530(i) = hue1530(i) /\ d_rainbow_from_index(i) = rainbow_from_index(i)
    BY DEF d_hsv_to_rgb, hsv_to_rgb, d_hue1530, hue1530, d_rainbow_from_index, rainbow_from_index
  <2>2. CASE p \in Gradients
    <3>1. PICK n \in Nat \ {0} : n = 2^ValueBits
      BY DEF ValueBits
    <3>2. colorize_gradient_palette_bgr(k, n, p) = d_gradient_palette_bgr(k, n, p)
      BY <2>2, GradientsAgree
    <3>g. p \notin {Grayscale, HsvWheel, Tri765, Mod17, HsRainbow, Spectral1530}
      BY <2>2 DEF Gradients, Inferno, Viridis, Twilight, EmberBlue, Grayscale, HsvWheel, Tri765, Mod17,
                  HsRainbow, Spectral1530
    <3>3. colorize_field_bgr(k, p) = colorize_gradient_palette_bgr(k, n, p)
      BY <2>2, <3>1, <3>g
    <3>4. colorize_field_bgr_cuda(k, p) = d_gradient_palette_bgr(k, n, p)
      BY <2>2, <3>1, <3>g
    <3> HIDE DEF colorize_field_bgr_cuda, colorize_field_bgr
    <3> QED BY <3>2, <3>3, <3>4
  <2>3. CASE p \notin Gradients
    BY <2>1, <2>3
  <2> HIDE DEF colorize_field_bgr_cuda, colorize_field_bgr, FieldPalette
  <2> QED BY <2>2, <2>3
<1> QED BY <1>1, <1>2, <1>3 DEF colorize_metric_field_bgr, colorize_direct

(* The colour of a count on the wheel that starts with a ramp of green.    *)
Spectral(m) == IF m < 255 THEN <<0, m, 0>> ELSE hue1530((m - 255) % 1530)

LEMMA SpectralJoins ==
  ASSUME NEW m \in Nat, NEW gap \in {1, 2}
  PROVE  Near(Spectral(m), Spectral(m + 1), gap) /\ Near(Spectral(m), Spectral(m), gap)
<1>1. \A i \in Nat : hue1530(i % 1530) = hue1530(i)
  <2>1. \A i \in Nat : (i % 1530) % 1530 = i % 1530
    OBVIOUS
  <2> QED BY <2>1 DEF hue1530
<1>2. CASE m < 254
  BY <1>2 DEF Spectral, Near, Distance
<1>3. CASE m = 254
  <2>1. Spectral(m) = <<0, 254, 0>> /\ Spectral(m + 1) = hue1530(0)
    BY <1>3 DEF Spectral
  <2>2. hue1530(0) = <<0, 255, 0>>
    BY DEF hue1530, Hue
  <2> QED BY <2>1, <2>2 DEF Near, Distance
<1>4. CASE m > 254
  <2>1. PICK i \in Nat : i = m - 255 /\ i + 1 = (m + 1) - 255
    BY <1>4
  <2>2. Spectral(m) = hue1530(i) /\ Spectral(m + 1) = hue1530(i + 1)
    BY <1>1, <1>4, <2>1 DEF Spectral
  <2> QED BY <2>2, HuesJoin
<1> QED BY <1>2, <1>3, <1>4

(* The step palettes have no seam.                                         *)
LEMMA EscapesJoin ==
  ASSUME NEW p \in {HsvWheel, Tri765, Spectral1530}, NEW iter \in Nat, iter + 1 < MaxIter
  PROVE  Near(colorize_escape_bgr(iter, MaxIter, p), colorize_escape_bgr(iter + 1, MaxIter, p), 2)
<1>1. ~(iter >= MaxIter) /\ ~(iter + 1 >= MaxIter)
  BY ColoursAssumption
<1>2. p \notin Gradients /\ p \notin {Mod17, Grayscale}
  BY DEF Gradients, Inferno, Viridis, Twilight, EmberBlue, Grayscale, HsvWheel, Tri765, Mod17, Spectral1530
<1>3. CASE p = HsvWheel
  <2>1. ASSUME NEW i, ~(i >= MaxIter) PROVE colorize_escape_bgr(i, MaxIter, p) = hsv_to_rgb(i % 1440, 1440)
    <3>1. p \notin {Tri765, Spectral1530}
      BY <1>3 DEF HsvWheel, Tri765, Spectral1530
    <3> QED BY <1>2, <1>3, <2>1, <3>1 DEF colorize_escape_bgr, StepPalette
  <2> QED BY <1>1, <2>1, SectorsJoin
<1>4. CASE p = Tri765
  <2>1. ASSUME NEW i, ~(i >= MaxIter) PROVE colorize_escape_bgr(i, MaxIter, p) = Tri(i % 765)
    <3>1. p \notin {HsvWheel, Spectral1530}
      BY <1>4 DEF HsvWheel, Tri765, Spectral1530
    <3> QED BY <1>2, <1>4, <2>1, <3>1 DEF colorize_escape_bgr, StepPalette
  <2> QED BY <1>1, <2>1, BandsJoin
<1>5. CASE p = Spectral1530
  <2>1. ASSUME NEW i, ~(i >= MaxIter) PROVE colorize_escape_bgr(i, MaxIter, p) = Spectral(i)
    <3>1. p \notin {HsvWheel, Tri765}
      BY <1>5 DEF HsvWheel, Tri765, Spectral1530
    <3> QED BY <1>2, <1>5, <2>1, <3>1 DEF colorize_escape_bgr, StepPalette, Spectral
  <2> QED BY <1>1, <2>1, SpectralJoins
<1> QED BY <1>3, <1>4, <1>5

LEMMA SmoothEscapesJoin ==
  ASSUME NEW iter \in Nat, NEW norm \in Nat \cup {NoNorm}, iter + 1 < MaxIter
  PROVE  Near(colorize_escape_smooth_bgr(iter, MaxIter, Spectral1530, norm),
              colorize_escape_smooth_bgr(iter + 1, MaxIter, Spectral1530, norm), 1)
<1>1. ~(iter >= MaxIter) /\ ~(iter + 1 >= MaxIter)
  BY ColoursAssumption
<1>2. Spectral1530 \notin Gradients /\ Spectral1530 \notin {HsvWheel, Tri765, Grayscale}
  BY DEF Gradients, Inferno, Viridis, Twilight, EmberBlue, Grayscale, HsvWheel, Tri765, Spectral1530
<1>3. PICK m : m = smooth_mu(iter, norm)
  OBVIOUS
<1>4. PICK k : k = smooth_mu(iter + 1, norm)
  OBVIOUS
<1>5. m \in Nat /\ k \in {m, m + 1}
  BY <1>3, <1>4 DEF smooth_mu, NoNorm, AtLeast
<1>6. ASSUME NEW i, ~(i >= MaxIter), smooth_mu(i, norm) \in Nat
      PROVE  colorize_escape_smooth_bgr(i, MaxIter, Spectral1530, norm) = Spectral(smooth_mu(i, norm))
  <2>1. PICK mu \in Nat : mu = smooth_mu(i, norm)
    BY <1>6
  <2>2. Spectral1530 # Mod17
    BY DEF Spectral1530, Mod17
  <2>3. colorize_escape_smooth_bgr(i, MaxIter, Spectral1530, norm)
          = IF mu < 255 THEN <<0, clamp255(mu), 0>> ELSE hue1530((mu - 255) % 1530)
    BY <1>2, <1>6, <2>1, <2>2 DEF colorize_escape_smooth_bgr
  <2>4. mu < 255 => clamp255(mu) = mu
    BY DEF clamp255
  <2> QED BY <2>1, <2>3, <2>4 DEF Spectral
<1>7. /\ colorize_escape_smooth_bgr(iter, MaxIter, Spectral1530, norm) = Spectral(m)
      /\ colorize_escape_smooth_bgr(iter + 1, MaxIter, Spectral1530, norm) = Spectral(k)
  BY <1>1, <1>3, <1>4, <1>5, <1>6
<1> QED BY <1>5, <1>7, SpectralJoins

(* The copies of the palettes give every count and every value the same    *)
(* colour, the inside is white and the wheels have no seam, for every      *)
(* iteration count, image and metric value.                                *)
THEOREM PalettesKeepAgreeing == ColSpec => []PalettesAgree
<1>1. ColInit => PalettesAgree
  BY DEF ColInit, PalettesAgree
<1>2. PalettesAgree /\ [ColNext]_colvars => PalettesAgree'
  <2> SUFFICES ASSUME PalettesAgree, [ColNext]_colvars PROVE PalettesAgree'
    OBVIOUS
  <2>1. CASE ColourEscape
    <3>1. PICK p \in Palettes, iter \in ColourIters :
            /\ asked' = [what |-> "escape", p |-> p, iter |-> iter]
            /\ colour' = <<colorize_escape_bgr(iter, MaxIter, p), colorize_escape_bgr_cuda(iter, MaxIter, p),
                           d_colorize_escape_bgr_ln(iter, MaxIter, p)>>
      BY <2>1 DEF ColourEscape
    <3>2. iter \in Nat
      BY ColoursAssumption
    <3>3. asked'.what = "escape" /\ asked'.p = p /\ asked'.iter = iter
      BY <3>1
    <3>4. colour'[1] = colorize_escape_bgr(iter, MaxIter, p) /\ \A i \in DOMAIN colour' : colour'[i] = colour'[1]
      BY <3>1, <3>2, EscapeCopiesAgree
    <3>5. iter >= MaxIter => colour'[1] = White
      BY <3>4 DEF colorize_escape_bgr, StepPalette
    <3>6. Near(rainbow_from_index(iter), rainbow_from_index(iter + 1), 1)
      BY <3>2, RainbowJoins
    <3>7. iter + 1 < MaxIter /\ p \in {HsvWheel, Tri765, Spectral1530} =>
            Near(colour'[1], colorize_escape_bgr(iter + 1, MaxIter, p), 2)
      BY <3>2, <3>4, EscapesJoin
    <3> QED BY <3>3, <3>4, <3>5, <3>6, <3>7 DEF PalettesAgree
  <2>2. CASE ColourSmooth
    <3>1. PICK p \in Palettes, iter \in ShownIters, norm \in DoubleLogs \cup {NoNorm} :
            /\ asked' = [what |-> "smooth", p |-> p, iter |-> iter, norm |-> norm]
            /\ colour' = <<colorize_escape_smooth_bgr(iter, MaxIter, p, norm)>>
      BY <2>2 DEF ColourSmooth
    <3>2. iter \in Nat /\ norm \in Nat \cup {NoNorm}
      BY ColoursAssumption
    <3>3. asked'.what = "smooth" /\ asked'.p = p /\ asked'.iter = iter /\ asked'.norm = norm
      BY <3>1
    <3>4. colour'[1] = colorize_escape_smooth_bgr(iter, MaxIter, p, norm)
          /\ \A i \in DOMAIN colour' : colour'[i] = colour'[1]
      BY <3>1
    <3>5. p = Spectral1530 /\ iter + 1 < MaxIter =>
            Near(colour'[1], colorize_escape_smooth_bgr(iter + 1, MaxIter, p, norm), 1)
      BY <3>2, <3>4, SmoothEscapesJoin
    <3> QED BY <3>3, <3>4, <3>5 DEF PalettesAgree
  <2>3. CASE ColourField
    <3>1. PICK p \in Palettes, e \in FieldValues, smooth \in BOOLEAN :
            /\ asked' = [what |-> "field", p |-> p, e |-> e, smooth |-> smooth]
            /\ colour' = IF smooth THEN <<colorize_direct(e, p, TRUE)>>
                         ELSE <<colorize_direct(e, p, FALSE), colorize_metric_field_bgr(e, p)>>
      BY <2>3 DEF ColourField
    <3>2. asked'.what = "field"
      BY <3>1
    <3>3. colorize_metric_field_bgr(e, p) = colorize_direct(e, p, FALSE)
      BY FieldCopiesAgree
    <3>4. \A i \in DOMAIN colour' : colour'[i] = colour'[1]
      <4>1. PICK a, b : a = colorize_direct(e, p, TRUE) /\ b = colorize_direct(e, p, FALSE)
        OBVIOUS
      <4>2. colour' = <<a>> \/ colour' = <<b, b>>
        BY <3>1, <3>3, <4>1, Zenon
      <4> QED BY <4>2
    <3> QED BY <3>2, <3>4 DEF PalettesAgree
  <2>4. CASE UNCHANGED colvars
    BY <2>4 DEF colvars, PalettesAgree
  <2> QED BY <2>1, <2>2, <2>3, <2>4 DEF ColNext
<1> QED BY <1>1, <1>2, PTL DEF ColSpec

-----------------------------------------------------------------------------
(* Numbers of the escape-time loops.  A square, and so a norm, is never    *)
(* negative and never NaN unless the number is.                            *)
Values == -Inf .. NaN

LEMMA Numbers ==
  /\ Huge \in Nat /\ Huge >= 1 /\ Inf = Huge + 1 /\ NaN = Huge + 2
  /\ \A a \in Values : a \in Int
  /\ \A a : Finite(a) <=> a \in Int /\ -Huge <= a /\ a <= Huge
  BY HugeAssumption DEF Inf, NaN, Values, Finite

LEMMA SumsAreValues ==
  \A a, b \in Values : Add(a, b) \in Values
  BY Numbers DEF Add, Round, Values

LEMMA RoundsToValue ==
  \A a \in Int : Round(a) \in Values /\ Round(-a) = -Round(a) /\ Round(a) # NaN
  BY Numbers DEF Round, Values

LEMMA ProductsAreValues ==
  \A a, b \in Values : Mul(a, b) \in Values
<1> SUFFICES ASSUME NEW a \in Values, NEW b \in Values PROVE Mul(a, b) \in Values
  OBVIOUS
<1>1. a * b \in Int
  BY Numbers, Products
<1>2. NaN \in Values
  BY Numbers DEF Values
<1> QED BY <1>1, <1>2, RoundsToValue DEF Mul

LEMMA NegatedProduct ==
  \A a, b \in Values : Mul(a, Neg(b)) = Neg(Mul(a, b))
<1> SUFFICES ASSUME NEW a \in Values, NEW b \in Values PROVE Mul(a, Neg(b)) = Neg(Mul(a, b))
  OBVIOUS
<1>1. a \in Int /\ b \in Int /\ NaN \in Int
  BY Numbers
<1>2. a * b \in Int /\ a * (-b) = -(a * b)
  BY <1>1, Products
<1>3. PICK n : n = a * b
  OBVIOUS
<1>4. PICK m : m = a * (-b)
  OBVIOUS
<1>5. CASE NaN \in {a, b}
  BY <1>5, Numbers DEF Mul, Neg
<1>6. CASE NaN \notin {a, b}
  <2>1. -b # NaN /\ (0 \in {a, -b} <=> 0 \in {a, b}) /\ (Finite(-b) <=> Finite(b))
    BY <1>1, <1>6, Numbers DEF Values
  <2>2. CASE 0 \in {a, b} /\ ~(Finite(a) /\ Finite(b))
    BY <1>6, <2>1, <2>2 DEF Mul, Neg
  <2>3. CASE ~(0 \in {a, b} /\ ~(Finite(a) /\ Finite(b)))
    <3>1. Mul(a, Neg(b)) = Round(m) /\ Mul(a, b) = Round(n)
      BY <1>3, <1>4, <1>6, <2>1, <2>3 DEF Mul, Neg
    <3>2. m = -n /\ n \in Int
      BY <1>2, <1>3, <1>4
    <3> QED BY <3>1, <3>2, RoundsToValue DEF Neg
  <2> QED BY <2>2, <2>3
<1> QED BY <1>5, <1>6

LEMMA SquareOf ==
  \A a \in Values : Mul(a, a) = NaN \/ (Mul(a, a) \in 0 .. Inf /\ (~Finite(a) => Mul(a, a) = Inf))
<1> SUFFICES ASSUME NEW a \in Values, Mul(a, a) # NaN
             PROVE  Mul(a, a) \in 0 .. Inf /\ (~Finite(a) => Mul(a, a) = Inf)
  OBVIOUS
<1>1. a \in Int /\ a * a \in Int /\ a * a >= 0
  <2>1. a \in Int
    BY Numbers
  <2>2. a >= 0 => a * a >= 0
    BY <2>1, Products
  <2>3. a < 0 => (-a) * (-a) >= 0 /\ (-a) * (-a) = a * a
    BY <2>1
  <2> QED BY <2>1, <2>2, <2>3, Products
<1>2. PICK n : n = a * a
  OBVIOUS
<1>3. Mul(a, a) = Round(n) /\ a # NaN
  BY <1>2 DEF Mul
<1>4. Round(n) \in 0 .. Inf
  BY <1>1, <1>2, Numbers DEF Round
<1>5. ASSUME ~Finite(a) PROVE n > Huge
  <2>1. a = Inf \/ a = -Inf
    BY <1>1, <1>3, <1>5, Numbers DEF Values
  <2>2. PICK h : h = Huge * Huge
    OBVIOUS
  <2>3. h \in Int /\ h >= 0
    BY <2>2, Numbers, Products
  <2>4. n = h + 2 * Huge + 1
    BY <1>2, <2>1, <2>2, Numbers
  <2> QED BY <2>3, <2>4, Numbers
<1> QED BY <1>1, <1>2, <1>3, <1>4, <1>5, Numbers DEF Round

-----------------------------------------------------------------------------
(* Points.  A loop only ever meets points with their squares.              *)
IsPoint(z) == \E a, b : z = Cached(Point(a, b))
IsValuePoint(z) == \E a, b \in Values : z = Cached(Point(a, b))

LEMMA NormOfPoint ==
  \A z : IsPoint(z) => FiniteNorm(z) \in 0 .. Inf
<1> SUFFICES ASSUME NEW a, NEW b PROVE FiniteNorm(Cached(Point(a, b))) \in 0 .. Inf
  BY DEF IsPoint
<1>1. CASE Finite(a) /\ Finite(b)
  <2>1. a \in Values /\ b \in Values /\ a # NaN /\ b # NaN
    BY <1>1, Numbers DEF Values
  <2>2. Mul(a, a) # NaN /\ Mul(b, b) # NaN
    <3>1. \A c : Finite(c) => Mul(c, c) # NaN
      <4> SUFFICES ASSUME NEW c, Finite(c) PROVE Mul(c, c) # NaN
        OBVIOUS
      <4>1. c \in Int /\ c # NaN /\ c * c \in Int
        BY Numbers, Products
      <4> QED BY <4>1, RoundsToValue DEF Mul
    <3> QED BY <1>1, <3>1
  <2>3. Mul(a, a) \in 0 .. Inf /\ Mul(b, b) \in 0 .. Inf
    BY <2>1, <2>2, SquareOf
  <2>4. Add(Mul(a, a), Mul(b, b)) \in 0 .. Inf
    BY <2>3, Numbers DEF Add, Round
  <2> QED BY <1>1, <2>4 DEF FiniteNorm, Cached, Point
<1>2. CASE ~(Finite(a) /\ Finite(b))
  BY <1>2, Numbers DEF FiniteNorm, Cached, Point
<1> QED BY <1>1, <1>2

(* The vector loops look at the norm only: it is NaN or beyond the bailout *)
(* exactly when the scalar loop would leave.                               *)
LEMMA NormOfLane ==
  ASSUME NEW z, IsValuePoint(z), NEW n, n = Add(z.re2, z.im2)
  PROVE  /\ Finite(z.re) /\ Finite(z.im) => n = FiniteNorm(z) /\ n \in 0 .. Inf
         /\ ~(Finite(z.re) /\ Finite(z.im)) => n \in {Inf, NaN} /\ FiniteNorm(z) = Inf
<1>1. PICK a, b \in Values : z = Cached(Point(a, b))
  BY DEF IsValuePoint
<1>2. z.re = a /\ z.im = b /\ z.re2 = Mul(a, a) /\ z.im2 = Mul(b, b)
  BY <1>1 DEF Cached, Point
<1>3. ASSUME Finite(a), Finite(b) PROVE n = FiniteNorm(z) /\ n \in 0 .. Inf
  <2>1. n = FiniteNorm(z)
    BY <1>2, <1>3 DEF FiniteNorm
  <2>2. FiniteNorm(z) \in 0 .. Inf
    BY <1>1, NormOfPoint DEF IsPoint
  <2> QED BY <2>1, <2>2
<1>4. ASSUME ~(Finite(a) /\ Finite(b)) PROVE n \in {Inf, NaN}
  <2>1. PICK r : r = Mul(a, a)
    OBVIOUS
  <2>2. PICK i : i = Mul(b, b)
    OBVIOUS
  <2>3. r = NaN \/ (r \in 0 .. Inf /\ (~Finite(a) => r = Inf))
    BY <1>1, <2>1, SquareOf
  <2>4. i = NaN \/ (i \in 0 .. Inf /\ (~Finite(b) => i = Inf))
    BY <1>1, <2>2, SquareOf
  <2>5. r = NaN \/ i = NaN \/ r = Inf \/ i = Inf
    BY <1>4, <2>3, <2>4
  <2>6. n = Add(r, i)
    BY <1>2, <2>1, <2>2
  <2>7. r # -Inf /\ i # -Inf
    BY <2>3, <2>4, Numbers
  <2> QED BY <2>5, <2>6, <2>7 DEF Add
<1> QED BY <1>2, <1>3, <1>4 DEF FiniteNorm

LEMMA FoldsAreValues ==
  \A f \in Signs, a \in Values : Fold(f, a) \in Values /\ Neg(a) \in Values
<1> SUFFICES ASSUME NEW f \in Signs, NEW a \in Values PROVE Fold(f, a) \in Values /\ Neg(a) \in Values
  OBVIOUS
<1>1. Neg(a) \in Values /\ Magnitude(a) \in Values
  BY Numbers DEF Neg, Magnitude, Values
<1> QED BY <1>1 DEF Fold, Signs

LEMMA StepsAreValuePoints ==
  ASSUME NEW f \in Folding, NEW z, IsValuePoint(z), NEW c, c.re \in Values, c.im \in Values
  PROVE  IsValuePoint(QuadraticStep(f, z, c))
<1>1. PICK a, b \in Values : z = Cached(Point(a, b))
  BY DEF IsValuePoint
<1>2. z.re = a /\ z.im = b /\ z.re2 \in Values /\ z.im2 \in Values
  BY <1>1, ProductsAreValues DEF Cached, Point
<1>3. f[1] \in Signs /\ f[2] \in Signs /\ f[3] \in Signs /\ f[4] \in Signs
  BY DEF Folding
<1>4. 2 \in Values
  BY Numbers DEF Values
<1>5. Add(Fold(f[3], Add(z.re2, Neg(z.im2))), c.re) \in Values
  BY <1>2, <1>3, FoldsAreValues, SumsAreValues
<1>6. Mul(2, Mul(Fold(f[1], z.re), Fold(f[2], z.im))) \in Values
  BY <1>2, <1>3, <1>4, FoldsAreValues, ProductsAreValues
<1>7. Add(Fold(f[4], Mul(2, Mul(Fold(f[1], z.re), Fold(f[2], z.im)))), c.im) \in Values
  BY <1>3, <1>6, FoldsAreValues, SumsAreValues
<1> QED BY <1>5, <1>7 DEF IsValuePoint, QuadraticStep

(* Every copy of the variant table computes the same step; the GPU's copy  *)
(* for the ln map negates the product of variant 4, the others a factor.   *)
StepTables ==
  {avx2_step, avx2_step_ps, avx512_step, avx512_step_ps, step_fp64_cached, step_fp32_cached,
   ln_avx2_step, ln_avx2_step_ps, ln_avx512_step, ln_avx512_step_ps, d_step_cached, d_step_cached_f}

LEMMA TablesAreTyped ==
  \A f \in StepTables, v \in Quadratic : f[v + 1] \in Folding /\ variant_step[v] \in Folding
<1> SUFFICES ASSUME NEW f \in StepTables, NEW v \in Quadratic
             PROVE  f[v + 1] \in Folding /\ variant_step[v] \in Folding
  OBVIOUS
<1>1. v \in {0, 1, 2, 3, 4, 5, 6, 7, 8, 9}
  BY DEF Quadratic
<1>2. variant_step[v] \in Folding
  BY <1>1 DEF variant_step, Folding, Signs, Quadratic
<1>3. CASE f \in {d_step_cached, d_step_cached_f}
  <2>1. f = d_step_cached
    BY <1>3 DEF d_step_cached, d_step_cached_f
  <2>2. d_step_cached[v + 1] \in Folding
    BY <1>1 DEF d_step_cached, Folding, Signs
  <2> QED BY <1>2, <2>1, <2>2
<1>4. CASE f \notin {d_step_cached, d_step_cached_f}
  <2>1. f[v + 1] = variant_step[v]
    BY <1>1, <1>4 DEF StepTables, avx2_step, avx2_step_ps, avx512_step, avx512_step_ps,
       step_fp64_cached, step_fp32_cached, ln_avx2_step, ln_avx2_step_ps, ln_avx512_step,
       ln_avx512_step_ps, variant_step, Quadratic
  <2> QED BY <1>2, <2>1
<1> QED BY <1>2, <1>3, <1>4

LEMMA TablesAgree ==
  ASSUME NEW f \in StepTables, NEW v \in Quadratic, NEW z, IsValuePoint(z), NEW c
  PROVE  QuadraticStep(f[v + 1], z, c) = QuadraticStep(variant_step[v], z, c)
<1>1. v \in {0, 1, 2, 3, 4, 5, 6, 7, 8, 9}
  BY DEF Quadratic
<1>2. CASE f \notin {d_step_cached, d_step_cached_f} \/ v # 4
  <2>1. f[v + 1] = variant_step[v]
    BY <1>1, <1>2 DEF StepTables, avx2_step, avx2_step_ps, avx512_step, avx512_step_ps,
       step_fp64_cached, step_fp32_cached, ln_avx2_step, ln_avx2_step_ps, ln_avx512_step,
       ln_avx512_step_ps, d_step_cached, d_step_cached_f, variant_step, Quadratic
  <2> QED BY <2>1
<1>3. CASE f \in {d_step_cached, d_step_cached_f} /\ v = 4
  <2>1. f[v + 1] = <<"|", "+", "+", "-">> /\ variant_step[v] = <<"|", "-", "+", "+">>
    BY <1>3 DEF d_step_cached, d_step_cached_f, variant_step, Quadratic
  <2>2. PICK a, b \in Values : z = Cached(Point(a, b))
    BY DEF IsValuePoint
  <2>3. PICK m : m = Magnitude(a)
    OBVIOUS
  <2>4. m \in Values /\ 2 \in Values
    BY <2>3, Numbers DEF Magnitude, Values
  <2>5. Mul(m, Neg(b)) = Neg(Mul(m, b)) /\ Mul(m, b) \in Values
    BY <2>4, NegatedProduct, ProductsAreValues
  <2>6. Mul(2, Mul(m, Neg(b))) = Neg(Mul(2, Mul(m, b)))
    BY <2>4, <2>5, NegatedProduct
  <2>7. z.re = a /\ z.im = b
    BY <2>2 DEF Cached, Point
  <2> QED BY <2>1, <2>3, <2>6, <2>7 DEF QuadraticStep, Fold
<1> QED BY <1>2, <1>3

LEMMA StepCachedAgrees ==
  \A v \in Quadratic : step_cached[v] = variant_step[v]
  BY DEF step_cached, variant_step, Quadratic

-----------------------------------------------------------------------------
(* Loops.  Turn is one iteration of any of them.                           *)

(* The pairwise loop that can be cancelled; without a stop, the plain one. *)
SearchBody(j, c, stop, s) ==
  IF ~(s.escaped \/ s.cancelled) /\ s.scratch # <<>> /\ stop # Never /\ s.i >= stop
  THEN [s EXCEPT !.cancelled = TRUE] ELSE PairwiseBody(j, c, stop, s)

(* The vector loop of the slices, which stops when every lane has escaped. *)
LanesBody(copy, j, inside, v) ==
  IF \A l \in inside : v[l].escaped THEN v
  ELSE [l \in DOMAIN v |-> Lane(copy, j, v[l], l \in inside /\ ~v[l].escaped)]

Turn(k, s) ==
  IF k.loop = "orbit" THEN TrueStep(k.job, s, k.c)
  ELSE IF k.loop = "quadratic" THEN QuadraticBody(k.job.variant, k.c, k.job.bail * k.job.bail, k.stop, s)
  ELSE IF k.loop = "transcendental" THEN TranscendentalBody(k.job.variant, k.c, k.job.bail, k.stop, s)
  ELSE IF k.loop = "thread" THEN ThreadBody(k.folds, k.job, k.c, s)
  ELSE IF k.loop = "pairwise" THEN SearchBody(k.job, k.c, k.stop, s)
  ELSE IF k.loop = "slice orbit" THEN TrueSliceStep(k.job.legs, s, k.c)
  ELSE IF k.loop = "slice" THEN SliceBody(k.copy, k.job, s)
  ELSE IF k.loop = "slice lanes" THEN LanesBody(k.copy, k.job, k.inside, s)
  ELSE LanesStep(k.kernel, k.job, s)

Runs(g, k, a, n) == g[0] = a /\ \A i \in 1 .. n : g[i] = Turn(k, g[i - 1])

LEMMA Unrolls ==
  ASSUME NEW k, NEW a, NEW n \in Nat
  PROVE  \E g : g = [i \in 0 .. n |-> IF i = 0 THEN a ELSE Turn(k, g[i - 1])]
<1> DEFINE Unrolled(m) == \E g : g = [i \in 0 .. m |-> IF i = 0 THEN a ELSE Turn(k, g[i - 1])]
           T == {m \in Nat : Unrolled(m)}
<1>1. 0 \in T
  <2>1. PICK g : g = [i \in 0 .. 0 |-> a]
    OBVIOUS
  <2>2. [i \in 0 .. 0 |-> IF i = 0 THEN a ELSE Turn(k, g[i - 1])] = [i \in 0 .. 0 |-> a]
    OBVIOUS
  <2>3. Unrolled(0)
    BY <2>1, <2>2
  <2> QED BY <2>3
<1>2. ASSUME NEW m \in T PROVE m + 1 \in T
  <2>1. PICK g : g = [i \in 0 .. m |-> IF i = 0 THEN a ELSE Turn(k, g[i - 1])]
    OBVIOUS
  <2>2. PICK h : h = [i \in 0 .. m + 1 |-> IF i = m + 1 THEN Turn(k, g[m]) ELSE g[i]]
    OBVIOUS
  <2>3. m \in Nat
    OBVIOUS
  <2>4. ASSUME NEW i \in 0 .. m + 1 PROVE h[i] = IF i = 0 THEN a ELSE Turn(k, h[i - 1])
    <3>1. CASE i = m + 1
      <4>1. h[i] = Turn(k, g[m]) /\ h[i - 1] = g[m] /\ i # 0
        BY <2>2, <2>3, <3>1
      <4> QED BY <4>1
    <3>2. CASE i # m + 1
      <4>1. i \in 0 .. m /\ h[i] = g[i]
        BY <2>2, <2>3, <3>2
      <4>2. g[i] = IF i = 0 THEN a ELSE Turn(k, g[i - 1])
        BY <2>1, <4>1
      <4>3. i # 0 => h[i - 1] = g[i - 1]
        BY <2>2, <2>3, <4>1
      <4> QED BY <4>1, <4>2, <4>3
    <3> QED BY <3>1, <3>2
  <2>5. h = [i \in 0 .. m + 1 |-> h[i]]
    BY <2>2
  <2>6. h = [i \in 0 .. m + 1 |-> IF i = 0 THEN a ELSE Turn(k, h[i - 1])]
    BY <2>4, <2>5
  <2>7. Unrolled(m + 1)
    BY <2>6
  <2> QED BY <2>3, <2>7
<1>3. T = Nat
  <2>1. T \in SUBSET Nat
    OBVIOUS
  <2> HIDE DEF T
  <2> QED BY <1>1, <1>2, <2>1, Induction
<1> QED BY <1>3

LEMMA Unrolled ==
  ASSUME NEW k, NEW a, NEW n \in Nat,
         NEW g, g = CHOOSE f : f = [i \in 0 .. n |-> IF i = 0 THEN a ELSE Turn(k, f[i - 1])]
  PROVE  Runs(g, k, a, n)
<1>1. g = [i \in 0 .. n |-> IF i = 0 THEN a ELSE Turn(k, g[i - 1])]
  BY Unrolls
<1>2. g[0] = a
  <2>1. 0 \in 0 .. n
    OBVIOUS
  <2> QED BY <1>1, <2>1
<1>3. ASSUME NEW i \in 1 .. n PROVE g[i] = Turn(k, g[i - 1])
  <2>1. i \in 0 .. n /\ i # 0
    OBVIOUS
  <2> QED BY <1>1, <2>1
<1> QED BY <1>2, <1>3 DEF Runs

OrbitLoop(j, p) == [loop |-> "orbit", job |-> j, c |-> Param(j, p)]
QuadraticLoop(j, c, stop) == [loop |-> "quadratic", job |-> j, c |-> c, stop |-> stop]
TranscendentalLoop(j, c, stop) == [loop |-> "transcendental", job |-> j, c |-> c, stop |-> stop]
ThreadLoop(folds, j, c) == [loop |-> "thread", folds |-> folds, job |-> j, c |-> c]
SearchLoop(j, c, stop) == [loop |-> "pairwise", job |-> j, c |-> c, stop |-> stop]
LanesLoop(k, j) == [loop |-> "lanes", kernel |-> k, job |-> j]

LEMMA OrbitRuns ==
  ASSUME NEW j, NEW p, j.iters \in Nat
  PROVE  Runs(Orbit(j, p), OrbitLoop(j, p), Cached(Start(j, p)), j.iters)
<1> DEFINE k == OrbitLoop(j, p)
<1>1. \A s : Turn(k, s) = TrueStep(j, s, Param(j, p))
  BY DEF Turn, OrbitLoop
<1>2. Orbit(j, p) = CHOOSE f : f = [i \in 0 .. j.iters |-> IF i = 0 THEN Cached(Start(j, p))
                                                          ELSE TrueStep(j, f[i - 1], Param(j, p))]
  BY DEF Orbit
<1>3. Orbit(j, p) = CHOOSE f : f = [i \in 0 .. j.iters |-> IF i = 0 THEN Cached(Start(j, p))
                                                          ELSE Turn(k, f[i - 1])]
  BY <1>1, <1>2
<1> HIDE DEF k
<1> QED BY <1>3, Unrolled DEF k

LEMMA QuadraticRuns ==
  ASSUME NEW j, NEW z0, NEW c, NEW stop, j.iters \in Nat
  PROVE  \E g : /\ Runs(g, QuadraticLoop(j, c, stop), make_iter_result(Cached(z0)), j.iters)
                /\ iterate_quadratic(j, z0, c, stop) = g[j.iters]
<1> DEFINE k == QuadraticLoop(j, c, stop)
<1>1. \A s : Turn(k, s) = QuadraticBody(j.variant, c, j.bail * j.bail, stop, s)
  BY DEF Turn, QuadraticLoop
<1>2. PICK g : g = CHOOSE f : f = [i \in 0 .. j.iters |-> IF i = 0 THEN make_iter_result(Cached(z0))
                                     ELSE QuadraticBody(j.variant, c, j.bail * j.bail, stop, f[i - 1])]
  OBVIOUS
<1>3. iterate_quadratic(j, z0, c, stop) = g[j.iters]
  BY <1>2 DEF iterate_quadratic, Iterate
<1>4. g = CHOOSE f : f = [i \in 0 .. j.iters |-> IF i = 0 THEN make_iter_result(Cached(z0))
                                                 ELSE Turn(k, f[i - 1])]
  BY <1>1, <1>2
<1> HIDE DEF k
<1> QED BY <1>3, <1>4, Unrolled DEF k

LEMMA TranscendentalRuns ==
  ASSUME NEW j, NEW z0, NEW c, NEW stop, j.iters \in Nat
  PROVE  \E g : /\ Runs(g, TranscendentalLoop(j, c, stop), make_iter_result(Cached(z0)), j.iters)
                /\ iterate_transcendental(j, z0, c, stop) = g[j.iters]
<1> DEFINE k == TranscendentalLoop(j, c, stop)
<1>1. \A s : Turn(k, s) = TranscendentalBody(j.variant, c, j.bail, stop, s)
  BY DEF Turn, TranscendentalLoop
<1>2. PICK g : g = CHOOSE f : f = [i \in 0 .. j.iters |-> IF i = 0 THEN make_iter_result(Cached(z0))
                                     ELSE TranscendentalBody(j.variant, c, j.bail, stop, f[i - 1])]
  OBVIOUS
<1>3. iterate_transcendental(j, z0, c, stop) = g[j.iters]
  BY <1>2 DEF iterate_transcendental, Iterate
<1>4. g = CHOOSE f : f = [i \in 0 .. j.iters |-> IF i = 0 THEN make_iter_result(Cached(z0))
                                                 ELSE Turn(k, f[i - 1])]
  BY <1>1, <1>2
<1> HIDE DEF k
<1> QED BY <1>3, <1>4, Unrolled DEF k

ThreadStart(j, p) ==
  [i |-> 0, z |-> Cached(Start(j, p)), min |-> Inf, max |-> 0, norm |-> 0, escaped |-> FALSE]
ThreadAnswer(s) ==
  [iter |-> s.i, norm |-> s.norm, min |-> s.min, max |-> s.max, escaped |-> s.escaped]

LEMMA ThreadRuns ==
  ASSUME NEW folds, NEW j, NEW p, j.iters \in Nat
  PROVE  \E g : /\ Runs(g, ThreadLoop(folds, j, Param(j, p)), ThreadStart(j, p), j.iters)
                /\ Thread(folds, j, p) = ThreadAnswer(g[j.iters])
<1> DEFINE k == ThreadLoop(folds, j, Param(j, p))
<1>1. \A s : Turn(k, s) = ThreadBody(folds, j, Param(j, p), s)
  BY DEF Turn, ThreadLoop
<1>2. PICK g : g = CHOOSE f : f = [i \in 0 .. j.iters |-> IF i = 0 THEN ThreadStart(j, p)
                                     ELSE ThreadBody(folds, j, Param(j, p), f[i - 1])]
  OBVIOUS
<1>3. Thread(folds, j, p) = ThreadAnswer(g[j.iters])
  BY <1>2 DEF Thread, Iterate, ThreadAnswer, ThreadStart
<1>4. g = CHOOSE f : f = [i \in 0 .. j.iters |-> IF i = 0 THEN ThreadStart(j, p) ELSE Turn(k, f[i - 1])]
  BY <1>1, <1>2
<1> HIDE DEF k
<1> QED BY <1>3, <1>4, Unrolled DEF k

(* What a group of lanes answers at lane l.                                *)
LaneAnswer(j, g, l) ==
  [iter |-> IF l \in g.active THEN j.iters ELSE g.iter[l], norm |-> IF l \in g.active THEN 0 ELSE g.norm[l],
   min |-> g.min[l], max |-> g.max[l], escaped |-> l \notin g.active]

-----------------------------------------------------------------------------
(* What a loop has seen.  A view is what a loop knows of the orbit z: the  *)
(* pixel escaped or not, and the answers so far.  A loop that tracks the   *)
(* orbit gives the reference's answer in the end.                          *)
Quiet(j, z, i) == \A n \in 1 .. i : ~Escapes(j, z[n])
Norms(z, i) == {FiniteNorm(z[n]) : n \in 1 .. i}
IsLow(z, i, a) == a \in Norms(z, i) \cup {Inf} /\ \A n \in 1 .. i : a <= FiniteNorm(z[n])
IsHigh(z, i, a) == a \in Norms(z, i) \cup {0} /\ \A n \in 1 .. i : a >= FiniteNorm(z[n])

LeftAt(j, z, e, v) ==
  /\ Quiet(j, z, e - 1) /\ Escapes(j, z[e]) /\ v.iter = e - 1
  /\ Finite(FiniteNorm(z[e])) => v.norm = FiniteNorm(z[e]) /\ IsLow(z, e, v.min) /\ IsHigh(z, e, v.max)
  /\ ~Finite(FiniteNorm(z[e])) => ~Finite(v.norm)

Tracks(j, z, i, v) ==
  /\ v.escaped \in BOOLEAN
  /\ ~v.escaped => Quiet(j, z, i) /\ v.norm = 0 /\ IsLow(z, i, v.min) /\ IsHigh(z, i, v.max)
  /\ v.escaped => \E e \in 1 .. i : LeftAt(j, z, e, v)

(* One iteration: v is the view before it, w the view after it.            *)
Follows(j, z, i, v, w) ==
  /\ v.escaped => w = v
  /\ ~v.escaped =>
       /\ w.escaped = Escapes(j, z[i])
       /\ ~w.escaped => w.norm = 0
       /\ ~w.escaped \/ Finite(FiniteNorm(z[i])) =>
            /\ w.min = IF FiniteNorm(z[i]) < v.min THEN FiniteNorm(z[i]) ELSE v.min
            /\ w.max = IF FiniteNorm(z[i]) > v.max THEN FiniteNorm(z[i]) ELSE v.max
       /\ w.escaped =>
            /\ w.iter = i - 1
            /\ Finite(FiniteNorm(z[i])) => w.norm = FiniteNorm(z[i])
            /\ ~Finite(FiniteNorm(z[i])) => ~Finite(w.norm)

LEMMA Extremes ==
  ASSUME NEW z, NEW i \in Nat \ {0}, \A n \in 1 .. i : IsPoint(z[n]), NEW lo, NEW hi,
         IsLow(z, i - 1, lo), IsHigh(z, i - 1, hi)
  PROVE  /\ IsLow(z, i, IF FiniteNorm(z[i]) < lo THEN FiniteNorm(z[i]) ELSE lo)
         /\ IsHigh(z, i, IF FiniteNorm(z[i]) > hi THEN FiniteNorm(z[i]) ELSE hi)
<1>1. \A n \in 1 .. i : FiniteNorm(z[n]) \in 0 .. Inf
  BY NormOfPoint
<1>2. 1 .. i = (1 .. i - 1) \cup {i}
  OBVIOUS
<1>3. lo \in 0 .. Inf /\ hi \in 0 .. Inf
  BY <1>1, <1>2, Numbers DEF IsLow, IsHigh, Norms
<1>4. PICK m : m = FiniteNorm(z[i])
  OBVIOUS
<1>5. m \in 0 .. Inf /\ m \in Norms(z, i) /\ Norms(z, i - 1) \subseteq Norms(z, i)
  BY <1>1, <1>2, <1>4 DEF Norms
<1>6. ASSUME m < lo PROVE IsLow(z, i, m)
  <2>1. \A n \in 1 .. i : m <= FiniteNorm(z[n])
    BY <1>1, <1>2, <1>3, <1>4, <1>5, <1>6, Numbers DEF IsLow
  <2> QED BY <1>5, <2>1 DEF IsLow
<1>7. ASSUME ~(m < lo) PROVE IsLow(z, i, lo)
  <2>1. \A n \in 1 .. i : lo <= FiniteNorm(z[n])
    BY <1>1, <1>2, <1>3, <1>4, <1>5, <1>7, Numbers DEF IsLow
  <2> QED BY <1>5, <2>1 DEF IsLow
<1>8. ASSUME m > hi PROVE IsHigh(z, i, m)
  <2>1. \A n \in 1 .. i : m >= FiniteNorm(z[n])
    BY <1>1, <1>2, <1>3, <1>4, <1>5, <1>8, Numbers DEF IsHigh
  <2> QED BY <1>5, <2>1 DEF IsHigh
<1>9. ASSUME ~(m > hi) PROVE IsHigh(z, i, hi)
  <2>1. \A n \in 1 .. i : hi >= FiniteNorm(z[n])
    BY <1>1, <1>2, <1>3, <1>4, <1>5, <1>9, Numbers DEF IsHigh
  <2> QED BY <1>5, <2>1 DEF IsHigh
<1> QED BY <1>4, <1>6, <1>7, <1>8, <1>9

LEMMA Tracking ==
  ASSUME NEW j, NEW z, NEW i \in Nat \ {0}, \A n \in 1 .. i : IsPoint(z[n]), NEW v, NEW w,
         Tracks(j, z, i - 1, v), Follows(j, z, i, v, w)
  PROVE  Tracks(j, z, i, w)
<1>1. CASE v.escaped
  <2>1. w = v /\ w.escaped \in BOOLEAN
    BY <1>1 DEF Follows, Tracks
  <2>2. PICK e \in 1 .. i - 1 : LeftAt(j, z, e, v)
    BY <1>1 DEF Tracks
  <2>3. e \in 1 .. i
    BY <2>2
  <2> QED BY <1>1, <2>1, <2>2, <2>3 DEF Tracks
<1>2. CASE ~v.escaped
  <2> DEFINE m == FiniteNorm(z[i])
             lo == IF m < v.min THEN m ELSE v.min
             hi == IF m > v.max THEN m ELSE v.max
  <2>1. Quiet(j, z, i - 1) /\ IsLow(z, i - 1, v.min) /\ IsHigh(z, i - 1, v.max)
    BY <1>2 DEF Tracks
  <2>2. IsLow(z, i, lo) /\ IsHigh(z, i, hi)
    BY <2>1, Extremes
  <2>3. w.escaped = Escapes(j, z[i]) /\ w.escaped \in BOOLEAN
    BY <1>2 DEF Follows, Escapes
  <2>4. ~w.escaped \/ Finite(m) => w.min = lo /\ w.max = hi
    BY <1>2 DEF Follows
  <2>5. CASE w.escaped
    <3>1. w.iter = i - 1 /\ (Finite(m) => w.norm = m) /\ (~Finite(m) => ~Finite(w.norm))
      BY <1>2, <2>5 DEF Follows
    <3> HIDE DEF m, lo, hi
    <3>2. LeftAt(j, z, i, w)
      BY <2>1, <2>2, <2>3, <2>4, <2>5, <3>1 DEF LeftAt, m
    <3>3. i \in 1 .. i
      OBVIOUS
    <3> QED BY <2>3, <2>5, <3>2, <3>3 DEF Tracks
  <2>6. CASE ~w.escaped
    <3>1. w.norm = 0
      BY <1>2, <2>6 DEF Follows
    <3>2. 1 .. i = (1 .. i - 1) \cup {i}
      OBVIOUS
    <3>3. Quiet(j, z, i)
      BY <2>1, <2>3, <2>6, <3>2 DEF Quiet
    <3> HIDE DEF m, lo, hi
    <3> QED BY <2>2, <2>3, <2>4, <2>6, <3>1, <3>3 DEF Tracks
  <2> QED BY <2>3, <2>5, <2>6
<1> QED BY <1>1, <1>2

LEMMA LeastIs ==
  ASSUME NEW S, S \subseteq Int, NEW a \in S, \A b \in S : a <= b
  PROVE  Least(S) = a
<1>1. PICK m : m = Least(S)
  OBVIOUS
<1>2. m \in S /\ \A b \in S : m <= b
  BY <1>1 DEF Least
<1>3. m \in Int /\ a \in Int /\ m <= a /\ a <= m
  BY <1>2
<1> QED BY <1>1, <1>3

LEMMA GreatestIs ==
  ASSUME NEW S, S \subseteq Int, NEW a \in S, \A b \in S : a >= b
  PROVE  Greatest(S) = a
<1>1. PICK m : m = Greatest(S)
  OBVIOUS
<1>2. m \in S /\ \A b \in S : m >= b
  BY <1>1 DEF Greatest
<1>3. m \in Int /\ a \in Int /\ m >= a /\ a >= m
  BY <1>2
<1> QED BY <1>1, <1>3

LEMMA ExtremesAre ==
  ASSUME NEW z, NEW i \in Nat, \A n \in 1 .. i : IsPoint(z[n]), NEW lo, NEW hi,
         IsLow(z, i, lo), IsHigh(z, i, hi)
  PROVE  Least(Norms(z, i) \cup {Inf}) = lo /\ Greatest(Norms(z, i) \cup {0}) = hi
<1>1. \A n \in 1 .. i : FiniteNorm(z[n]) \in 0 .. Inf
  BY NormOfPoint
<1>2. lo \in 0 .. Inf /\ hi \in 0 .. Inf
  BY <1>1, Numbers DEF IsLow, IsHigh, Norms
<1>3. \A b \in Norms(z, i) \cup {Inf} : lo <= b
  BY <1>1, <1>2 DEF IsLow, Norms
<1>4. \A b \in Norms(z, i) \cup {0} : hi >= b
  BY <1>1, <1>2 DEF IsHigh, Norms
<1>5. Norms(z, i) \cup {Inf} \subseteq Int /\ Norms(z, i) \cup {0} \subseteq Int
  BY <1>1, Numbers DEF Norms
<1>6. lo \in Norms(z, i) \cup {Inf} /\ hi \in Norms(z, i) \cup {0}
  BY DEF IsLow, IsHigh
<1> QED BY <1>3, <1>4, <1>5, <1>6, LeastIs, GreatestIs

(* The reference by the same notions.                                      *)
LEMMA ReferenceOfQuiet ==
  ASSUME NEW j, NEW x, NEW y, NEW z, z = Orbit(j, TruePixel(j, x, y)), j.iters \in Nat,
         Quiet(j, z, j.iters)
  PROVE  Reference(j, x, y) =
           [iter |-> j.iters, escaped |-> FALSE, norm |-> 0,
            min |-> Least(Norms(z, j.iters) \cup {Inf}), max |-> Greatest(Norms(z, j.iters) \cup {0})]
<1>1. {i \in 1 .. j.iters : Escapes(j, z[i])} = {}
  BY DEF Quiet
<1>2. Last(j, z, j.iters) = j.iters
  BY <1>1 DEF Last
<1>3. (\E i \in 1 .. j.iters : Escapes(j, z[i])) = FALSE
  BY <1>1
<1> QED BY <1>2, <1>3 DEF Reference, Norms

LEMMA ReferenceOfEscape ==
  ASSUME NEW j, NEW x, NEW y, NEW z, z = Orbit(j, TruePixel(j, x, y)), j.iters \in Nat,
         NEW e \in 1 .. j.iters, Quiet(j, z, e - 1), Escapes(j, z[e])
  PROVE  Reference(j, x, y) =
           [iter |-> e - 1, escaped |-> TRUE, norm |-> FiniteNorm(z[e]),
            min |-> Least(Norms(z, e) \cup {Inf}), max |-> Greatest(Norms(z, e) \cup {0})]
<1> DEFINE out == {i \in 1 .. j.iters : Escapes(j, z[i])}
<1>1. e \in out
  OBVIOUS
<1>2. \A i \in out : e <= i
  <2> SUFFICES ASSUME NEW i \in out, ~(e <= i) PROVE FALSE
    OBVIOUS
  <2>1. i \in 1 .. e - 1 /\ Escapes(j, z[i])
    OBVIOUS
  <2> QED BY <2>1 DEF Quiet
<1>3. out \subseteq Int
  OBVIOUS
<1>4. Least(out) = e
  <2> HIDE DEF out
  <2> QED BY <1>1, <1>2, <1>3, LeastIs
<1>5. Last(j, z, j.iters) = e
  BY <1>1, <1>4 DEF Last
<1>6. (\E i \in 1 .. j.iters : Escapes(j, z[i])) = TRUE
  OBVIOUS
<1> QED BY <1>5, <1>6 DEF Reference, Norms

LEMMA TrackedAnswer ==
  ASSUME NEW j, NEW x, NEW y, NEW z, z = Orbit(j, TruePixel(j, x, y)), j.iters \in Nat,
         \A n \in 1 .. j.iters : IsPoint(z[n]), NEW v, Tracks(j, z, j.iters, v),
         NEW a, a.escaped = v.escaped, a.iter = (IF v.escaped THEN v.iter ELSE j.iters),
         a.norm = v.norm, a.min = v.min, a.max = v.max
  PROVE  Matches(a, Reference(j, x, y))
<1>1. v.escaped \in BOOLEAN
  BY DEF Tracks
<1>2. CASE ~v.escaped
  <2>1. Quiet(j, z, j.iters) /\ v.norm = 0 /\ IsLow(z, j.iters, v.min) /\ IsHigh(z, j.iters, v.max)
    BY <1>2 DEF Tracks
  <2>2. Least(Norms(z, j.iters) \cup {Inf}) = v.min /\ Greatest(Norms(z, j.iters) \cup {0}) = v.max
    BY <2>1, ExtremesAre
  <2>3. Finite(0)
    BY Numbers
  <2>4. PICK r : r = Reference(j, x, y)
    OBVIOUS
  <2>5. r = [iter |-> j.iters, escaped |-> FALSE, norm |-> 0, min |-> v.min, max |-> v.max]
    BY <2>1, <2>2, <2>4, ReferenceOfQuiet
  <2>6. a.iter = r.iter /\ a.escaped = r.escaped /\ a.norm = r.norm /\ a.min = r.min /\ a.max = r.max
        /\ Finite(r.norm)
    BY <1>1, <1>2, <2>1, <2>3, <2>5
  <2> QED BY <2>4, <2>6 DEF Matches
<1>3. CASE v.escaped
  <2>1. PICK e \in 1 .. j.iters : LeftAt(j, z, e, v)
    BY <1>3 DEF Tracks
  <2>2. Quiet(j, z, e - 1) /\ Escapes(j, z[e]) /\ v.iter = e - 1
    BY <2>1 DEF LeftAt
  <2>3. PICK r, n2, lo, hi : /\ r = Reference(j, x, y) /\ n2 = FiniteNorm(z[e])
                             /\ lo = Least(Norms(z, e) \cup {Inf}) /\ hi = Greatest(Norms(z, e) \cup {0})
    OBVIOUS
  <2>4. r = [iter |-> e - 1, escaped |-> TRUE, norm |-> n2, min |-> lo, max |-> hi]
    BY <2>1, <2>2, <2>3, ReferenceOfEscape, SMTT(30)
  <2>5. r.iter = e - 1 /\ r.escaped = TRUE /\ r.norm = FiniteNorm(z[e])
        /\ r.min = Least(Norms(z, e) \cup {Inf}) /\ r.max = Greatest(Norms(z, e) \cup {0})
    <3>1. r.iter = e - 1 /\ r.escaped = TRUE /\ r.norm = n2 /\ r.min = lo /\ r.max = hi
      BY <2>4
    <3> QED BY <2>3, <3>1
  <2>6. ASSUME Finite(FiniteNorm(z[e]))
        PROVE  a.norm = r.norm /\ a.min = r.min /\ a.max = r.max
    <3>1. v.norm = FiniteNorm(z[e]) /\ IsLow(z, e, v.min) /\ IsHigh(z, e, v.max)
      BY <2>1, <2>6 DEF LeftAt
    <3>2. e \in Nat /\ \A n \in 1 .. e : IsPoint(z[n])
      BY <2>1
    <3>3. Least(Norms(z, e) \cup {Inf}) = v.min /\ Greatest(Norms(z, e) \cup {0}) = v.max
      BY <3>1, <3>2, ExtremesAre
    <3> QED BY <2>5, <3>1, <3>3
  <2>7. ASSUME ~Finite(FiniteNorm(z[e])) PROVE ~Finite(a.norm)
    BY <2>1, <2>7 DEF LeftAt
  <2>8. a.iter = r.iter /\ a.escaped = r.escaped
    BY <1>1, <1>3, <2>2, <2>5
  <2> QED BY <2>3, <2>5, <2>6, <2>7, <2>8 DEF Matches
<1> QED BY <1>2, <1>3

-----------------------------------------------------------------------------
(* Requests and their pixels.                                              *)
LEMMA Requests ==
  ASSUME NEW j, IsRequest(j)
  PROVE  /\ j.variant \in Quadratic \cup Transcendental /\ j.turned \in {-1, 0, 1} /\ j.julia \in BOOLEAN
         /\ j.width \in Nat /\ j.height \in Nat /\ j.from \in Nat /\ j.to \in Nat /\ j.iters \in Nat
         /\ j.bail \in Nat /\ j.cap \in Nat
         /\ j.bail * j.bail \in Int /\ j.bail * j.bail <= Huge /\ j.bail * j.bail >= 0
         /\ j.plane = "ln" => j.width <= 4
         /\ j.from <= j.to /\ j.to <= j.width
         /\ j.centre.re \in Int /\ j.centre.im \in Int
         /\ j.jc.re \in Values /\ j.jc.im \in Values
<1>1. j.bail \in Nat
  BY DEF IsRequest
<1>2. j.bail * j.bail \in Int /\ j.bail * j.bail >= 0
  BY <1>1, Products
<1>3. \A a : Finite(a) => a \in Values
  BY Numbers DEF Values
<1> QED BY <1>1, <1>2, <1>3 DEF IsRequest

LEMMA Reach ==
  ASSUME NEW j, IsRequest(j), NEW d \in Int, NEW a \in {j.centre.re, j.centre.im},
         -(j.width + j.height + j.from + 4) <= d, d <= j.width + j.height + j.from + 4
  PROVE  a + d \in Values /\ a - d \in Values
<1>1. PICK reach : reach = j.width + j.height + j.from + LnRadius
  OBVIOUS
<1>2. a \in Int /\ -Huge <= a - reach /\ a + reach <= Huge
  BY <1>1 DEF IsRequest
<1>3. reach \in Int /\ -reach <= d /\ d <= reach
  BY <1>1, Requests DEF LnRadius
<1> QED BY <1>2, <1>3, Numbers DEF Values

IsPixel(p) == p.re \in Values /\ p.im \in Values

LEMMA LnPixelsAreValues ==
  ASSUME NEW j, IsRequest(j), j.plane = "ln", NEW x \in 0 .. j.width - 1, NEW y \in 0 .. j.height - 1
  PROVE  IsPixel(LnPixel(j, x, y))
<1>1. x \in {0, 1, 2, 3}
  BY Requests
<1>2. PICK r : r = LnRadius - (j.from + y)
  OBVIOUS
<1>3. r \in Int /\ -(j.width + j.height + j.from + 4) <= r /\ r <= j.width + j.height + j.from + 4
  BY <1>2, Requests DEF LnRadius
<1>4. LnPixel(j, x, y).re = j.centre.re + r * cos_col[x + 1] /\ LnPixel(j, x, y).im = j.centre.im + r * sin_col[x + 1]
  BY <1>2 DEF LnPixel, Point
<1>5. /\ r * 0 = 0 /\ r * 1 = r /\ r * (-1) = -r
      /\ j.centre.re + (-r) = j.centre.re - r /\ j.centre.im + (-r) = j.centre.im - r
      /\ j.centre.re + 0 = j.centre.re - 0 /\ j.centre.im + 0 = j.centre.im - 0
  BY <1>3, Requests
<1>6. j.centre.re + r \in Values /\ j.centre.re - r \in Values /\ j.centre.im + r \in Values /\ j.centre.im - r \in Values
  BY <1>3, Reach
<1>7. j.centre.re + 0 \in Values /\ j.centre.im + 0 \in Values
  BY Reach, Requests
<1>8. cos_col[x + 1] \in {-1, 0, 1} /\ sin_col[x + 1] \in {-1, 0, 1}
  BY <1>1 DEF cos_col, sin_col
<1>9. PICK a, b : a = cos_col[x + 1] /\ b = sin_col[x + 1]
  OBVIOUS
<1>10. j.centre.re + r * a \in Values
  <2>1. CASE a = 0
    BY <2>1, <1>5, <1>7
  <2>2. CASE a = 1
    BY <2>2, <1>5, <1>6
  <2>3. CASE a = -1
    BY <2>3, <1>5, <1>6
  <2> QED BY <1>8, <1>9, <2>1, <2>2, <2>3
<1>11. j.centre.im + r * b \in Values
  <2>1. CASE b = 0
    BY <2>1, <1>5, <1>7
  <2>2. CASE b = 1
    BY <2>2, <1>5, <1>6
  <2>3. CASE b = -1
    BY <2>3, <1>5, <1>6
  <2> QED BY <1>8, <1>9, <2>1, <2>2, <2>3
<1> QED BY <1>4, <1>9, <1>10, <1>11 DEF IsPixel

LEMMA MapPixelsAreValues ==
  ASSUME NEW j, IsRequest(j), j.plane # "ln", NEW x \in 0 .. j.width - 1, NEW y \in 0 .. j.height - 1
  PROVE  IsPixel(TruePixel(j, x, y))
<1>1. PICK dx : dx = 2 * x + 1 - j.width
  OBVIOUS
<1>2. PICK dy : dy = j.height - (2 * y + 1)
  OBVIOUS
<1>3. /\ dx \in Int /\ -(j.width + j.height + j.from + 4) <= dx /\ dx <= j.width + j.height + j.from + 4
      /\ dy \in Int /\ -(j.width + j.height + j.from + 4) <= dy /\ dy <= j.width + j.height + j.from + 4
  BY <1>1, <1>2, Requests
<1>4. /\ j.centre.re + dx \in Values /\ j.centre.im + dy \in Values
      /\ j.centre.re + dy \in Values /\ j.centre.re - dy \in Values
      /\ j.centre.im + dx \in Values /\ j.centre.im - dx \in Values
  BY <1>3, Reach
<1>5. /\ (j.turned = 0 => TruePixel(j, x, y) = Point(j.centre.re + dx, j.centre.im + dy))
      /\ (j.turned # 0 => TruePixel(j, x, y) = Point(j.centre.re - j.turned * dy, j.centre.im + j.turned * dx))
  BY <1>1, <1>2 DEF TruePixel
<1>6. CASE j.turned = 0
  BY <1>4, <1>5, <1>6 DEF IsPixel, Point
<1>7. CASE j.turned = 1
  <2>1. j.turned * dy = dy /\ j.turned * dx = dx
    BY <1>3, <1>7
  <2> QED BY <1>4, <1>5, <1>7, <2>1 DEF IsPixel, Point
<1>8. CASE j.turned = -1
  <2>1. j.centre.re - j.turned * dy = j.centre.re + dy /\ j.centre.im + j.turned * dx = j.centre.im - dx
    BY <1>3, <1>8, Requests
  <2> QED BY <1>4, <1>5, <1>8, <2>1 DEF IsPixel, Point
<1> QED BY <1>6, <1>7, <1>8, Requests

LEMMA PixelsAreValues ==
  ASSUME NEW j, IsRequest(j), NEW x \in 0 .. j.width - 1, NEW y \in 0 .. j.height - 1
  PROVE  IsPixel(TruePixel(j, x, y))
<1>1. j.plane = "ln" => TruePixel(j, x, y) = LnPixel(j, x, y)
  BY DEF TruePixel
<1> QED BY <1>1, LnPixelsAreValues, MapPixelsAreValues

(* Every pixel grid gives a column of a row the same point.                *)
LEMMA MapGridsAgree ==
  ASSUME NEW j, IsRequest(j), j.plane # "ln", NEW x \in Int, NEW y \in Int
  PROVE  RowPixel(j, x, y) = TruePixel(j, x, y) /\ CudaPixel(j, x, y) = TruePixel(j, x, y)
<1>1. PICK dx : dx = 2 * x + 1 - j.width
  OBVIOUS
<1>2. PICK dy : dy = -(2 * y + 1 - j.height)
  OBVIOUS
<1>3. dx \in Int /\ dy \in Int /\ j.centre.re \in Int /\ j.centre.im \in Int
      /\ dy = j.height - (2 * y + 1) /\ j.width \in Int /\ j.height \in Int
  BY <1>1, <1>2, Requests
<1>4. CASE j.turned = 0
  <2>1. sin_theta(j) = 0
    BY <1>4 DEF sin_theta
  <2>2. RowPixel(j, x, y) = Point((j.centre.re - j.width) + (2 * x + 1), (j.centre.im + j.height) - (2 * y + 1))
    BY <2>1 DEF RowPixel
  <2>3. CudaPixel(j, x, y) = Point((j.centre.re - j.width) + (2 * x + 1), (j.centre.im + j.height) - (2 * y + 1))
    BY <2>1 DEF CudaPixel
  <2>4. TruePixel(j, x, y) = Point(j.centre.re + dx, j.centre.im + dy)
    BY <1>1, <1>3, <1>4 DEF TruePixel
  <2>5. (j.centre.re - j.width) + (2 * x + 1) = j.centre.re + dx /\ (j.centre.im + j.height) - (2 * y + 1) = j.centre.im + dy
    BY <1>1, <1>2, <1>3
  <2> QED BY <2>2, <2>3, <2>4, <2>5
<1>5. CASE j.turned # 0
  <2>1. sin_theta(j) # 0 /\ sin_theta(j) = j.turned /\ cos_theta(j) = 0
    BY <1>5 DEF sin_theta, cos_theta
  <2>2. RowPixel(j, x, y) = Point(j.centre.re + dx * 0 - dy * j.turned, j.centre.im + dx * j.turned + dy * 0)
    BY <1>1, <1>2, <2>1 DEF RowPixel
  <2>3. CudaPixel(j, x, y) = Point(j.centre.re + dx * 0 - dy * j.turned, j.centre.im + dx * j.turned + dy * 0)
    BY <1>1, <1>2, <2>1 DEF CudaPixel
  <2>4. TruePixel(j, x, y) = Point(j.centre.re - j.turned * dy, j.centre.im + j.turned * dx)
    BY <1>1, <1>3, <1>5 DEF TruePixel
  <2>5. j.turned = 1 \/ j.turned = -1
    BY <1>5, Requests
  <2>6. /\ j.centre.re + dx * 0 - dy * j.turned = j.centre.re - j.turned * dy
        /\ j.centre.im + dx * j.turned + dy * 0 = j.centre.im + j.turned * dx
    <3>1. CASE j.turned = 1
      BY <1>3, <3>1
    <3>2. CASE j.turned = -1
      BY <1>3, <3>2
    <3> QED BY <2>5, <3>1, <3>2
  <2> QED BY <2>2, <2>3, <2>4, <2>6
<1> QED BY <1>4, <1>5

LEMMA LnGridsAgree ==
  ASSUME NEW j, IsRequest(j), j.plane = "ln", NEW x \in 0 .. j.width - 1,
         NEW y \in Nat, NEW start \in Nat, start <= y
  PROVE  CudaLnPixel(j, (y - start) * j.width + x, start) = TruePixel(j, x, y)
<1>1. j.width \in Nat \ {0}
  BY Requests
<1>2. PICK n : n = y - start
  OBVIOUS
<1>3. n \in Nat /\ start + n = y
  BY <1>2
<1>4. PICK m : m = n * j.width
  OBVIOUS
<1>5. m \in Int /\ j.width * n = m
  BY <1>1, <1>3, <1>4, Products
<1>6. PICK q : q = m + x
  OBVIOUS
<1>7. q \in Int /\ j.width * n <= q /\ q < j.width * n + j.width
  BY <1>1, <1>5, <1>6
<1>8. q \div j.width = n
  BY <1>1, <1>3, <1>7, QuotientIs
<1>9. q % j.width = x
  <2>1. PICK w : w = j.width
    OBVIOUS
  <2>2. q \in Int /\ w \in Nat \ {0} /\ n \in Int /\ w * n <= q /\ q < w * n + w
    BY <1>1, <1>3, <1>7, <2>1
  <2>3. q % w = q - w * n
    BY <2>2, RemainsIs, Zenon
  <2>4. q - w * n = x
    BY <1>5, <1>6, <2>1
  <2> QED BY <2>1, <2>3, <2>4, Zenon
<1>10. CudaLnPixel(j, q, start) = LnPixel(j, x, y)
  BY <1>3, <1>8, <1>9 DEF CudaLnPixel
<1>11. TruePixel(j, x, y) = LnPixel(j, x, y)
  BY DEF TruePixel
<1> QED BY <1>2, <1>4, <1>6, <1>10, <1>11

-----------------------------------------------------------------------------
(* The orbit of a pixel.                                                   *)
LEMMA OrbitPoints ==
  ASSUME NEW j, NEW p, j.iters \in Nat, NEW z, z = Orbit(j, p)
  PROVE  /\ z[0] = Cached(Start(j, p))
         /\ \A i \in 1 .. j.iters : z[i] = TrueStep(j, z[i - 1], Param(j, p)) /\ IsPoint(z[i])
<1>1. Runs(z, OrbitLoop(j, p), Cached(Start(j, p)), j.iters)
  BY OrbitRuns
<1>2. \A s : Turn(OrbitLoop(j, p), s) = TrueStep(j, s, Param(j, p))
  BY DEF Turn, OrbitLoop
<1>3. \A s, c : IsPoint(TrueStep(j, s, c))
  BY DEF TrueStep, QuadraticStep, TranscendentalStep, IsPoint
<1> QED BY <1>1, <1>2, <1>3 DEF Runs

LEMMA StartOfPixel ==
  ASSUME NEW j, IsRequest(j), NEW p, IsPixel(p)
  PROVE  /\ IsValuePoint(Cached(Start(j, p)))
         /\ Param(j, p).re \in Values /\ Param(j, p).im \in Values
<1>1. 0 \in Values
  BY Numbers DEF Values
<1>2. Start(j, p).re \in Values /\ Start(j, p).im \in Values
  BY <1>1 DEF Start, Point, IsPixel
<1>3. Cached(Start(j, p)) = Cached(Point(Start(j, p).re, Start(j, p).im))
  BY DEF Cached, Point
<1> QED BY <1>2, <1>3, Requests DEF IsValuePoint, Param, IsPixel

LEMMA OrbitValues ==
  ASSUME NEW j, IsRequest(j), j.variant \in Quadratic, NEW p, IsPixel(p), NEW z, z = Orbit(j, p)
  PROVE  \A i \in 0 .. j.iters : IsValuePoint(z[i])
<1> DEFINE T == {i \in 0 .. j.iters : IsValuePoint(z[i])}
<1>1. j.iters \in Nat
  BY Requests
<1>2. 0 \in T
  BY <1>1, OrbitPoints, StartOfPixel
<1>3. ASSUME NEW i \in 1 .. j.iters, i - 1 \in T PROVE i \in T
  <2>1. z[i] = QuadraticStep(variant_step[j.variant], z[i - 1], Param(j, p))
    BY <1>1, OrbitPoints DEF TrueStep
  <2>2. variant_step[j.variant] \in Folding
    BY TablesAreTyped DEF StepTables
  <2>3. IsValuePoint(z[i - 1])
    BY <1>3
  <2>4. IsValuePoint(z[i])
    BY <2>1, <2>2, <2>3, StartOfPixel, StepsAreValuePoints
  <2> QED BY <1>1, <2>4
<1>4. \A i \in 0 .. j.iters : i \in T
  <2> HIDE DEF T
  <2> QED BY <1>1, <1>2, <1>3, UpTo
<1> QED BY <1>4

-----------------------------------------------------------------------------
(* The scalar loops.  Both have the same shape: next is the next point and *)
(* out the loop's own test of it.                                          *)
ScalarBody(next, out, stop, s) ==
  IF s.escaped \/ s.cancelled THEN s
  ELSE IF Asked(stop, s.i) THEN [s EXCEPT !.cancelled = TRUE]
  ELSE [s EXCEPT !.i = s.i + 1, !.z = next,
                 !.min = IF FiniteNorm(next) < @ THEN FiniteNorm(next) ELSE @,
                 !.max = IF FiniteNorm(next) > @ THEN FiniteNorm(next) ELSE @,
                 !.escaped = out, !.iter = IF out THEN s.i ELSE @,
                 !.norm = IF out THEN FiniteNorm(next) ELSE @]

(* The loop after i iterations: it follows the orbit until it is cancelled,*)
(* and no probe before its last iteration had answered.                    *)
ScalarFields == {"i", "z", "iter", "norm", "min", "max", "escaped", "cancelled"}

Scalar(j, z, stop, i, s) ==
  /\ DOMAIN s = ScalarFields
  /\ s.cancelled \in BOOLEAN /\ s.i \in 0 .. i
  /\ \A n \in 0 .. s.i - 1 : ~Asked(stop, n)
  /\ s.cancelled => Asked(stop, s.i)
  /\ ~s.cancelled => Tracks(j, z, i, s) /\ (~s.escaped => s.i = i /\ s.z = z[i])

LEMMA ScalarStart ==
  ASSUME NEW j, NEW z, NEW stop
  PROVE  Scalar(j, z, stop, 0, make_iter_result(z[0]))
<1>1. PICK s : s = make_iter_result(z[0])
  OBVIOUS
<1>2. DOMAIN s = ScalarFields
  BY <1>1 DEF make_iter_result, ScalarFields
<1>3. /\ s.i = 0 /\ s.z = z[0] /\ s.norm = 0 /\ s.min = Inf /\ s.max = 0
      /\ s.escaped = FALSE /\ s.cancelled = FALSE
  BY <1>1 DEF make_iter_result
<1>4. 1 .. 0 = {} /\ 0 .. s.i - 1 = {}
  BY <1>3
<1>5. Tracks(j, z, 0, s)
  BY <1>3, <1>4 DEF Tracks, Quiet, IsLow, IsHigh, Norms
<1>6. s.i \in 0 .. 0 /\ \A n \in 0 .. s.i - 1 : ~Asked(stop, n)
  BY <1>3, <1>4
<1>7. s.cancelled \in BOOLEAN /\ ~s.cancelled
  BY <1>3, Zenon
<1> QED BY <1>1, <1>2, <1>3, <1>5, <1>6, <1>7, Zenon DEF Scalar

LEMMA ScalarTurn ==
  ASSUME NEW j, NEW z, NEW i \in Nat \ {0}, \A n \in 1 .. i : IsPoint(z[n]),
         NEW stop, NEW s, Scalar(j, z, stop, i - 1, s), NEW next, NEW out,
         s.z = z[i - 1] => next = z[i] /\ out = Escapes(j, z[i]),
         NEW t, t = ScalarBody(next, out, stop, s)
  PROVE  Scalar(j, z, stop, i, t)
<1>1. /\ DOMAIN s = ScalarFields
      /\ s.cancelled \in BOOLEAN /\ s.i \in 0 .. i - 1
      /\ \A n \in 0 .. s.i - 1 : ~Asked(stop, n)
      /\ s.cancelled => Asked(stop, s.i)
      /\ ~s.cancelled => Tracks(j, z, i - 1, s) /\ (~s.escaped => s.i = i - 1 /\ s.z = z[i - 1])
  BY DEF Scalar
<1>2. s.i \in 0 .. i
  BY <1>1
<1>6. CASE s.cancelled
  <2>1. t = s
    BY <1>6 DEF ScalarBody
  <2> QED BY <1>1, <1>2, <1>6, <2>1, Zenon DEF Scalar
<1>3. CASE ~s.cancelled /\ s.escaped
  <2>1. t = s
    BY <1>3 DEF ScalarBody
  <2>2. Follows(j, z, i, s, s)
    BY <1>3 DEF Follows
  <2>3. Tracks(j, z, i, s)
    BY <1>1, <1>3, <2>2, Tracking
  <2> QED BY <1>1, <1>2, <1>3, <2>1, <2>3, Zenon DEF Scalar
<1>4. CASE ~s.cancelled /\ ~s.escaped /\ Asked(stop, s.i)
  <2>1. t = [s EXCEPT !.cancelled = TRUE]
    BY <1>4 DEF ScalarBody
  <2>2. DOMAIN t = DOMAIN s /\ t.cancelled = TRUE /\ t.i = s.i
    BY <1>1, <2>1
  <2> QED BY <1>1, <1>2, <1>4, <2>2, Zenon DEF Scalar
<1>5. CASE ~s.cancelled /\ ~s.escaped /\ ~Asked(stop, s.i)
  <2>1. next = z[i] /\ out = Escapes(j, z[i]) /\ s.i = i - 1 /\ out \in BOOLEAN
    BY <1>1, <1>5 DEF Escapes
  <2>2. t = [s EXCEPT !.i = s.i + 1, !.z = next,
                 !.min = IF FiniteNorm(next) < @ THEN FiniteNorm(next) ELSE @,
                 !.max = IF FiniteNorm(next) > @ THEN FiniteNorm(next) ELSE @,
                 !.escaped = out, !.iter = IF out THEN s.i ELSE @,
                 !.norm = IF out THEN FiniteNorm(next) ELSE @]
    BY <1>5 DEF ScalarBody
  <2>3. DOMAIN t = DOMAIN s
    BY <2>2
  <2>4. /\ t.i = i /\ t.z = z[i] /\ t.escaped = out /\ t.cancelled = FALSE
        /\ t.min = (IF FiniteNorm(z[i]) < s.min THEN FiniteNorm(z[i]) ELSE s.min)
        /\ t.max = (IF FiniteNorm(z[i]) > s.max THEN FiniteNorm(z[i]) ELSE s.max)
        /\ out => t.iter = i - 1 /\ t.norm = FiniteNorm(z[i])
        /\ ~out => t.norm = s.norm
    <3>1. PICK lo, hi, iter, norm : /\ lo = (IF FiniteNorm(z[i]) < s.min THEN FiniteNorm(z[i]) ELSE s.min)
                          /\ hi = (IF FiniteNorm(z[i]) > s.max THEN FiniteNorm(z[i]) ELSE s.max)
                          /\ iter = (IF out THEN s.i ELSE s.iter)
                          /\ norm = (IF out THEN FiniteNorm(z[i]) ELSE s.norm)
      OBVIOUS
    <3>2. t = [s EXCEPT !.i = s.i + 1, !.z = next, !.min = lo, !.max = hi,
                        !.escaped = out, !.iter = iter, !.norm = norm]
      BY <2>1, <2>2, <3>1
    <3>3. /\ t.i = s.i + 1 /\ t.z = next /\ t.min = lo /\ t.max = hi /\ t.escaped = out
          /\ t.iter = iter /\ t.norm = norm /\ t.cancelled = s.cancelled
      BY <1>1, <3>2 DEF ScalarFields
    <3>4. s.i + 1 = i
      BY <2>1
    <3> QED BY <1>1, <1>5, <2>1, <3>1, <3>3, <3>4
  <2>5. s.norm = 0
    BY <1>1, <1>5 DEF Tracks
  <2>6. Follows(j, z, i, s, t)
    BY <1>5, <2>1, <2>4, <2>5 DEF Follows
  <2>7. Tracks(j, z, i, t)
    BY <1>1, <1>5, <2>6, Tracking
  <2>8. \A n \in 0 .. t.i - 1 : ~Asked(stop, n)
    BY <1>1, <1>5, <2>1, <2>4
  <2>9. t.i \in 0 .. i
    BY <2>4
  <2>10. t.cancelled \in BOOLEAN /\ ~t.cancelled
    BY <2>4, Zenon
  <2> QED BY <1>1, <2>3, <2>4, <2>7, <2>8, <2>9, <2>10, Zenon DEF Scalar
<1> QED BY <1>1, <1>6, <1>3, <1>4, <1>5

LEMMA BailoutIsComparable ==
  ASSUME NEW j, IsRequest(j), NEW n \in 0 .. Inf
  PROVE  Gt(n, j.bail * j.bail) <=> n > j.bail * j.bail
<1>1. PICK b : b = j.bail * j.bail
  OBVIOUS
<1>2. b \in Int /\ b <= Huge
  BY <1>1, Requests
<1> QED BY <1>1, <1>2, Numbers DEF Gt

LEMMA QuadraticOut ==
  ASSUME NEW j, IsRequest(j), j.variant \in Quadratic, NEW z, IsPoint(z)
  PROVE  (~(Finite(z.re) /\ Finite(z.im)) \/ Gt(FiniteNorm(z), j.bail * j.bail)) <=> Escapes(j, z)
<1>1. Gt(FiniteNorm(z), j.bail * j.bail) <=> FiniteNorm(z) > j.bail * j.bail
  BY NormOfPoint, BailoutIsComparable
<1> QED BY <1>1, Zenon DEF Escapes

LEMMA ScalarLoop ==
  ASSUME NEW j, IsRequest(j), NEW p, NEW z, z = Orbit(j, p), NEW stop, NEW s,
         s = IF j.variant \in Quadratic THEN iterate_quadratic(j, Start(j, p), Param(j, p), stop)
             ELSE iterate_transcendental(j, Start(j, p), Param(j, p), stop)
  PROVE  Scalar(j, z, stop, j.iters, s)
<1> DEFINE c == Param(j, p)
           k == IF j.variant \in Quadratic THEN QuadraticLoop(j, c, stop) ELSE TranscendentalLoop(j, c, stop)
<1>1. j.iters \in Nat
  BY Requests
<1>2. /\ z[0] = Cached(Start(j, p))
      /\ \A i \in 1 .. j.iters : z[i] = TrueStep(j, z[i - 1], c) /\ IsPoint(z[i])
  BY <1>1, OrbitPoints
<1>3. PICK g : Runs(g, k, make_iter_result(z[0]), j.iters) /\ s = g[j.iters]
  BY <1>1, <1>2, QuadraticRuns, TranscendentalRuns
<1>4. g[0] = make_iter_result(z[0]) /\ \A i \in 1 .. j.iters : g[i] = Turn(k, g[i - 1])
  BY <1>3 DEF Runs
<1>5. ASSUME NEW t, NEW i \in 1 .. j.iters
      PROVE  \E next, out : /\ Turn(k, t) = ScalarBody(next, out, stop, t)
                            /\ t.z = z[i - 1] => next = z[i] /\ out = Escapes(j, z[i])
  <2>1. CASE j.variant \in Quadratic
    <3> DEFINE next == QuadraticStep(step_cached[j.variant], t.z, c)
               out == ~(Finite(next.re) /\ Finite(next.im)) \/ Gt(FiniteNorm(next), j.bail * j.bail)
    <3>1. Turn(k, t) = QuadraticBody(j.variant, c, j.bail * j.bail, stop, t)
      BY <2>1 DEF Turn, QuadraticLoop
    <3>2. QuadraticBody(j.variant, c, j.bail * j.bail, stop, t) = ScalarBody(next, out, stop, t)
      BY DEF QuadraticBody, ScalarBody
    <3>3. ASSUME t.z = z[i - 1] PROVE next = z[i] /\ out = Escapes(j, z[i])
      <4>1. next = z[i]
        BY <1>2, <2>1, <3>3, StepCachedAgrees DEF TrueStep
      <4>2. IsPoint(z[i])
        BY <1>2
      <4> HIDE DEF next
      <4>3. out <=> Escapes(j, z[i])
        BY <2>1, <4>1, <4>2, QuadraticOut
      <4>4. out \in BOOLEAN /\ Escapes(j, z[i]) \in BOOLEAN
        BY DEF Escapes
      <4> HIDE DEF out
      <4> QED BY <4>1, <4>3, <4>4
    <3> HIDE DEF next, out
    <3> QED BY <3>1, <3>2, <3>3
  <2>2. CASE j.variant \notin Quadratic
    <3> DEFINE next == TranscendentalStep(j.variant, t.z, c)
               out == \/ ~(Finite(next.re) /\ Finite(next.im))
                      \/ Magnitude(next.re) >= j.bail \/ Magnitude(next.im) >= j.bail
    <3>1. Turn(k, t) = TranscendentalBody(j.variant, c, j.bail, stop, t)
      BY <2>2 DEF Turn, TranscendentalLoop
    <3>2. TranscendentalBody(j.variant, c, j.bail, stop, t) = ScalarBody(next, out, stop, t)
      BY DEF TranscendentalBody, ScalarBody
    <3>3. ASSUME t.z = z[i - 1] PROVE next = z[i] /\ out = Escapes(j, z[i])
      <4>1. next = z[i]
        BY <1>2, <2>2, <3>3 DEF TrueStep
      <4> HIDE DEF next
      <4>3. out <=> Escapes(j, z[i])
        BY <2>2, <4>1, Zenon DEF Escapes
      <4>4. out \in BOOLEAN /\ Escapes(j, z[i]) \in BOOLEAN
        BY DEF Escapes
      <4> HIDE DEF out
      <4> QED BY <4>1, <4>3, <4>4
    <3> HIDE DEF next, out
    <3> QED BY <3>1, <3>2, <3>3
  <2> QED BY <2>1, <2>2
<1> DEFINE T == {i \in 0 .. j.iters : Scalar(j, z, stop, i, g[i])}
<1>6. 0 \in T
  BY <1>1, <1>4, ScalarStart
<1>7. ASSUME NEW i \in 1 .. j.iters, i - 1 \in T PROVE i \in T
  <2>1. PICK next, out : /\ Turn(k, g[i - 1]) = ScalarBody(next, out, stop, g[i - 1])
                         /\ g[i - 1].z = z[i - 1] => next = z[i] /\ out = Escapes(j, z[i])
    BY <1>5
  <2>2. Scalar(j, z, stop, i - 1, g[i - 1]) /\ i \in Nat \ {0} /\ \A n \in 1 .. i : IsPoint(z[n])
    BY <1>1, <1>2, <1>7
  <2>3. g[i] = ScalarBody(next, out, stop, g[i - 1])
    BY <1>4, <2>1
  <2>4. Scalar(j, z, stop, i, g[i])
    BY <2>1, <2>2, <2>3, ScalarTurn
  <2> QED BY <1>1, <2>4
<1>8. \A i \in 0 .. j.iters : i \in T
  <2> HIDE DEF T
  <2> QED BY <1>1, <1>6, <1>7, UpTo
<1> QED BY <1>1, <1>3, <1>8

LEMMA ScalarAnswer ==
  ASSUME NEW j, IsRequest(j), NEW x, NEW y, NEW p, p = TruePixel(j, x, y), NEW stop, NEW s,
         s = IF j.variant \in Quadratic THEN iterate_quadratic(j, Start(j, p), Param(j, p), stop)
             ELSE iterate_transcendental(j, Start(j, p), Param(j, p), stop),
         ~s.cancelled
  PROVE  Matches(Answer(s, j.iters), Reference(j, x, y))
<1>1. PICK z : z = Orbit(j, p)
  OBVIOUS
<1>2. j.iters \in Nat
  BY Requests
<1>3. \A i \in 1 .. j.iters : IsPoint(z[i])
  BY <1>1, <1>2, OrbitPoints
<1>4. Tracks(j, z, j.iters, s)
  <2>1. Scalar(j, z, stop, j.iters, s)
    BY <1>1, ScalarLoop
  <2> QED BY <2>1, Zenon DEF Scalar
<1>5. PICK a : a = Answer(s, j.iters)
  OBVIOUS
<1>6. /\ a.escaped = s.escaped /\ a.iter = (IF s.escaped THEN s.iter ELSE j.iters)
      /\ a.norm = s.norm /\ a.min = s.min /\ a.max = s.max
  BY <1>5 DEF Answer
<1> QED BY <1>1, <1>2, <1>3, <1>4, <1>5, <1>6, TrackedAnswer

LEMMA MaskedMatches ==
  ASSUME NEW j, IsRequest(j), NEW x, NEW y, NEW p, p = TruePixel(j, x, y)
  PROVE  Matches(iterate_masked(j, Start(j, p), Param(j, p)), Reference(j, x, y))
<1>1. PICK s : s = IF j.variant \in Quadratic THEN iterate_quadratic(j, Start(j, p), Param(j, p), Never)
                   ELSE iterate_transcendental(j, Start(j, p), Param(j, p), Never)
  OBVIOUS
<1>2. Scalar(j, Orbit(j, p), Never, j.iters, s)
  BY <1>1, ScalarLoop
<1>3. ~s.cancelled
  BY <1>2, Zenon DEF Scalar, Asked
<1>4. iterate_masked(j, Start(j, p), Param(j, p)) = Answer(s, j.iters)
  BY <1>1 DEF iterate_masked
<1> QED BY <1>1, <1>3, <1>4, ScalarAnswer

-----------------------------------------------------------------------------
(* A GPU thread.                                                           *)
ThreadFields == {"i", "z", "min", "max", "norm", "escaped"}
ThreadView(s) == [escaped |-> s.escaped, iter |-> s.i, norm |-> s.norm, min |-> s.min, max |-> s.max]

InThread(j, z, i, s) ==
  /\ DOMAIN s = ThreadFields
  /\ Tracks(j, z, i, ThreadView(s))
  /\ ~s.escaped => s.i = i /\ s.z = z[i]

LEMMA ThreadTurn ==
  ASSUME NEW j, IsRequest(j), j.variant \in Quadratic, NEW folds \in StepTables, NEW c,
         NEW z, NEW i \in Nat \ {0}, \A n \in 1 .. i : IsPoint(z[n]), IsValuePoint(z[i - 1]),
         z[i] = QuadraticStep(variant_step[j.variant], z[i - 1], c),
         NEW s, InThread(j, z, i - 1, s), NEW t, t = ThreadBody(folds, j, c, s)
  PROVE  InThread(j, z, i, t)
<1>1. /\ DOMAIN s = ThreadFields /\ Tracks(j, z, i - 1, ThreadView(s))
      /\ ~s.escaped => s.i = i - 1 /\ s.z = z[i - 1]
  BY DEF InThread
<1>2. CASE s.escaped
  <2>1. t = s
    BY <1>2 DEF ThreadBody
  <2>2. Follows(j, z, i, ThreadView(s), ThreadView(s))
    BY <1>2 DEF Follows, ThreadView
  <2>3. Tracks(j, z, i, ThreadView(s))
    BY <1>1, <2>2, Tracking
  <2> QED BY <1>1, <1>2, <2>1, <2>3 DEF InThread
<1>3. CASE ~s.escaped
  <2>1. PICK m : m = FiniteNorm(z[i])
    OBVIOUS
  <2>2. PICK out : out = Escapes(j, z[i])
    OBVIOUS
  <2>3. QuadraticStep(folds[j.variant + 1], s.z, c) = z[i]
    <3>1. PICK a : a = z[i - 1]
      OBVIOUS
    <3>2. IsValuePoint(a) /\ s.z = a
      BY <1>1, <1>3, <3>1
    <3>3. QuadraticStep(folds[j.variant + 1], a, c) = QuadraticStep(variant_step[j.variant], a, c)
      BY <3>2, TablesAgree, SMTT(30)
    <3> QED BY <3>1, <3>2, <3>3
  <2>4. i \in 1 .. i /\ IsPoint(z[i])
    OBVIOUS
  <2>5. m \in 0 .. Inf /\ out \in BOOLEAN
    BY <2>1, <2>2, <2>4, NormOfPoint DEF Escapes
  <2>6. (~(Finite(z[i].re) /\ Finite(z[i].im)) \/ Gt(m, j.bail * j.bail)) = out
    <3>1. (~(Finite(z[i].re) /\ Finite(z[i].im)) \/ Gt(m, j.bail * j.bail)) <=> Escapes(j, z[i])
      BY <2>1, <2>4, QuadraticOut
    <3> QED BY <2>2, <2>5, <3>1
  <2>7. t = [s EXCEPT !.min = IF Gt(@, m) THEN m ELSE @, !.max = IF Gt(m, @) THEN m ELSE @,
                      !.norm = IF out THEN m ELSE @, !.escaped = out,
                      !.i = IF out THEN @ ELSE @ + 1, !.z = IF out THEN @ ELSE z[i]]
    BY <1>3, <2>1, <2>3, <2>6 DEF ThreadBody
  <2>8. PICK lo, hi, norm, n, at : /\ lo = (IF Gt(s.min, m) THEN m ELSE s.min)
                                   /\ hi = (IF Gt(m, s.max) THEN m ELSE s.max)
                                   /\ norm = (IF out THEN m ELSE s.norm)
                                   /\ n = (IF out THEN s.i ELSE s.i + 1) /\ at = (IF out THEN s.z ELSE z[i])
    OBVIOUS
  <2>9. t = [s EXCEPT !.min = lo, !.max = hi, !.norm = norm, !.escaped = out, !.i = n, !.z = at]
    BY <2>7, <2>8
  <2>10. /\ DOMAIN t = ThreadFields
         /\ t.min = lo /\ t.max = hi /\ t.norm = norm /\ t.escaped = out /\ t.i = n /\ t.z = at
    BY <1>1, <2>9 DEF ThreadFields
  <2>11. IsLow(z, i - 1, s.min) /\ IsHigh(z, i - 1, s.max) /\ s.norm = 0
    BY <1>1, <1>3 DEF Tracks, ThreadView
  <2>12. s.min \in 0 .. Inf /\ s.max \in 0 .. Inf
    <3>1. \A q \in 1 .. i - 1 : FiniteNorm(z[q]) \in 0 .. Inf
      BY NormOfPoint
    <3> QED BY <2>11, <3>1, Numbers DEF IsLow, IsHigh, Norms
  <2>13. lo = (IF m < s.min THEN m ELSE s.min) /\ hi = (IF m > s.max THEN m ELSE s.max)
    BY <2>5, <2>8, <2>12, Numbers DEF Gt
  <2>14. Follows(j, z, i, ThreadView(s), ThreadView(t))
    <3>1. PICK v, w : v = ThreadView(s) /\ w = ThreadView(t)
      OBVIOUS
    <3>2. /\ ~v.escaped /\ v.min = s.min /\ v.max = s.max
          /\ w.escaped = out /\ w.iter = n /\ w.norm = norm /\ w.min = lo /\ w.max = hi
      BY <1>3, <2>10, <3>1 DEF ThreadView
    <3>3. (out => n = i - 1 /\ norm = m) /\ (~out => norm = 0)
      BY <1>1, <1>3, <2>8, <2>11
    <3> QED BY <2>1, <2>2, <2>13, <3>1, <3>2, <3>3 DEF Follows
  <2>15. Tracks(j, z, i, ThreadView(t))
    BY <1>1, <2>14, Tracking
  <2>16. ~t.escaped => t.i = i /\ t.z = z[i]
    BY <1>1, <1>3, <2>8, <2>10
  <2> QED BY <2>10, <2>15, <2>16, Zenon DEF InThread
<1> QED BY <1>2, <1>3

LEMMA ThreadMatches ==
  ASSUME NEW j, IsRequest(j), j.variant \in Quadratic, NEW folds \in StepTables,
         NEW x, NEW y, NEW p, p = TruePixel(j, x, y), IsPixel(p)
  PROVE  Matches(Thread(folds, j, p), Reference(j, x, y))
<1> DEFINE c == Param(j, p)
<1>1. j.iters \in Nat
  BY Requests
<1>2. PICK z : z = Orbit(j, p)
  OBVIOUS
<1>3. /\ z[0] = Cached(Start(j, p))
      /\ \A i \in 1 .. j.iters : z[i] = TrueStep(j, z[i - 1], c) /\ IsPoint(z[i])
  BY <1>1, <1>2, OrbitPoints
<1>4. \A i \in 0 .. j.iters : IsValuePoint(z[i])
  BY <1>2, OrbitValues
<1>5. PICK g : /\ Runs(g, ThreadLoop(folds, j, c), ThreadStart(j, p), j.iters)
               /\ Thread(folds, j, p) = ThreadAnswer(g[j.iters])
  BY <1>1, ThreadRuns
<1>6. \A s : Turn(ThreadLoop(folds, j, c), s) = ThreadBody(folds, j, c, s)
  BY DEF Turn, ThreadLoop
<1>7. g[0] = ThreadStart(j, p) /\ \A i \in 1 .. j.iters : g[i] = ThreadBody(folds, j, c, g[i - 1])
  BY <1>5, <1>6 DEF Runs
<1> HIDE DEF c
<1> DEFINE T == {i \in 0 .. j.iters : InThread(j, z, i, g[i])}
<1>8. 0 \in T
  <2>1. PICK s : s = g[0]
    OBVIOUS
  <2>2. DOMAIN s = ThreadFields
    BY <1>7, <2>1 DEF ThreadStart, ThreadFields
  <2>3. s.i = 0 /\ s.z = z[0] /\ s.min = Inf /\ s.max = 0 /\ s.norm = 0 /\ s.escaped = FALSE
    BY <1>3, <1>7, <2>1 DEF ThreadStart
  <2>4. Tracks(j, z, 0, ThreadView(s))
    <3>1. PICK v : v = ThreadView(s)
      OBVIOUS
    <3>2. v.escaped = FALSE /\ v.norm = 0 /\ v.min = Inf /\ v.max = 0
      BY <2>3, <3>1 DEF ThreadView
    <3>3. 1 .. 0 = {}
      OBVIOUS
    <3>4. Quiet(j, z, 0) /\ IsLow(z, 0, Inf) /\ IsHigh(z, 0, 0)
      BY <3>3 DEF Quiet, IsLow, IsHigh, Norms
    <3> QED BY <3>1, <3>2, <3>4, Zenon DEF Tracks
  <2>5. InThread(j, z, 0, s)
    BY <2>2, <2>3, <2>4 DEF InThread
  <2> QED BY <1>1, <2>1, <2>5
<1>9. ASSUME NEW i \in 1 .. j.iters, i - 1 \in T PROVE i \in T
  <2>1. InThread(j, z, i - 1, g[i - 1]) /\ i \in Nat \ {0} /\ (\A n \in 1 .. i : IsPoint(z[n]))
        /\ IsValuePoint(z[i - 1])
    BY <1>1, <1>3, <1>4, <1>9
  <2>2. z[i] = QuadraticStep(variant_step[j.variant], z[i - 1], c) /\ g[i] = ThreadBody(folds, j, c, g[i - 1])
    BY <1>3, <1>7 DEF TrueStep
  <2>3. InThread(j, z, i, g[i])
    BY <2>1, <2>2, ThreadTurn
  <2> QED BY <1>1, <2>3
<1>10. \A i \in 0 .. j.iters : i \in T
  <2> HIDE DEF T
  <2> QED BY <1>1, <1>8, <1>9, UpTo
<1>11. PICK s : s = g[j.iters]
  OBVIOUS
<1>12. Tracks(j, z, j.iters, ThreadView(s)) /\ (~s.escaped => s.i = j.iters)
  BY <1>1, <1>10, <1>11 DEF InThread
<1>13. PICK v, a : v = ThreadView(s) /\ a = ThreadAnswer(s)
  OBVIOUS
<1>14. /\ a.escaped = v.escaped /\ a.iter = (IF v.escaped THEN v.iter ELSE j.iters)
       /\ a.norm = v.norm /\ a.min = v.min /\ a.max = v.max
  BY <1>12, <1>13 DEF ThreadView, ThreadAnswer
<1>15. \A n \in 1 .. j.iters : IsPoint(z[n])
  BY <1>3
<1> QED BY <1>1, <1>2, <1>5, <1>11, <1>12, <1>13, <1>14, <1>15, TrackedAnswer

-----------------------------------------------------------------------------
(* A lane of a vector loop, with the orbit z of its pixel.                 *)
LaneFields == {"i", "z", "c", "min", "max", "iter", "norm", "active"}
LaneView(g, l) == [escaped |-> l \notin g.active, iter |-> g.iter[l], norm |-> g.norm[l],
                   min |-> g.min[l], max |-> g.max[l]]

IsGroup(L, g) ==
  /\ DOMAIN g = LaneFields /\ g.active \subseteq L
  /\ DOMAIN g.z = L /\ DOMAIN g.c = L /\ DOMAIN g.min = L /\ DOMAIN g.max = L
  /\ DOMAIN g.iter = L /\ DOMAIN g.norm = L

InLane(j, z, c, L, l, i, g) ==
  /\ IsGroup(L, g) /\ g.c[l] = c
  /\ g.active # {} => g.i = i
  /\ Tracks(j, z, i, LaneView(g, l))
  /\ l \in g.active => g.z[l] = z[i]

(* The test of a lane is the test of the scalar loop.                      *)
LEMMA LaneOut ==
  ASSUME NEW j, IsRequest(j), j.variant \in Quadratic, NEW z, IsValuePoint(z), NEW n, n = Add(z.re2, z.im2)
  PROVE  (Gt(n, j.bail * j.bail) \/ n = NaN) <=> Escapes(j, z)
<1>1. PICK b : b = j.bail * j.bail
  OBVIOUS
<1>2. b \in Int /\ b <= Huge
  BY <1>1, Requests
<1>3. CASE Finite(z.re) /\ Finite(z.im)
  <2>1. n = FiniteNorm(z) /\ n \in 0 .. Inf
    BY <1>3, NormOfLane
  <2>2. Gt(n, b) <=> FiniteNorm(z) > b
    BY <1>1, <2>1, BailoutIsComparable
  <2>3. n # NaN
    BY <2>1, Numbers
  <2> QED BY <1>1, <1>3, <2>2, <2>3, Zenon DEF Escapes
<1>4. CASE ~(Finite(z.re) /\ Finite(z.im))
  <2>1. n \in {Inf, NaN}
    BY <1>4, NormOfLane
  <2>2. Gt(n, b) \/ n = NaN
    BY <1>2, <2>1, Numbers DEF Gt
  <2> QED BY <1>1, <1>4, <2>2, Zenon DEF Escapes
<1> QED BY <1>3, <1>4

(* The parts of a step of a group.                                         *)
NewPoints(k, j, g) == [l \in DOMAIN g.z |-> QuadraticStep(k.folds[j.variant + 1], g.z[l], g.c[l])]
NewNorms(new, g) == [l \in DOMAIN g.z |-> Add(new[l].re2, new[l].im2)]
Leaving(j, n2, g) == {l \in g.active : Gt(n2[l], j.bail * j.bail) \/ n2[l] = NaN}

LEMMA LanesStepIs ==
  ASSUME NEW k, NEW j, NEW L, NEW g, IsGroup(L, g), g.active # {}, NEW h, h = LanesStep(k, j, g),
         NEW new, new = NewPoints(k, j, g), NEW n2, n2 = NewNorms(new, g), NEW out, out = Leaving(j, n2, g),
         NEW moving, moving = (IF k.moves = "before" THEN g.active ELSE g.active \ out),
         NEW count, count = [l \in DOMAIN g.iter |-> g.i]
  PROVE  /\ DOMAIN h = LaneFields
         /\ h.i = g.i + 1 /\ h.c = g.c /\ h.active = g.active \ out
         /\ h.min = Blend(g.active, g.min, VMin(g.min, n2)) /\ h.max = Blend(g.active, g.max, VMax(g.max, n2))
         /\ h.iter = Blend(out, g.iter, count) /\ h.norm = Blend(out, g.norm, n2) /\ h.z = Blend(moving, g.z, new)
<1>1. h = [g EXCEPT !.i = g.i + 1,
                    !.min = Blend(g.active, @, VMin(@, n2)),
                    !.max = Blend(g.active, @, VMax(@, n2)),
                    !.iter = Blend(out, @, [l \in DOMAIN @ |-> g.i]),
                    !.norm = Blend(out, @, n2),
                    !.z = Blend(IF k.moves = "before" THEN g.active ELSE g.active \ out, @, new),
                    !.active = @ \ out]
  <2>1. h = LET a == NewPoints(k, j, g)
                b == NewNorms(a, g)
                o == Leaving(j, b, g)
            IN [g EXCEPT !.i = g.i + 1,
                    !.min = Blend(g.active, @, VMin(@, b)),
                    !.max = Blend(g.active, @, VMax(@, b)),
                    !.iter = Blend(o, @, [l \in DOMAIN @ |-> g.i]),
                    !.norm = Blend(o, @, b),
                    !.z = Blend(IF k.moves = "before" THEN g.active ELSE g.active \ o, @, a),
                    !.active = @ \ o]
    BY DEF LanesStep, NewPoints, NewNorms, Leaving
  <2> QED BY <2>1, ZenonT(40)
<1>2. PICK lo, hi, iter, norm, z, active :
        /\ lo = Blend(g.active, g.min, VMin(g.min, n2)) /\ hi = Blend(g.active, g.max, VMax(g.max, n2))
        /\ iter = Blend(out, g.iter, [l \in DOMAIN g.iter |-> g.i]) /\ norm = Blend(out, g.norm, n2)
        /\ z = Blend(IF k.moves = "before" THEN g.active ELSE g.active \ out, g.z, new)
        /\ active = g.active \ out
  OBVIOUS
<1>3. h = [g EXCEPT !.i = g.i + 1, !.min = lo, !.max = hi, !.iter = iter, !.norm = norm, !.z = z, !.active = active]
  BY <1>1, <1>2
<1>4. /\ DOMAIN h = LaneFields /\ h.i = g.i + 1 /\ h.c = g.c /\ h.active = active
      /\ h.min = lo /\ h.max = hi /\ h.iter = iter /\ h.norm = norm /\ h.z = z
  BY <1>3 DEF IsGroup, LaneFields
<1>5. iter = Blend(out, g.iter, count) /\ z = Blend(moving, g.z, new)
  BY <1>2, Zenon
<1> QED BY <1>2, <1>4, <1>5, Zenon

LEMMA BlendIs ==
  ASSUME NEW mask, NEW old, NEW new, NEW l \in DOMAIN old
  PROVE  /\ DOMAIN Blend(mask, old, new) = DOMAIN old
         /\ l \in mask => Blend(mask, old, new)[l] = new[l]
         /\ l \notin mask => Blend(mask, old, new)[l] = old[l]
  BY DEF Blend

LEMMA LaneTurn ==
  ASSUME NEW j, IsRequest(j), j.variant \in Quadratic, NEW k, k.folds \in StepTables, NEW c,
         NEW z, NEW i \in Nat \ {0}, \A n \in 1 .. i : IsPoint(z[n]), IsValuePoint(z[i - 1]), IsValuePoint(z[i]),
         z[i] = QuadraticStep(variant_step[j.variant], z[i - 1], c), NEW L, NEW l \in L,
         NEW g, InLane(j, z, c, L, l, i - 1, g), NEW h, h = LanesStep(k, j, g)
  PROVE  InLane(j, z, c, L, l, i, h)
<1>1. /\ IsGroup(L, g) /\ g.c[l] = c /\ (g.active # {} => g.i = i - 1)
      /\ Tracks(j, z, i - 1, LaneView(g, l)) /\ (l \in g.active => g.z[l] = z[i - 1])
  BY DEF InLane
<1>2. CASE g.active = {}
  <2>1. h = g
    BY <1>2 DEF LanesStep
  <2>2. Follows(j, z, i, LaneView(g, l), LaneView(g, l))
    BY <1>2 DEF Follows, LaneView
  <2>3. Tracks(j, z, i, LaneView(g, l))
    BY <1>1, <2>2, Tracking
  <2> QED BY <1>1, <1>2, <2>1, <2>3 DEF InLane
<1>3. CASE g.active # {}
  <2>1. PICK new : new = NewPoints(k, j, g)
    OBVIOUS
  <2>2. PICK n2 : n2 = NewNorms(new, g)
    OBVIOUS
  <2>3. PICK out : out = Leaving(j, n2, g)
    OBVIOUS
  <2>4. PICK moving : moving = IF k.moves = "before" THEN g.active ELSE g.active \ out
    OBVIOUS
  <2>14. PICK count : count = [q \in DOMAIN g.iter |-> g.i]
    OBVIOUS
  <2>5. /\ DOMAIN h = LaneFields
        /\ h.i = g.i + 1 /\ h.c = g.c /\ h.active = g.active \ out
        /\ h.min = Blend(g.active, g.min, VMin(g.min, n2)) /\ h.max = Blend(g.active, g.max, VMax(g.max, n2))
        /\ h.iter = Blend(out, g.iter, count) /\ h.norm = Blend(out, g.norm, n2)
        /\ h.z = Blend(moving, g.z, new)
    BY <1>1, <1>3, <2>1, <2>2, <2>3, <2>4, <2>14, LanesStepIs
  <2>6. /\ g.active \subseteq L /\ DOMAIN g.z = L /\ DOMAIN g.c = L /\ DOMAIN g.min = L
        /\ DOMAIN g.max = L /\ DOMAIN g.iter = L /\ DOMAIN g.norm = L
    BY <1>1 DEF IsGroup
  <2>7. out \subseteq g.active
    BY <2>3 DEF Leaving
  <2>8. IsGroup(L, h)
    <3>1. DOMAIN h.z = L /\ DOMAIN h.min = L /\ DOMAIN h.max = L /\ DOMAIN h.iter = L /\ DOMAIN h.norm = L
      BY <2>5, <2>6 DEF Blend
    <3> QED BY <2>5, <2>6, <3>1 DEF IsGroup
  <2>9. h.i = i
    BY <1>1, <1>3, <2>5
  <2>10. PICK v, w : v = LaneView(g, l) /\ w = LaneView(h, l)
    OBVIOUS
  <2>11. /\ v.escaped = (l \notin g.active) /\ v.iter = g.iter[l] /\ v.norm = g.norm[l]
         /\ v.min = g.min[l] /\ v.max = g.max[l]
         /\ w.escaped = (l \notin h.active) /\ w.iter = h.iter[l] /\ w.norm = h.norm[l]
         /\ w.min = h.min[l] /\ w.max = h.max[l]
    BY <2>10 DEF LaneView
  <2>12. CASE l \notin g.active
    <3>1. l \notin h.active /\ l \notin out /\ l \notin moving
      BY <2>4, <2>5, <2>7, <2>12
    <3>2. h.min[l] = g.min[l] /\ h.max[l] = g.max[l] /\ h.iter[l] = g.iter[l] /\ h.norm[l] = g.norm[l]
      BY <2>5, <2>6, <2>12, <3>1, BlendIs
    <3>3. LaneView(h, l) = LaneView(g, l)
      BY <2>12, <3>1, <3>2 DEF LaneView
    <3>4. Follows(j, z, i, v, w)
      BY <2>10, <2>11, <2>12, <3>3 DEF Follows
    <3>5. Tracks(j, z, i, LaneView(h, l))
      BY <1>1, <2>10, <3>4, Tracking
    <3> QED BY <1>1, <2>5, <2>8, <2>9, <3>1, <3>5 DEF InLane
  <2>13. CASE l \in g.active
    <3>1. new[l] = z[i]
      <4>1. PICK a : a = z[i - 1]
        OBVIOUS
      <4>2. IsValuePoint(a) /\ g.z[l] = a
        BY <1>1, <2>13, <4>1
      <4>3. QuadraticStep(k.folds[j.variant + 1], a, c) = QuadraticStep(variant_step[j.variant], a, c)
        BY <4>2, TablesAgree, ZenonT(40)
      <4>4. new[l] = QuadraticStep(k.folds[j.variant + 1], g.z[l], g.c[l])
        BY <2>1, <2>6 DEF NewPoints
      <4> QED BY <1>1, <4>1, <4>2, <4>3, <4>4
    <3>2. PICK m, n : m = FiniteNorm(z[i]) /\ n = n2[l]
      OBVIOUS
    <3>3. n = Add(z[i].re2, z[i].im2)
      BY <2>2, <2>6, <3>1, <3>2 DEF NewNorms
    <3>4. l \in out <=> Escapes(j, z[i])
      <4>1. l \in out <=> (Gt(n, j.bail * j.bail) \/ n = NaN)
        BY <2>3, <2>13, <3>2 DEF Leaving
      <4> QED BY <3>3, <4>1, LaneOut
    <3>5. m \in 0 .. Inf
      BY <3>2, NormOfPoint
    <3>6. (Finite(z[i].re) /\ Finite(z[i].im) /\ n = m) \/ (n \in {Inf, NaN} /\ m = Inf /\ Escapes(j, z[i]))
      BY <3>2, <3>3, NormOfLane DEF Escapes
    <3>7. ~v.escaped /\ v.norm = 0 /\ IsLow(z, i - 1, v.min) /\ IsHigh(z, i - 1, v.max)
      BY <1>1, <2>10, <2>11, <2>13 DEF Tracks
    <3>8. v.min \in 0 .. Inf /\ v.max \in 0 .. Inf
      <4>1. \A q \in 1 .. i - 1 : FiniteNorm(z[q]) \in 0 .. Inf
        BY NormOfPoint
      <4> QED BY <3>7, <4>1, Numbers DEF IsLow, IsHigh, Norms
    <3>9. /\ w.min = (IF Gt(n, v.min) THEN v.min ELSE n) /\ w.max = (IF Gt(v.max, n) THEN v.max ELSE n)
      <4>1. w.min = VMin(g.min, n2)[l] /\ w.max = VMax(g.max, n2)[l]
        BY <2>5, <2>6, <2>11, <2>13, BlendIs
      <4> QED BY <2>6, <2>11, <3>2, <4>1 DEF VMin, VMax
    <3>10. w.escaped = Escapes(j, z[i])
      <4>1. w.escaped <=> Escapes(j, z[i])
        BY <2>5, <2>11, <2>13, <3>4
      <4>2. w.escaped \in BOOLEAN /\ Escapes(j, z[i]) \in BOOLEAN
        BY <2>11 DEF Escapes
      <4> QED BY <4>1, <4>2
    <3>11. (l \in out => w.iter = i - 1 /\ w.norm = n) /\ (l \notin out => w.norm = 0)
      <4>1. l \in out => h.iter[l] = count[l] /\ h.norm[l] = n2[l]
        BY <2>5, <2>6, BlendIs
      <4>2. l \notin out => h.norm[l] = g.norm[l]
        BY <2>5, <2>6, BlendIs
      <4> QED BY <1>1, <1>3, <2>6, <2>11, <2>14, <3>2, <3>7, <4>1, <4>2
    <3>12. Finite(m) \/ ~Escapes(j, z[i]) =>
             /\ n = m /\ w.min = (IF m < v.min THEN m ELSE v.min) /\ w.max = (IF m > v.max THEN m ELSE v.max)
      <4>1. Finite(m) \/ ~Escapes(j, z[i]) => n = m
        BY <3>6, Numbers
      <4>2. n = m => w.min = (IF m < v.min THEN m ELSE v.min) /\ w.max = (IF m > v.max THEN m ELSE v.max)
        BY <3>5, <3>8, <3>9, Numbers DEF Gt
      <4> QED BY <4>1, <4>2
    <3>13. ~Finite(m) => ~Finite(n)
      BY <3>6, Numbers
    <3>14. Follows(j, z, i, v, w)
      BY <3>2, <3>4, <3>7, <3>10, <3>11, <3>12, <3>13 DEF Follows
    <3>15. Tracks(j, z, i, LaneView(h, l))
      BY <1>1, <2>10, <3>14, Tracking
    <3>16. l \in h.active => h.z[l] = z[i]
      <4>1. l \in h.active => l \in moving
        BY <2>4, <2>5
      <4> QED BY <2>5, <2>6, <3>1, <4>1, BlendIs
    <3> QED BY <1>1, <2>5, <2>8, <2>9, <3>15, <3>16 DEF InLane
  <2> QED BY <2>12, <2>13
<1> QED BY <1>2, <1>3

LEMMA LaneStart ==
  ASSUME NEW j, NEW k, NEW L, NEW pts, DOMAIN pts = L, NEW inside, inside \subseteq L, NEW l \in inside,
         NEW z, z[0] = Cached(Start(j, pts[l]))
  PROVE  InLane(j, z, Param(j, pts[l]), L, l, 0, LanesStart(k, j, pts, inside))
<1>1. PICK g : g = LanesStart(k, j, pts, inside)
  OBVIOUS
<1>2. /\ DOMAIN g = LaneFields /\ DOMAIN g.z = L /\ DOMAIN g.c = L /\ DOMAIN g.min = L
      /\ DOMAIN g.max = L /\ DOMAIN g.iter = L /\ DOMAIN g.norm = L
  BY <1>1 DEF LanesStart, LaneFields
<1>3. g.active = (IF k.tail = "far" THEN L ELSE inside) /\ g.i = 0
  BY <1>1 DEF LanesStart
<1>4. l \in L /\ l \in g.active /\ g.active \subseteq L
  BY <1>3
<1>5. g.z[l] = z[0] /\ g.c[l] = Param(j, pts[l])
  BY <1>1, <1>4 DEF LanesStart
<1>6. g.min[l] = Inf /\ g.max[l] = 0 /\ g.norm[l] = 0
  BY <1>1, <1>4 DEF LanesStart
<1>7. Tracks(j, z, 0, LaneView(g, l))
  <2>1. PICK v : v = LaneView(g, l)
    OBVIOUS
  <2>2. v.escaped = (l \notin g.active) /\ v.norm = 0 /\ v.min = Inf /\ v.max = 0
    BY <1>6, <2>1 DEF LaneView
  <2>3. 1 .. 0 = {}
    OBVIOUS
  <2>4. Quiet(j, z, 0) /\ IsLow(z, 0, Inf) /\ IsHigh(z, 0, 0)
    BY <2>3 DEF Quiet, IsLow, IsHigh, Norms
  <2>5. v.escaped \in BOOLEAN /\ ~v.escaped
    BY <1>4, <2>2, Zenon
  <2> QED BY <2>1, <2>2, <2>4, <2>5, Zenon DEF Tracks
<1>8. IsGroup(L, g)
  BY <1>2, <1>4 DEF IsGroup
<1> QED BY <1>1, <1>3, <1>5, <1>7, <1>8, Zenon DEF InLane

LanesEnd(k, j, pts, inside) ==
  Iterate(j.iters, LanesStart(k, j, pts, inside), LAMBDA s : LanesStep(k, j, s))

LEMMA GroupMatches ==
  ASSUME NEW j, IsRequest(j), j.variant \in Quadratic, NEW k, k.folds \in StepTables,
         NEW L, NEW pts, DOMAIN pts = L, NEW inside, inside \subseteq L, NEW l \in inside,
         NEW x, NEW y, pts[l] = TruePixel(j, x, y), IsPixel(pts[l]),
         NEW r, r = LanesEnd(k, j, pts, inside)
  PROVE  Matches(LaneAnswer(j, r, l), Reference(j, x, y))
<1>1. j.iters \in Nat
  BY Requests
<1>2. PICK p, c, s : p = pts[l] /\ c = Param(j, p) /\ s = LanesStart(k, j, pts, inside)
  OBVIOUS
<1>3. PICK z : z = Orbit(j, p)
  OBVIOUS
<1>4. /\ z[0] = Cached(Start(j, p))
      /\ \A i \in 1 .. j.iters : z[i] = TrueStep(j, z[i - 1], c) /\ IsPoint(z[i])
  BY <1>1, <1>2, <1>3, OrbitPoints
<1>5. \A i \in 0 .. j.iters : IsValuePoint(z[i])
  BY <1>2, <1>3, OrbitValues
<1>6. PICK g : Runs(g, LanesLoop(k, j), s, j.iters) /\ r = g[j.iters]
  <2>1. PICK g : g = CHOOSE f : f = [i \in 0 .. j.iters |-> IF i = 0 THEN LanesStart(k, j, pts, inside)
                                                           ELSE LanesStep(k, j, f[i - 1])]
    OBVIOUS
  <2>2. r = g[j.iters]
    BY <2>1 DEF LanesEnd, Iterate
  <2> DEFINE m == LanesLoop(k, j)
  <2>3. \A t : Turn(m, t) = LanesStep(k, j, t)
    BY DEF Turn, LanesLoop
  <2>4. g = CHOOSE f : f = [i \in 0 .. j.iters |-> IF i = 0 THEN s ELSE Turn(m, f[i - 1])]
    BY <1>2, <2>1, <2>3
  <2> HIDE DEF m
  <2> QED BY <1>1, <2>2, <2>4, Unrolled DEF m
<1>7. \A t : Turn(LanesLoop(k, j), t) = LanesStep(k, j, t)
  BY DEF Turn, LanesLoop
<1>8. g[0] = s /\ \A i \in 1 .. j.iters : g[i] = LanesStep(k, j, g[i - 1])
  BY <1>6, <1>7 DEF Runs
<1> DEFINE T == {i \in 0 .. j.iters : InLane(j, z, c, L, l, i, g[i])}
<1>9. 0 \in T
  BY <1>1, <1>2, <1>4, <1>8, LaneStart
<1>10. ASSUME NEW i \in 1 .. j.iters, i - 1 \in T PROVE i \in T
  <2>1. InLane(j, z, c, L, l, i - 1, g[i - 1]) /\ i \in Nat \ {0} /\ (\A n \in 1 .. i : IsPoint(z[n]))
        /\ IsValuePoint(z[i - 1]) /\ IsValuePoint(z[i])
    BY <1>1, <1>4, <1>5, <1>10
  <2>2. z[i] = QuadraticStep(variant_step[j.variant], z[i - 1], c) /\ g[i] = LanesStep(k, j, g[i - 1])
    BY <1>4, <1>8 DEF TrueStep
  <2>3. l \in L
    OBVIOUS
  <2>4. InLane(j, z, c, L, l, i, g[i])
    BY <2>1, <2>2, <2>3, LaneTurn
  <2> QED BY <1>1, <2>4
<1>11. \A i \in 0 .. j.iters : i \in T
  <2> HIDE DEF T
  <2> QED BY <1>1, <1>9, <1>10, UpTo
<1>12. Tracks(j, z, j.iters, LaneView(r, l))
  BY <1>1, <1>6, <1>11 DEF InLane
<1>13. PICK v, a : v = LaneView(r, l) /\ a = LaneAnswer(j, r, l)
  OBVIOUS
<1>14. l \in r.active => r.norm[l] = 0
  <2>1. v.escaped = (l \notin r.active) /\ v.norm = r.norm[l]
    BY <1>13 DEF LaneView
  <2> QED BY <1>12, <1>13, <2>1 DEF Tracks
<1>15. /\ a.escaped = v.escaped /\ a.iter = (IF v.escaped THEN v.iter ELSE j.iters)
       /\ a.norm = v.norm /\ a.min = v.min /\ a.max = v.max
  BY <1>13, <1>14 DEF LaneView, LaneAnswer
<1>16. \A n \in 1 .. j.iters : IsPoint(z[n])
  BY <1>4
<1> QED BY <1>1, <1>2, <1>3, <1>12, <1>13, <1>15, <1>16, TrackedAnswer

(* The group of a column of a row, and its lane.                           *)
GroupStart(k, x_begin, x) == x_begin + ((x - x_begin) \div k.lanes) * k.lanes

LEMMA LaneOfColumn ==
  ASSUME NEW k, k.lanes \in Nat \ {0}, NEW x_begin \in Int, NEW x_limit \in Int, NEW x \in x_begin .. x_limit - 1
  PROVE  /\ GroupStart(k, x_begin, x) \in Int
         /\ x - GroupStart(k, x_begin, x) \in {l \in 0 .. k.lanes - 1 : GroupStart(k, x_begin, x) + l < x_limit}
         /\ GroupStart(k, x_begin, x) + (x - GroupStart(k, x_begin, x)) = x
<1>1. PICK u, d : u = k.lanes /\ d = x - x_begin
  OBVIOUS
<1>2. u \in Nat \ {0} /\ d \in Int
  BY <1>1
<1>3. PICK q : q = d \div u
  OBVIOUS
<1>4. q \in Int /\ u * q <= d /\ d < u * q + u
  BY <1>2, <1>3, Quotient
<1>5. PICK m : m = u * q
  OBVIOUS
<1>6. m \in Int /\ q * u = m
  BY <1>2, <1>4, <1>5, Products
<1>7. GroupStart(k, x_begin, x) = x_begin + m
  BY <1>1, <1>3, <1>6 DEF GroupStart
<1>8. x - (x_begin + m) \in 0 .. u - 1 /\ (x_begin + m) + (x - (x_begin + m)) = x /\ x < x_limit
  BY <1>1, <1>2, <1>4, <1>5, <1>6
<1> QED BY <1>1, <1>6, <1>7, <1>8

MapRow(k, j, y) == Row(k, j, j.from, j.to, LAMBDA x : RowPixel(j, x, y))
LnRow(k, j, y) == Row(k, j, 0, j.width, LAMBDA x : LnPixel(j, x, y))

LEMMA MapRowMatches ==
  ASSUME NEW j, IsRequest(j), j.plane # "ln", j.variant \in Quadratic,
         NEW k, k.folds \in StepTables, k.lanes \in Nat \ {0},
         NEW y \in 0 .. j.height - 1, NEW row, row = MapRow(k, j, y)
  PROVE  DOMAIN row = j.from .. j.to - 1 /\ \A x \in j.from .. j.to - 1 : Matches(row[x], Reference(j, x, y))
<1>1. DOMAIN row = j.from .. j.to - 1
  BY DEF MapRow, Row
<1>2. ASSUME NEW x \in j.from .. j.to - 1 PROVE Matches(row[x], Reference(j, x, y))
  <2>1. x \in 0 .. j.width - 1 /\ x \in Int /\ y \in Int /\ j.from \in Int /\ j.to \in Int
    BY Requests
  <2>2. PICK first, lanes : first = GroupStart(k, j.from, x) /\ lanes = 0 .. k.lanes - 1
    OBVIOUS
  <2>3. PICK inside : inside = {n \in lanes : first + n < j.to}
    OBVIOUS
  <2>4. PICK pts : pts = [n \in lanes |-> IF n \in inside THEN RowPixel(j, first + n, y) ELSE FarPoint]
    OBVIOUS
  <2>5. PICK l, g : l = x - first /\ g = LanesEnd(k, j, pts, inside)
    BY ZenonT(40)
  <2>6. row[x] = LaneAnswer(j, g, l)
    BY <2>2, <2>3, <2>4, <2>5, ZenonT(40) DEF MapRow, Row, LanesEnd, LaneAnswer, GroupStart
  <2>7. l \in inside /\ first + l = x
    BY <2>1, <2>2, <2>3, <2>5, LaneOfColumn
  <2>8. inside \subseteq lanes /\ DOMAIN pts = lanes
    BY <2>3, <2>4
  <2>9. pts[l] = RowPixel(j, x, y)
    BY <2>4, <2>7, <2>8
  <2>10. pts[l] = TruePixel(j, x, y) /\ IsPixel(pts[l])
    BY <2>1, <2>9, MapGridsAgree, PixelsAreValues
  <2> QED BY <2>5, <2>6, <2>7, <2>8, <2>10, GroupMatches
<1> QED BY <1>1, <1>2, ZenonT(40)

LEMMA LnRowMatches ==
  ASSUME NEW j, IsRequest(j), j.plane = "ln", j.variant \in Quadratic,
         NEW k, k.folds \in StepTables, k.lanes \in Nat \ {0},
         NEW y \in 0 .. j.height - 1, NEW row, row = LnRow(k, j, y)
  PROVE  DOMAIN row = 0 .. j.width - 1 /\ \A x \in 0 .. j.width - 1 : Matches(row[x], Reference(j, x, y))
<1>1. DOMAIN row = 0 .. j.width - 1
  BY DEF LnRow, Row
<1>2. ASSUME NEW x \in 0 .. j.width - 1 PROVE Matches(row[x], Reference(j, x, y))
  <2>1. x \in Int /\ j.width \in Int /\ 0 \in Int
    BY Requests
  <2>2. PICK first, lanes : first = GroupStart(k, 0, x) /\ lanes = 0 .. k.lanes - 1
    OBVIOUS
  <2>3. PICK inside : inside = {n \in lanes : first + n < j.width}
    OBVIOUS
  <2>4. PICK pts : pts = [n \in lanes |-> IF n \in inside THEN LnPixel(j, first + n, y) ELSE FarPoint]
    OBVIOUS
  <2>5. PICK l, g : l = x - first /\ g = LanesEnd(k, j, pts, inside)
    OBVIOUS
  <2>6. row[x] = LaneAnswer(j, g, l)
    BY <2>2, <2>3, <2>4, <2>5 DEF LnRow, Row, LanesEnd, LaneAnswer, GroupStart
  <2>7. l \in inside /\ first + l = x
    BY <2>1, <2>2, <2>3, <2>5, LaneOfColumn
  <2>8. inside \subseteq lanes /\ DOMAIN pts = lanes
    BY <2>3, <2>4
  <2>9. pts[l] = LnPixel(j, x, y)
    BY <2>4, <2>7, <2>8
  <2>10. pts[l] = TruePixel(j, x, y) /\ IsPixel(pts[l])
    BY <2>9, LnPixelsAreValues DEF TruePixel
  <2> QED BY <2>5, <2>6, <2>7, <2>8, <2>10, GroupMatches
<1> QED BY <1>1, <1>2, ZenonT(40)

LEMMA KernelsAreTyped ==
  /\ \A n \in DOMAIN MapRowKernels : MapRowKernels[n].folds \in StepTables /\ MapRowKernels[n].lanes \in Nat \ {0}
  /\ \A n \in DOMAIN LnRowKernels : LnRowKernels[n].folds \in StepTables /\ LnRowKernels[n].lanes \in Nat \ {0}
<1>1. LaneUnit \in Nat \ {0} /\ 2 * LaneUnit \in Nat \ {0} /\ 4 * LaneUnit \in Nat \ {0}
  BY LaneAssumption
<1>2. \A t, m : \A f \in StepTables, n \in Nat \ {0} : Kernel(n, f, t, m).folds \in StepTables /\ Kernel(n, f, t, m).lanes \in Nat \ {0}
  BY DEF Kernel
<1>3. /\ avx2_step \in StepTables /\ avx2_step_ps \in StepTables /\ avx512_step \in StepTables
      /\ avx512_step_ps \in StepTables /\ ln_avx2_step \in StepTables /\ ln_avx2_step_ps \in StepTables
      /\ ln_avx512_step \in StepTables /\ ln_avx512_step_ps \in StepTables
  BY DEF StepTables
<1> DEFINE Good(k) == k.folds \in StepTables /\ k.lanes \in Nat \ {0}
<1>4. Good(avx2_fp64_row) /\ Good(avx2_fp32_row) /\ Good(avx512_fp64_row) /\ Good(avx512_fp32_row)
  BY <1>1, <1>2, <1>3 DEF avx2_fp64_row, avx2_fp32_row, avx512_fp64_row, avx512_fp32_row
<1>5. Good(ln_avx2_rows) /\ Good(ln_avx2_rows_fp32) /\ Good(ln_avx512_rows) /\ Good(ln_avx512_rows_fp32)
  BY <1>1, <1>2, <1>3 DEF ln_avx2_rows, ln_avx2_rows_fp32, ln_avx512_rows, ln_avx512_rows_fp32
<1> HIDE DEF Good
<1>6. \A n \in DOMAIN MapRowKernels : Good(MapRowKernels[n])
  BY <1>4 DEF MapRowKernels
<1>7. \A n \in DOMAIN LnRowKernels : Good(LnRowKernels[n])
  BY <1>5 DEF LnRowKernels
<1> QED BY <1>6, <1>7 DEF Good

-----------------------------------------------------------------------------
(* The image: what the kernels that answer for every pixel wrote.          *)


Agrees(j, pixels, y) ==
  \A x \in DOMAIN pixels : IF j.plane = "ln" THEN pixels[x] = Reference(j, x, y).iter
                           ELSE Matches(pixels[x], Reference(j, x, y))

LEMMA WrittenAgrees ==
  ASSUME NEW kernel, NEW y, NEW pixels, Wrote(kernel, y, pixels), Agrees(job, pixels, y)
  PROVE  KernelsAgree'
<1>1. image' = [kernel |-> kernel, y |-> y, pixels |-> pixels] /\ job' = job
  BY DEF Wrote
<1>2. image'.y = y /\ image'.pixels = pixels
  BY <1>1
<1> QED BY <1>1, <1>2 DEF KernelsAgree, Agrees

LEMMA CountsAgree ==
  ASSUME NEW kernel, NEW y, NEW pixels, WroteCounts(kernel, y, pixels), job.plane = "ln",
         \A x \in DOMAIN pixels : Matches(pixels[x], Reference(job, x, y))
  PROVE  KernelsAgree'
<1>1. PICK counts : counts = [x \in DOMAIN pixels |-> pixels[x].iter]
  OBVIOUS
<1>2. Wrote(kernel, y, counts)
  BY <1>1 DEF WroteCounts
<1>3. Agrees(job, counts, y)
  BY <1>1 DEF Agrees, Matches
<1> QED BY <1>2, <1>3, WrittenAgrees

KernelsInv == job \in Jobs /\ KernelsAgree

LEMMA RenderMapRowAgrees == KernelsInv /\ RenderMapRow => KernelsAgree'
<1> SUFFICES ASSUME KernelsInv, RenderMapRow PROVE KernelsAgree'
  OBVIOUS
<1>1. IsRequest(job) /\ job.plane = "map" /\ job.variant \in Quadratic
  BY JobsAssumption DEF KernelsInv, RenderMapRow
<1>2. PICK name \in DOMAIN MapRowKernels, y \in 0 .. job.height - 1 :
        \E row \in {MapRow(MapRowKernels[name], job, y)}, end \in RowEnds(name) :
          Wrote(name, y, [x \in job.from .. end - 1 |-> row[x]])
  BY ZenonT(60) DEF RenderMapRow, MapRow
<1>3. PICK row \in {MapRow(MapRowKernels[name], job, y)} :
        \E end \in RowEnds(name) : Wrote(name, y, [x \in job.from .. end - 1 |-> row[x]])
  BY <1>2
<1>4. PICK end \in RowEnds(name) : Wrote(name, y, [x \in job.from .. end - 1 |-> row[x]])
  BY <1>3
<1>5. \A x \in job.from .. job.to - 1 : Matches(row[x], Reference(job, x, y))
  BY <1>1, <1>3, KernelsAreTyped, MapRowMatches
<1>6. \A x \in job.from .. end - 1 : x \in job.from .. job.to - 1
  BY <1>1, Requests DEF RowEnds
<1>7. PICK pixels : pixels = [x \in job.from .. end - 1 |-> row[x]]
  OBVIOUS
<1>8. Agrees(job, pixels, y)
  BY <1>1, <1>5, <1>6, <1>7 DEF Agrees
<1> QED BY <1>4, <1>7, <1>8, WrittenAgrees

LEMMA RenderMapThreadsAgrees == KernelsInv /\ RenderMapThreads => KernelsAgree'
<1> SUFFICES ASSUME KernelsInv, RenderMapThreads PROVE KernelsAgree'
  OBVIOUS
<1>1. IsRequest(job) /\ job.plane = "map" /\ job.variant \in Quadratic
  BY JobsAssumption DEF KernelsInv, RenderMapThreads
<1>2. PICK y \in 0 .. job.height - 1 :
       \/ Wrote("gpu_fp64", y, [x \in 0 .. job.width - 1 |-> fractal_fp64(job, x, y)])
       \/ Wrote("gpu_fp32", y, [x \in 0 .. job.width - 1 |-> fractal_fp32(job, x, y)])
       \/ Wrote("gpu_field_fp64", y, [x \in 0 .. job.width - 1 |-> fractal_field_fp64(job, x, y)])
       \/ Wrote("gpu_field_fp32", y, [x \in 0 .. job.width - 1 |-> fractal_field_fp32(job, x, y)])
  BY DEF RenderMapThreads
<1>3. ASSUME NEW folds \in {step_fp64_cached, step_fp32_cached}, NEW x \in 0 .. job.width - 1
      PROVE  Matches(Thread(folds, job, CudaPixel(job, x, y)), Reference(job, x, y))
  <2>1. folds \in StepTables /\ x \in Int /\ y \in Int
    BY DEF StepTables
  <2>2. PICK p : p = TruePixel(job, x, y)
    OBVIOUS
  <2>3. CudaPixel(job, x, y) = p /\ IsPixel(p)
    BY <1>1, <2>1, <2>2, MapGridsAgree, PixelsAreValues
  <2> QED BY <1>1, <2>1, <2>2, <2>3, ThreadMatches
<1>4. ASSUME NEW x \in 0 .. job.width - 1
      PROVE  /\ Matches(fractal_fp64(job, x, y), Reference(job, x, y))
             /\ Matches(fractal_fp32(job, x, y), Reference(job, x, y))
             /\ Matches(fractal_field_fp64(job, x, y), Reference(job, x, y))
             /\ Matches(fractal_field_fp32(job, x, y), Reference(job, x, y))
  BY <1>3 DEF fractal_fp64, fractal_fp32, fractal_field_fp64, fractal_field_fp32
<1>5. /\ Agrees(job, [x \in 0 .. job.width - 1 |-> fractal_fp64(job, x, y)], y)
      /\ Agrees(job, [x \in 0 .. job.width - 1 |-> fractal_fp32(job, x, y)], y)
      /\ Agrees(job, [x \in 0 .. job.width - 1 |-> fractal_field_fp64(job, x, y)], y)
      /\ Agrees(job, [x \in 0 .. job.width - 1 |-> fractal_field_fp32(job, x, y)], y)
  BY <1>1, <1>4 DEF Agrees
<1> QED BY <1>2, <1>5, WrittenAgrees

LEMMA RenderMapScalarAgrees == KernelsInv /\ RenderMapScalar => KernelsAgree'
<1> SUFFICES ASSUME KernelsInv, RenderMapScalar PROVE KernelsAgree'
  OBVIOUS
<1>1. IsRequest(job) /\ job.plane = "map"
  BY JobsAssumption DEF KernelsInv, RenderMapScalar
<1>2. PICK y \in 0 .. job.height - 1 :
        Wrote("scalar", y, [x \in job.from .. job.to - 1 |->
          LET p == RowPixel(job, x, y) IN iterate_masked(job, Start(job, p), Param(job, p))])
  BY DEF RenderMapScalar
<1>3. PICK row : row = [x \in job.from .. job.to - 1 |->
          LET p == RowPixel(job, x, y) IN iterate_masked(job, Start(job, p), Param(job, p))]
  OBVIOUS
<1>4. ASSUME NEW x \in job.from .. job.to - 1 PROVE Matches(row[x], Reference(job, x, y))
  <2>1. x \in Int /\ y \in Int
    BY <1>1, Requests
  <2>2. PICK p : p = TruePixel(job, x, y)
    OBVIOUS
  <2>3. RowPixel(job, x, y) = p
    BY <1>1, <2>1, <2>2, MapGridsAgree
  <2>4. row[x] = iterate_masked(job, Start(job, p), Param(job, p))
    BY <1>3, <2>3
  <2> QED BY <1>1, <2>2, <2>4, MaskedMatches
<1>5. DOMAIN row = job.from .. job.to - 1
  BY <1>3
<1>6. Agrees(job, row, y)
  BY <1>1, <1>4, <1>5 DEF Agrees
<1> QED BY <1>2, <1>3, <1>6, WrittenAgrees

LEMMA RenderLnRowAgrees == KernelsInv /\ RenderLnRow => KernelsAgree'
<1> SUFFICES ASSUME KernelsInv, RenderLnRow PROVE KernelsAgree'
  OBVIOUS
<1>1. IsRequest(job) /\ job.plane = "ln" /\ job.variant \in Quadratic
  BY JobsAssumption DEF KernelsInv, RenderLnRow
<1>2. PICK name \in DOMAIN LnRowKernels, start \in 0 .. job.height : \E y \in clamp_rows(job, start, 1) :
        WroteCounts(name, y, Row(LnRowKernels[name], job, 0, job.width, LAMBDA x : LnPixel(job, x, y)))
  BY DEF RenderLnRow
<1>3. PICK y \in clamp_rows(job, start, 1) :
        WroteCounts(name, y, Row(LnRowKernels[name], job, 0, job.width, LAMBDA x : LnPixel(job, x, y)))
  BY <1>2
<1>4. y \in 0 .. job.height - 1
  BY <1>1, Requests DEF clamp_rows
<1>5. PICK row : row = LnRow(LnRowKernels[name], job, y)
  BY ZenonT(40)
<1>6. WroteCounts(name, y, row)
  BY <1>3, <1>5 DEF LnRow, Row
<1>7. \A x \in DOMAIN row : Matches(row[x], Reference(job, x, y))
  BY <1>1, <1>4, <1>5, KernelsAreTyped, LnRowMatches
<1> QED BY <1>1, <1>6, <1>7, CountsAgree

LEMMA RenderLnThreadsAgrees == KernelsInv /\ RenderLnThreads => KernelsAgree'
<1> SUFFICES ASSUME KernelsInv, RenderLnThreads PROVE KernelsAgree'
  OBVIOUS
<1>1. IsRequest(job) /\ job.plane = "ln" /\ job.variant \in Quadratic
  BY JobsAssumption DEF KernelsInv, RenderLnThreads
<1>9. PICK start \in 0 .. job.height - 1 : \E y \in start .. job.height - 1 :
        LET idx(x) == (y - start) * job.width + x
            Columns == 0 .. job.width - 1
        IN \/ WroteCounts("gpu_fp64", y, [x \in Columns |-> ln_map_kernel(job, idx(x), start)])
           \/ WroteCounts("gpu_fp32", y, [x \in Columns |-> ln_map_kernel_fp32(job, idx(x), start)])
           \/ WroteCounts("gpu_iters_fp64", y, [x \in Columns |-> ln_map_iters_kernel(job, idx(x), start)])
           \/ WroteCounts("gpu_iters_fp32", y, [x \in Columns |-> ln_map_iters_kernel_fp32(job, idx(x), start)])
  BY DEF RenderLnThreads
<1>2. PICK y \in start .. job.height - 1 :
        LET idx(x) == (y - start) * job.width + x
            Columns == 0 .. job.width - 1
        IN \/ WroteCounts("gpu_fp64", y, [x \in Columns |-> ln_map_kernel(job, idx(x), start)])
           \/ WroteCounts("gpu_fp32", y, [x \in Columns |-> ln_map_kernel_fp32(job, idx(x), start)])
           \/ WroteCounts("gpu_iters_fp64", y, [x \in Columns |-> ln_map_iters_kernel(job, idx(x), start)])
           \/ WroteCounts("gpu_iters_fp32", y, [x \in Columns |-> ln_map_iters_kernel_fp32(job, idx(x), start)])
  BY <1>9
<1>3. start \in Nat /\ y \in Nat /\ start <= y /\ y \in 0 .. job.height - 1
  BY <1>1, Requests
<1> DEFINE idx(x) == (y - start) * job.width + x
           Columns == 0 .. job.width - 1
<1>4. ASSUME NEW folds \in {d_step_cached, d_step_cached_f}, NEW x \in Columns
      PROVE  Matches(Thread(folds, job, CudaLnPixel(job, idx(x), start)), Reference(job, x, y))
  <2>1. folds \in StepTables
    BY DEF StepTables
  <2>2. PICK p : p = TruePixel(job, x, y)
    OBVIOUS
  <2>3. CudaLnPixel(job, idx(x), start) = p
    BY <1>1, <1>3, <2>2, LnGridsAgree
  <2>4. IsPixel(p)
    BY <1>1, <1>3, <2>2, PixelsAreValues
  <2> HIDE DEF idx
  <2> QED BY <1>1, <2>1, <2>2, <2>3, <2>4, ThreadMatches
<1>5. PICK a, b, c, d : /\ a = [x \in Columns |-> ln_map_kernel(job, idx(x), start)]
                        /\ b = [x \in Columns |-> ln_map_kernel_fp32(job, idx(x), start)]
                        /\ c = [x \in Columns |-> ln_map_iters_kernel(job, idx(x), start)]
                        /\ d = [x \in Columns |-> ln_map_iters_kernel_fp32(job, idx(x), start)]
  OBVIOUS
<1>6. \/ WroteCounts("gpu_fp64", y, a) \/ WroteCounts("gpu_fp32", y, b)
      \/ WroteCounts("gpu_iters_fp64", y, c) \/ WroteCounts("gpu_iters_fp32", y, d)
  BY <1>2, <1>5
<1> HIDE DEF idx
<1>7. ASSUME NEW x \in Columns
      PROVE  /\ Matches(a[x], Reference(job, x, y)) /\ Matches(b[x], Reference(job, x, y))
             /\ Matches(c[x], Reference(job, x, y)) /\ Matches(d[x], Reference(job, x, y))
  BY <1>4, <1>5 DEF ln_map_kernel, ln_map_kernel_fp32, ln_map_iters_kernel, ln_map_iters_kernel_fp32
<1>8. DOMAIN a = Columns /\ DOMAIN b = Columns /\ DOMAIN c = Columns /\ DOMAIN d = Columns
  BY <1>5
<1> HIDE DEF Columns
<1> QED BY <1>1, <1>6, <1>7, <1>8, CountsAgree

LEMMA RenderLnScalarAgrees == KernelsInv /\ RenderLnScalar => KernelsAgree'
<1> SUFFICES ASSUME KernelsInv, RenderLnScalar PROVE KernelsAgree'
  OBVIOUS
<1>1. IsRequest(job) /\ job.plane = "ln"
  BY JobsAssumption DEF KernelsInv, RenderLnScalar
<1> DEFINE RowCounts(y) == [x \in 0 .. job.width - 1 |-> LnScalar(job, x, y)]
<1>a. PICK y \in 0 .. job.height - 1 : \E kernel \in {"openmp", "raw_counts", "sample_fp64", "sample_fp32"} : WroteCounts(kernel, y, RowCounts(y))
  BY DEF RenderLnScalar, render_ln_openmp_rows, compute_ln_iters_fp64, sample_ln_iter_fp64, sample_ln_iter_fp32
<1>2. PICK kernel : WroteCounts(kernel, y, RowCounts(y))
  BY <1>a
<1>3. PICK row : row = RowCounts(y)
  OBVIOUS
<1>4. DOMAIN row = 0 .. job.width - 1
  BY <1>3
<1>5. ASSUME NEW x \in 0 .. job.width - 1 PROVE Matches(row[x], Reference(job, x, y))
  <2>1. PICK p : p = LnPixel(job, x, y)
    OBVIOUS
  <2>2. p = TruePixel(job, x, y)
    BY <1>1, <2>1 DEF TruePixel
  <2>3. row[x] = iterate_masked(job, Start(job, p), Param(job, p))
    BY <1>3, <2>1 DEF LnScalar
  <2> QED BY <1>1, <2>2, <2>3, MaskedMatches
<1> HIDE DEF RowCounts
<1> QED BY <1>1, <1>2, <1>3, <1>4, <1>5, CountsAgree

LEMMA KernelsInvIsInductive == KernelsInv /\ [Next]_vars => KernelsInv'
<1> SUFFICES ASSUME KernelsInv, [Next]_vars PROVE KernelsInv'
  OBVIOUS
<1>1. job' \in Jobs
  BY DEF KernelsInv, Next, vars, Wrote, WroteCounts, RenderMapRow, RenderMapThreads, RenderMapScalar,
         RenderCancellable, RenderPairwise, RenderLnRow, RenderLnThreads, RenderLnScalar
<1>2. CASE RenderMapRow
  BY <1>1, <1>2, RenderMapRowAgrees DEF KernelsInv
<1>3. CASE RenderMapThreads
  BY <1>1, <1>3, RenderMapThreadsAgrees DEF KernelsInv
<1>4. CASE RenderMapScalar
  BY <1>1, <1>4, RenderMapScalarAgrees DEF KernelsInv
<1>5. CASE RenderCancellable
  <2>1. image'.kernel = "cancellable"
    BY <1>5 DEF RenderCancellable
  <2> QED BY <1>1, <2>1 DEF KernelsInv, KernelsAgree
<1>6. CASE RenderPairwise
  <2>1. image'.kernel = "pairwise"
    BY <1>6 DEF RenderPairwise, Wrote
  <2> QED BY <1>1, <2>1 DEF KernelsInv, KernelsAgree
<1>7. CASE RenderLnRow
  BY <1>1, <1>7, RenderLnRowAgrees DEF KernelsInv
<1>8. CASE RenderLnThreads
  BY <1>1, <1>8, RenderLnThreadsAgrees DEF KernelsInv
<1>9. CASE RenderLnScalar
  BY <1>1, <1>9, RenderLnScalarAgrees DEF KernelsInv
<1>10. CASE UNCHANGED vars
  BY <1>1, <1>10 DEF KernelsInv, KernelsAgree, vars
<1> QED BY <1>2, <1>3, <1>4, <1>5, <1>6, <1>7, <1>8, <1>9, <1>10 DEF Next

(* Every kernel of map and ln rows - the vector kernels of any register    *)
(* width with their masked last groups, the GPU's threads, the scalar      *)
(* loops - writes for each pixel what the orbit of its centre says: when   *)
(* it escaped and, unless that overflowed, its norm and the least and the  *)
(* greatest one; an ln row has the first only.  For every request,         *)
(* whatever the complex functions answer.                                  *)
THEOREM KernelsKeepAgreeing == Spec => []KernelsAgree
<1>1. Init => KernelsInv
  BY DEF Init, KernelsInv, KernelsAgree, Nothing
<1>2. KernelsInv => KernelsAgree
  BY DEF KernelsInv
<1> QED BY <1>1, <1>2, KernelsInvIsInductive, PTL DEF Spec

-----------------------------------------------------------------------------
(* Distances.  What the complex functions answer for numbers are numbers,  *)
(* as std::complex<double> has them: finite, infinite or NaN.              *)
CxAnswersNumbers ==
  \A v \in Transcendental : \A a, b \in Values : CxApply(v, Point(a, b)).re \in Values /\ CxApply(v, Point(a, b)).im \in Values

LEMMA OrbitIsNumbers ==
  ASSUME CxAnswersNumbers, NEW j, IsRequest(j), NEW p, IsPixel(p), NEW z, z = Orbit(j, p)
  PROVE  \A i \in 0 .. j.iters : IsValuePoint(z[i])
<1>1. CASE j.variant \in Quadratic
  BY <1>1, OrbitValues
<1>2. CASE j.variant \notin Quadratic
  <2> DEFINE T == {i \in 0 .. j.iters : IsValuePoint(z[i])}
  <2>1. j.iters \in Nat /\ j.variant \in Transcendental
    BY <1>2, Requests
  <2>2. 0 \in T
    BY <2>1, OrbitPoints, StartOfPixel
  <2>3. ASSUME NEW i \in 1 .. j.iters, i - 1 \in T PROVE i \in T
    <3>1. z[i] = TranscendentalStep(j.variant, z[i - 1], Param(j, p))
      BY <1>2, <2>1, OrbitPoints DEF TrueStep
    <3>2. PICK a, b \in Values : z[i - 1] = Cached(Point(a, b))
      BY <2>3 DEF IsValuePoint
    <3>3. PICK w : w = CxApply(j.variant, Point(a, b))
      OBVIOUS
    <3>4. w.re \in Values /\ w.im \in Values
      BY <2>1, <3>2, <3>3 DEF CxAnswersNumbers
    <3>5. z[i - 1].re = a /\ z[i - 1].im = b
      BY <3>2 DEF Cached, Point
    <3>6. z[i] = Cached(Point(Add(w.re, Param(j, p).re), Add(w.im, Param(j, p).im)))
      BY <3>1, <3>3, <3>5 DEF TranscendentalStep
    <3>7. Add(w.re, Param(j, p).re) \in Values /\ Add(w.im, Param(j, p).im) \in Values
      BY <3>4, StartOfPixel, SumsAreValues
    <3>8. IsValuePoint(z[i])
      BY <3>6, <3>7 DEF IsValuePoint
    <3> QED BY <2>1, <3>8
  <2>4. \A i \in 0 .. j.iters : i \in T
    <3> HIDE DEF T
    <3> QED BY <2>1, <2>2, <2>3, UpTo
  <2> QED BY <2>4
<1> QED BY <1>1, <1>2

Distances == (0 .. Inf) \cup {NaN}

LEMMA DistancesAreValues ==
  \A a, b : IsValuePoint(a) /\ IsValuePoint(b) => Distance2(a, b) \in Distances
<1> SUFFICES ASSUME NEW a, NEW b, IsValuePoint(a), IsValuePoint(b) PROVE Distance2(a, b) \in Distances
  OBVIOUS
<1>1. \A p : IsValuePoint(p) => p.re \in Values /\ p.im \in Values
  BY DEF IsValuePoint, Cached, Point
<1>2. PICK dr, di : dr = Add(a.re, Neg(b.re)) /\ di = Add(a.im, Neg(b.im))
  OBVIOUS
<1>3. Neg(b.re) \in Values /\ Neg(b.im) \in Values
  <2>1. "+" \in Signs
    BY DEF Signs
  <2> QED BY <1>1, <2>1, FoldsAreValues
<1>4. dr \in Values /\ di \in Values
  BY <1>1, <1>2, <1>3, SumsAreValues
<1>5. PICK m, n : m = Mul(dr, dr) /\ n = Mul(di, di)
  OBVIOUS
<1>6. m \in Distances /\ n \in Distances
  BY <1>4, <1>5, SquareOf DEF Distances
<1>7. Add(m, n) \in Distances
  BY <1>6, Numbers DEF Add, Round, Distances
<1> QED BY <1>2, <1>5, <1>7 DEF Distance2

(* One search through the scratch.                                         *)
LEMMA SearchFindsLeast ==
  ASSUME NEW best \in 0 .. Inf, NEW a, NEW scratch, NEW m \in Nat, Len(scratch) = m,
         \A k \in 1 .. m : Distance2(a, scratch[k]) \in Distances,
         NEW r, r = LeastDistance(best, a, scratch)
  PROVE  /\ r \in 0 .. Inf /\ r <= best
         /\ \A k \in 1 .. m : Distance2(a, scratch[k]) # NaN => r <= Distance2(a, scratch[k])
         /\ r = best \/ \E k \in 1 .. m : Distance2(a, scratch[k]) # NaN /\ r = Distance2(a, scratch[k])
<1> DEFINE D(k) == Distance2(a, scratch[k])
           S == 0 .. Inf
           Better(k, v) == IF Gt(v, D(k)) THEN D(k) ELSE v
           E(f) == [k \in 0 .. m |-> IF k = 0 THEN best ELSE Better(k, f[k - 1])]
<1>1. r = (CHOOSE f : f = E(f))[m]
  BY DEF LeastDistance
<1>2. \A k \in 1 .. m, v \in S : Better(k, v) \in S /\ Better(k, v) <= v
                                /\ (D(k) # NaN => Better(k, v) <= D(k))
                                /\ (Better(k, v) = v \/ (D(k) # NaN /\ Better(k, v) = D(k)))
  <2> SUFFICES ASSUME NEW k \in 1 .. m, NEW v \in S
               PROVE  Better(k, v) \in S /\ Better(k, v) <= v
                                /\ (D(k) # NaN => Better(k, v) <= D(k))
                                /\ (Better(k, v) = v \/ (D(k) # NaN /\ Better(k, v) = D(k)))
    OBVIOUS
  <2>1. PICK d : d = D(k)
    OBVIOUS
  <2>2. d \in Distances
    BY <2>1
  <2> HIDE DEF D
  <2> QED BY <2>1, <2>2, Numbers DEF Gt, Distances
<1> HIDE DEF Better, D, S
<1>3. PICK f : f = E(f)
  <2>1. PICK b \in [Nat \X S -> S] : \A k \in 1 .. m, v \in S : b[<<k, v>>] = Better(k, v)
    <3>1. PICK b : b = [q \in Nat \X S |-> IF q[1] \in 1 .. m THEN Better(q[1], q[2]) ELSE q[2]]
      OBVIOUS
    <3>2. \A q \in Nat \X S : (IF q[1] \in 1 .. m THEN Better(q[1], q[2]) ELSE q[2]) \in S
      BY <1>2
    <3>3. b \in [Nat \X S -> S]
      BY <3>1, <3>2
    <3>4. ASSUME NEW k \in 1 .. m, NEW v \in S PROVE b[<<k, v>>] = Better(k, v)
      <4>1. <<k, v>> \in Nat \X S /\ <<k, v>>[1] = k /\ <<k, v>>[2] = v
        OBVIOUS
      <4> QED BY <3>1, <4>1
    <3> QED BY <3>3, <3>4
  <2>2. best \in S
    BY DEF S
  <2>3. PICK f \in [0 .. m -> S] : f[0] = best /\ \A i \in 1 .. m : f[i] = b[<<i, f[i - 1]>>]
    <3>1. \E f \in [0 .. m -> S] : Recurs(f, best, b, m)
      BY <2>2, Recursion
    <3> QED BY <3>1 DEF Recurs
  <2>4. ASSUME NEW k \in 0 .. m PROVE f[k] = IF k = 0 THEN best ELSE Better(k, f[k - 1])
    <3>1. k # 0 => k \in 1 .. m /\ k - 1 \in 0 .. m
      OBVIOUS
    <3> QED BY <2>1, <2>3, <3>1
  <2>5. f = E(f)
    BY <2>3, <2>4
  <2> QED BY <2>5
<1>4. PICK g : g = E(g) /\ r = g[m]
  BY <1>1, <1>3
<1>5. g[0] = best /\ \A k \in 1 .. m : g[k] = Better(k, g[k - 1])
  <2>1. 0 \in 0 .. m
    OBVIOUS
  <2>2. g[0] = best
    BY <1>4, <2>1
  <2>3. ASSUME NEW k \in 1 .. m PROVE g[k] = Better(k, g[k - 1])
    <3>1. k \in 0 .. m /\ k # 0
      OBVIOUS
    <3> QED BY <1>4, <3>1
  <2> QED BY <2>2, <2>3
<1> HIDE DEF E
<1> DEFINE Best(n) == /\ g[n] \in S /\ g[n] <= best
                      /\ \A k \in 1 .. n : D(k) # NaN => g[n] <= D(k)
                      /\ g[n] = best \/ \E k \in 1 .. n : D(k) # NaN /\ g[n] = D(k)
           T == {n \in 0 .. m : Best(n)}
<1>6. 0 \in T
  BY <1>5 DEF S
<1>7. ASSUME NEW n \in 1 .. m, n - 1 \in T PROVE n \in T
  <2>1. PICK u, v : u = g[n - 1] /\ v = g[n]
    OBVIOUS
  <2>2. /\ u \in S /\ u <= best
        /\ \A k \in 1 .. n - 1 : D(k) # NaN => u <= D(k)
        /\ u = best \/ \E k \in 1 .. n - 1 : D(k) # NaN /\ u = D(k)
    BY <1>7, <2>1
  <2>3. /\ v \in S /\ v <= u /\ (D(n) # NaN => v <= D(n))
        /\ v = u \/ (D(n) # NaN /\ v = D(n))
    BY <1>2, <1>5, <2>1, <2>2
  <2>4. 1 .. n = (1 .. n - 1) \cup {n}
    OBVIOUS
  <2>5. \A k \in 1 .. n - 1 : D(k) \in Distances
    BY DEF D
  <2>6. S \subseteq Int /\ best \in Int /\ \A k \in 1 .. n - 1 : D(k) # NaN => D(k) \in Int
    BY <2>5, Numbers DEF S, Distances
  <2>7. v <= best
    BY <2>2, <2>3, <2>6
  <2>8. \A k \in 1 .. n : D(k) # NaN => v <= D(k)
    <3> SUFFICES ASSUME NEW k \in 1 .. n, D(k) # NaN PROVE v <= D(k)
      OBVIOUS
    <3>1. CASE k = n
      BY <2>3, <3>1
    <3>2. CASE k \in 1 .. n - 1
      <4>1. u <= D(k) /\ D(k) \in Int /\ u \in Int /\ v \in Int
        BY <2>2, <2>3, <2>6, <3>2
      <4> QED BY <2>3, <4>1
    <3> QED BY <2>4, <3>1, <3>2
  <2>9. v = best \/ \E k \in 1 .. n : D(k) # NaN /\ v = D(k)
    BY <2>2, <2>3, <2>4
  <2>10. Best(n)
    BY <2>1, <2>3, <2>7, <2>8, <2>9
  <2> HIDE DEF Best
  <2> QED BY <2>10
<1>8. \A n \in 0 .. m : n \in T
  <2> HIDE DEF T
  <2> QED BY <1>6, <1>7, UpTo
<1>9. Best(m)
  BY <1>8
<1> QED BY <1>4, <1>9 DEF D, S

Points2(j) == IF j.cap < j.iters THEN j.cap ELSE j.iters

LEMMA SearchRuns ==
  ASSUME NEW j, NEW z0, NEW c, NEW stop, Points2(j) \in Nat
  PROVE  \E g : /\ Runs(g, SearchLoop(j, c, stop), PairwiseStart(z0), Points2(j))
                /\ iterate_pairwise_field_cancellable(j, z0, c, stop) =
                     LET s == g[Points2(j)] IN IF s.cancelled THEN [complete |-> FALSE, at |-> s.i]
                                               ELSE [complete |-> TRUE, at |-> s.i, result |-> s.extra]
                /\ stop = Never => iterate_pairwise(j, z0, c) = g[Points2(j)].extra
<1> DEFINE k == SearchLoop(j, c, stop)
           n == Points2(j)
<1>1. \A s : Turn(k, s) = SearchBody(j, c, stop, s)
  BY DEF Turn, SearchLoop
<1>2. PICK g : g = CHOOSE f : f = [i \in 0 .. n |-> IF i = 0 THEN PairwiseStart(z0)
                                                     ELSE SearchBody(j, c, stop, f[i - 1])]
  OBVIOUS
<1>3. iterate_pairwise_field_cancellable(j, z0, c, stop) =
        LET s == g[n] IN IF s.cancelled THEN [complete |-> FALSE, at |-> s.i]
                         ELSE [complete |-> TRUE, at |-> s.i, result |-> s.extra]
  BY <1>2 DEF iterate_pairwise_field_cancellable, Iterate, SearchBody, Points2
<1>4. ASSUME stop = Never PROVE iterate_pairwise(j, z0, c) = g[n].extra
  <2>1. \A s : SearchBody(j, c, stop, s) = PairwiseBody(j, c, Never, s)
    BY <1>4 DEF SearchBody
  <2>2. g = CHOOSE f : f = [i \in 0 .. n |-> IF i = 0 THEN PairwiseStart(z0)
                                            ELSE PairwiseBody(j, c, Never, f[i - 1])]
    BY <1>2, <2>1
  <2> QED BY <2>2 DEF iterate_pairwise, Iterate, Points2
<1>5. g = CHOOSE f : f = [i \in 0 .. n |-> IF i = 0 THEN PairwiseStart(z0) ELSE Turn(k, f[i - 1])]
  BY <1>1, <1>2
<1> HIDE DEF k
<1>6. Runs(g, k, PairwiseStart(z0), n)
  BY <1>5, Unrolled
<1> QED BY <1>3, <1>4, <1>6 DEF k

(* The distances between the first m points.                               *)
Apart(z, m) == {Distance2(z[q[1]], z[q[2]]) : q \in {r \in (1 .. m) \X (1 .. m) : r[1] > r[2]}} \ {NaN}
IsClosest(z, m, d) == d \in {Inf} \cup Apart(z, m) /\ \A e \in Apart(z, m) : d <= e

LEMMA ApartGrows ==
  ASSUME NEW z, NEW m \in Nat \ {0}
  PROVE  Apart(z, m) = Apart(z, m - 1) \cup ({Distance2(z[m], z[k]) : k \in 1 .. m - 1} \ {NaN})
<1> DEFINE Pairs(i) == {r \in (1 .. i) \X (1 .. i) : r[1] > r[2]}
<1>1. ASSUME NEW q \in Pairs(m) PROVE q \in Pairs(m - 1) \/ (q[1] = m /\ q[2] \in 1 .. m - 1)
  OBVIOUS
<1>2. Pairs(m - 1) \subseteq Pairs(m)
  OBVIOUS
<1>3. \A k \in 1 .. m - 1 : <<m, k>> \in Pairs(m) /\ <<m, k>>[1] = m /\ <<m, k>>[2] = k
  OBVIOUS
<1>4. \A i : Apart(z, i) = {Distance2(z[q[1]], z[q[2]]) : q \in Pairs(i)} \ {NaN}
  BY DEF Apart
<1> HIDE DEF Pairs
<1>5. ASSUME NEW d \in Apart(z, m) PROVE d \in Apart(z, m - 1) \/ (d # NaN /\ \E k \in 1 .. m - 1 : d = Distance2(z[m], z[k]))
  <2>1. PICK q \in Pairs(m) : d = Distance2(z[q[1]], z[q[2]]) /\ d # NaN
    BY <1>4
  <2>2. CASE q \in Pairs(m - 1)
    BY <1>4, <2>1, <2>2
  <2>3. CASE q[1] = m /\ q[2] \in 1 .. m - 1
    BY <2>1, <2>3
  <2> QED BY <1>1, <2>2, <2>3
<1>6. Apart(z, m - 1) \subseteq Apart(z, m)
  BY <1>2, <1>4
<1>7. ASSUME NEW k \in 1 .. m - 1, Distance2(z[m], z[k]) # NaN PROVE Distance2(z[m], z[k]) \in Apart(z, m)
  <2>1. PICK q : q = <<m, k>>
    OBVIOUS
  <2>2. q \in Pairs(m) /\ q[1] = m /\ q[2] = k
    BY <1>3, <2>1
  <2> QED BY <1>4, <1>7, <2>2
<1> QED BY <1>5, <1>6, <1>7

LEMMA ClosestGrows ==
  ASSUME NEW z, NEW m \in Nat \ {0}, \A n \in 1 .. m : IsValuePoint(z[n]), NEW best, IsClosest(z, m - 1, best),
         NEW scratch, Len(scratch) = m - 1, \A k \in 1 .. m - 1 : scratch[k] = z[k]
  PROVE  IsClosest(z, m, LeastDistance(best, z[m], scratch))
<1>1. m \in 1 .. m /\ \A n \in 1 .. m - 1 : n \in 1 .. m
  OBVIOUS
<1>2. \A k \in 1 .. m - 1 : Distance2(z[m], scratch[k]) \in Distances /\ scratch[k] = z[k]
  BY <1>1, DistancesAreValues
<1>3. \A e \in Apart(z, m - 1) : e \in 0 .. Inf
  <2> SUFFICES ASSUME NEW q \in (1 .. m - 1) \X (1 .. m - 1), Distance2(z[q[1]], z[q[2]]) # NaN
               PROVE  Distance2(z[q[1]], z[q[2]]) \in 0 .. Inf
    BY DEF Apart
  <2>1. q[1] \in 1 .. m /\ q[2] \in 1 .. m
    OBVIOUS
  <2>2. Distance2(z[q[1]], z[q[2]]) \in Distances
    BY <2>1, DistancesAreValues
  <2> QED BY <2>2 DEF Distances
<1>4. best \in 0 .. Inf
  BY <1>3, Numbers DEF IsClosest
<1>5. PICK r : r = LeastDistance(best, z[m], scratch)
  OBVIOUS
<1>6. PICK n \in Nat : n = m - 1 /\ Len(scratch) = n
  OBVIOUS
<1>7. /\ r \in 0 .. Inf /\ r <= best
      /\ \A k \in 1 .. n : Distance2(z[m], scratch[k]) # NaN => r <= Distance2(z[m], scratch[k])
      /\ r = best \/ \E k \in 1 .. n : Distance2(z[m], scratch[k]) # NaN /\ r = Distance2(z[m], scratch[k])
  BY <1>2, <1>4, <1>5, <1>6, SearchFindsLeast
<1>8. r \in {Inf} \cup Apart(z, m)
  BY <1>2, <1>6, <1>7, ApartGrows DEF IsClosest
<1>9. ASSUME NEW e \in Apart(z, m) PROVE r <= e
  <2>1. CASE e \in Apart(z, m - 1)
    <3>1. best <= e /\ e \in 0 .. Inf
      BY <1>3, <2>1 DEF IsClosest
    <3> QED BY <1>4, <1>7, <3>1, Numbers
  <2>2. CASE e # NaN /\ \E k \in 1 .. m - 1 : e = Distance2(z[m], z[k])
    BY <1>2, <1>6, <1>7, <2>2
  <2> QED BY <2>1, <2>2, ApartGrows
<1> QED BY <1>5, <1>8, <1>9 DEF IsClosest

(* The pairwise loop after i iterations.                                   *)
SearchFields == {"i", "z", "extra", "scratch", "escaped", "cancelled"}

Searching(j, z, Z, stop, i, s) ==
  /\ DOMAIN s = SearchFields
  /\ s.cancelled \in BOOLEAN /\ s.escaped \in BOOLEAN
  /\ s.i \in 0 .. i
  /\ stop # Never => s.i <= stop
  /\ s.cancelled => stop # Never /\ s.i >= stop
  /\ s.scratch \in Seq(Z) /\ Len(s.scratch) = s.i /\ \A n \in 1 .. s.i : s.scratch[n] = z[n]
  /\ IsClosest(z, s.i, s.extra)
  /\ ~s.escaped => Quiet(j, z, s.i) /\ s.z = z[s.i] /\ (~s.cancelled => s.i = i)
  /\ s.escaped => s.i \in 1 .. i /\ Quiet(j, z, s.i - 1) /\ Escapes(j, z[s.i])

LEMMA SearchStart ==
  ASSUME NEW j, NEW z, NEW Z, NEW stop, stop = Never \/ stop \in Nat, NEW z0, z[0] = Cached(z0)
  PROVE  Searching(j, z, Z, stop, 0, PairwiseStart(z0))
<1>1. PICK s : s = PairwiseStart(z0)
  OBVIOUS
<1>2. DOMAIN s = SearchFields
  BY <1>1 DEF PairwiseStart, SearchFields
<1>3. s.i = 0 /\ s.z = z[0] /\ s.extra = Inf /\ s.scratch = <<>> /\ s.escaped = FALSE /\ s.cancelled = FALSE
  BY <1>1 DEF PairwiseStart
<1>4. 1 .. 0 = {}
  OBVIOUS
<1>5. Apart(z, 0) = {} /\ IsClosest(z, 0, Inf) /\ Quiet(j, z, 0)
  BY <1>4 DEF Apart, IsClosest, Quiet
<1>6. s.i \in 0 .. 0 /\ (stop # Never => s.i <= stop)
  BY <1>3
<1>7. s.scratch \in Seq(Z) /\ Len(s.scratch) = s.i /\ \A n \in 1 .. s.i : s.scratch[n] = z[n]
  BY <1>3, <1>4
<1>8. s.cancelled \in BOOLEAN /\ s.escaped \in BOOLEAN /\ ~s.cancelled /\ ~s.escaped
  BY <1>3, Zenon
<1> QED BY <1>1, <1>2, <1>3, <1>5, <1>6, <1>7, <1>8, Zenon DEF Searching

LEMMA SearchTurn ==
  ASSUME NEW j, IsRequest(j), NEW c, NEW z, NEW i \in Nat \ {0}, \A n \in 0 .. i : IsValuePoint(z[n]),
         z[i] = TrueStep(j, z[i - 1], c), NEW Z, z[i] \in Z, NEW stop, stop = Never \/ stop \in Nat,
         NEW s, Searching(j, z, Z, stop, i - 1, s), NEW t, t = SearchBody(j, c, stop, s)
  PROVE  Searching(j, z, Z, stop, i, t)
<1>1. /\ DOMAIN s = SearchFields
      /\ s.cancelled \in BOOLEAN /\ s.escaped \in BOOLEAN
      /\ s.i \in 0 .. i - 1
      /\ stop # Never => s.i <= stop
      /\ s.cancelled => stop # Never /\ s.i >= stop
      /\ s.scratch \in Seq(Z) /\ Len(s.scratch) = s.i /\ \A n \in 1 .. s.i : s.scratch[n] = z[n]
      /\ IsClosest(z, s.i, s.extra)
      /\ ~s.escaped => Quiet(j, z, s.i) /\ s.z = z[s.i] /\ (~s.cancelled => s.i = i - 1)
      /\ s.escaped => s.i \in 1 .. i - 1 /\ Quiet(j, z, s.i - 1) /\ Escapes(j, z[s.i])
  BY Zenon DEF Searching
<1>2. s.i \in 0 .. i /\ (s.escaped => s.i \in 1 .. i)
  BY <1>1
<1>3. CASE s.cancelled \/ s.escaped
  <2>1. t = s
    BY <1>3 DEF SearchBody, PairwiseBody
  <2> QED BY <1>1, <1>2, <1>3, <2>1, Zenon DEF Searching
<1> DEFINE Late == s.scratch # <<>> /\ stop # Never /\ s.i >= stop
<1>4. CASE ~s.cancelled /\ ~s.escaped /\ (Late \/ Asked(stop, s.i))
  <2>1. t = [s EXCEPT !.cancelled = TRUE]
    BY <1>4 DEF SearchBody, PairwiseBody
  <2>2. /\ DOMAIN t = SearchFields /\ t.cancelled = TRUE /\ t.i = s.i /\ t.z = s.z /\ t.escaped = s.escaped
        /\ t.extra = s.extra /\ t.scratch = s.scratch
    BY <1>1, <2>1 DEF SearchFields
  <2>3. stop # Never /\ s.i >= stop
    BY <1>4 DEF Asked
  <2> QED BY <1>1, <1>2, <1>4, <2>2, <2>3, Zenon DEF Searching
<1>5. CASE ~s.cancelled /\ ~s.escaped /\ ~Late /\ ~Asked(stop, s.i)
  <2>1. s.i = i - 1 /\ s.z = z[i - 1] /\ Quiet(j, z, i - 1)
    BY <1>1, <1>5
  <2>2. i \in 0 .. i /\ IsValuePoint(z[i]) /\ IsPoint(z[i])
    BY DEF IsValuePoint, IsPoint
  <2>3. PICK out : out = Escapes(j, z[i])
    OBVIOUS
  <2>4. out \in BOOLEAN
    BY <2>3 DEF Escapes
  <2>5. PICK next : next = IF j.variant \in Quadratic THEN QuadraticStep(variant_step[j.variant], s.z, c)
                           ELSE TranscendentalStep(j.variant, s.z, c)
    OBVIOUS
  <2>6. next = z[i]
    BY <2>1, <2>5 DEF TrueStep
  <2>7. (\/ ~(Finite(next.re) /\ Finite(next.im))
         \/ IF j.variant \in Quadratic THEN Gt(FiniteNorm(next), j.bail * j.bail)
            ELSE Magnitude(next.re) >= j.bail \/ Magnitude(next.im) >= j.bail) = out
    <3>1. CASE j.variant \in Quadratic
      <4>1. (~(Finite(next.re) /\ Finite(next.im)) \/ Gt(FiniteNorm(next), j.bail * j.bail)) <=> Escapes(j, z[i])
        BY <2>2, <2>6, <3>1, QuadraticOut
      <4> QED BY <2>3, <2>4, <3>1, <4>1
    <3>2. CASE j.variant \notin Quadratic
      <4>1. (\/ ~(Finite(next.re) /\ Finite(next.im))
             \/ Magnitude(next.re) >= j.bail \/ Magnitude(next.im) >= j.bail) <=> Escapes(j, z[i])
        BY <2>6, <3>2, Zenon DEF Escapes
      <4> QED BY <2>3, <2>4, <3>2, <4>1
    <3> QED BY <3>1, <3>2
  <2>8. PICK extra, scratch : extra = LeastDistance(s.extra, next, s.scratch) /\ scratch = Append(s.scratch, next)
    OBVIOUS
  <2>9. t = [s EXCEPT !.i = s.i + 1, !.z = next, !.extra = extra, !.scratch = scratch, !.escaped = out]
    <3>1. t = PairwiseBody(j, c, stop, s)
      BY <1>5 DEF SearchBody
    <3>2. PairwiseBody(j, c, stop, s) =
            [s EXCEPT !.i = s.i + 1, !.z = next, !.extra = LeastDistance(@, next, s.scratch),
                      !.scratch = Append(@, next), !.escaped = out]
      BY <1>5, <2>5, <2>7 DEF PairwiseBody
    <3> QED BY <2>8, <3>1, <3>2
  <2>10. /\ DOMAIN t = SearchFields /\ t.i = s.i + 1 /\ t.z = next /\ t.extra = extra /\ t.scratch = scratch
         /\ t.escaped = out /\ t.cancelled = s.cancelled
    BY <1>1, <2>9 DEF SearchFields
  <2>11. t.i = i /\ t.z = z[i] /\ t.i \in 0 .. i
    BY <2>1, <2>6, <2>10
  <2>12. scratch \in Seq(Z) /\ Len(scratch) = i /\ \A n \in 1 .. i : scratch[n] = z[n]
    BY <1>1, <2>1, <2>6, <2>8
  <2>13. IsClosest(z, i, extra)
    <3>1. \A n \in 1 .. i : IsValuePoint(z[n])
      OBVIOUS
    <3>2. IsClosest(z, i - 1, s.extra) /\ Len(s.scratch) = i - 1 /\ \A n \in 1 .. i - 1 : s.scratch[n] = z[n]
      BY <1>1, <2>1
    <3> QED BY <2>6, <2>8, <3>1, <3>2, ClosestGrows
  <2>14. stop # Never => i <= stop
    <3>1. ASSUME stop # Never PROVE i <= stop
      <4>1. stop \in Nat
        BY <3>1
      <4>2. CASE s.scratch # <<>>
        BY <1>5, <2>1, <3>1, <4>1, <4>2
      <4>3. CASE s.scratch = <<>>
        <5>1. s.i = 0
          BY <1>1, <4>3
        <5>2. 0 % CancelStride = 0
          BY HugeAssumption
        <5>3. ~(0 >= stop)
          BY <1>5, <3>1, <5>1, <5>2 DEF Asked
        <5> QED BY <2>1, <4>1, <5>1, <5>3
      <4> QED BY <4>2, <4>3
    <3> QED BY <3>1
  <2>15. ~out => Quiet(j, z, i)
    <3>1. 1 .. i = (1 .. i - 1) \cup {i}
      OBVIOUS
    <3> QED BY <2>1, <2>3, <3>1 DEF Quiet
  <2>16. i \in 1 .. i
    OBVIOUS
  <2>17. ~t.cancelled /\ t.cancelled \in BOOLEAN /\ t.escaped \in BOOLEAN
    BY <1>1, <1>5, <2>4, <2>10, Zenon
  <2>18. Searching(j, z, Z, stop, i, t)
    BY <2>1, <2>3, <2>10, <2>11, <2>12, <2>13, <2>14, <2>15, <2>16, <2>17, Zenon DEF Searching
  <2> QED BY <2>18
<1> QED BY <1>1, <1>3, <1>4, <1>5

LEMMA SearchEnds ==
  ASSUME CxAnswersNumbers, NEW j, IsRequest(j), NEW p, IsPixel(p), NEW z, z = Orbit(j, p),
         NEW stop, stop = Never \/ stop \in Nat,
         NEW g, Runs(g, SearchLoop(j, Param(j, p), stop), PairwiseStart(Start(j, p)), Points2(j))
  PROVE  \E Z : Searching(j, z, Z, stop, Points2(j), g[Points2(j)])
<1> DEFINE c == Param(j, p)
<1>1. j.iters \in Nat /\ Points2(j) \in Nat /\ Points2(j) <= j.iters
  BY Requests DEF Points2
<1>2. PICK n \in Nat : n = Points2(j)
  BY <1>1
<1>3. /\ z[0] = Cached(Start(j, p))
      /\ \A i \in 1 .. j.iters : z[i] = TrueStep(j, z[i - 1], c)
  BY <1>1, OrbitPoints
<1>4. \A i \in 0 .. j.iters : IsValuePoint(z[i])
  BY OrbitIsNumbers
<1>5. PICK Z : Z = {z[i] : i \in 0 .. n}
  OBVIOUS
<1>6. \A s : Turn(SearchLoop(j, c, stop), s) = SearchBody(j, c, stop, s)
  BY DEF Turn, SearchLoop
<1>7. g[0] = PairwiseStart(Start(j, p)) /\ \A i \in 1 .. n : g[i] = SearchBody(j, c, stop, g[i - 1])
  BY <1>2, <1>6 DEF Runs
<1> DEFINE T == {i \in 0 .. n : Searching(j, z, Z, stop, i, g[i])}
<1> HIDE DEF c
<1>8. 0 \in T
  BY <1>3, <1>7, SearchStart
<1>9. ASSUME NEW i \in 1 .. n, i - 1 \in T PROVE i \in T
  <2>1. /\ Searching(j, z, Z, stop, i - 1, g[i - 1]) /\ i \in Nat \ {0} /\ z[i] \in Z
        /\ \A m \in 0 .. i : IsValuePoint(z[m])
    BY <1>1, <1>2, <1>4, <1>5, <1>9
  <2>2. z[i] = TrueStep(j, z[i - 1], c) /\ g[i] = SearchBody(j, c, stop, g[i - 1])
    BY <1>1, <1>2, <1>3, <1>7
  <2>3. Searching(j, z, Z, stop, i, g[i])
    BY <2>1, <2>2, SearchTurn
  <2> QED BY <2>3
<1>10. \A i \in 0 .. n : i \in T
  <2> HIDE DEF T
  <2> QED BY <1>8, <1>9, UpTo
<1>11. Searching(j, z, Z, stop, n, g[n])
  BY <1>10
<1> QED BY <1>2, <1>11

LEMMA SearchAnswer ==
  ASSUME CxAnswersNumbers, NEW j, IsRequest(j), NEW x, NEW y, NEW p, p = TruePixel(j, x, y), IsPixel(p),
         NEW z, z = Orbit(j, p), NEW Z, NEW stop, NEW s, Searching(j, z, Z, stop, Points2(j), s), ~s.cancelled
  PROVE  s.extra = ReferencePairwise(j, x, y)
<1>1. PICK n : n = Points2(j)
  OBVIOUS
<1>2. n \in Nat /\ n <= j.iters /\ j.iters \in Nat
  BY <1>1, Requests DEF Points2
<1>3. /\ s.escaped \in BOOLEAN /\ s.i \in 0 .. n /\ IsClosest(z, s.i, s.extra)
      /\ ~s.escaped => Quiet(j, z, s.i) /\ s.i = n
      /\ s.escaped => s.i \in 1 .. n /\ Quiet(j, z, s.i - 1) /\ Escapes(j, z[s.i])
  BY <1>1, Zenon DEF Searching
<1>4. Last(j, z, n) = s.i
  <2> DEFINE out == {i \in 1 .. n : Escapes(j, z[i])}
  <2>1. CASE ~s.escaped
    <3>1. out = {}
      BY <1>3, <2>1 DEF Quiet
    <3> QED BY <1>3, <2>1, <3>1 DEF Last
  <2>2. CASE s.escaped
    <3>1. PICK e : e = s.i
      OBVIOUS
    <3>2. e \in 1 .. n /\ Quiet(j, z, e - 1) /\ Escapes(j, z[e])
      BY <1>3, <2>2, <3>1
    <3>3. e \in out /\ out \subseteq Int
      BY <3>2
    <3>4. \A i \in out : e <= i
      <4> SUFFICES ASSUME NEW i \in out, ~(e <= i) PROVE FALSE
        OBVIOUS
      <4>1. i \in 1 .. e - 1 /\ Escapes(j, z[i])
        BY <3>2
      <4> QED BY <3>2, <4>1 DEF Quiet
    <3>5. Least(out) = e
      <4> HIDE DEF out
      <4> QED BY <3>3, <3>4, LeastIs
    <3> QED BY <3>1, <3>3, <3>5 DEF Last
  <2> QED BY <1>3, <2>1, <2>2
<1>5. Least({Inf} \cup Apart(z, s.i)) = s.extra
  <2>1. \A i \in 1 .. s.i : IsValuePoint(z[i])
    <3>1. \A i \in 0 .. j.iters : IsValuePoint(z[i])
      BY OrbitIsNumbers
    <3> QED BY <1>2, <1>3, <3>1
  <2>2. \A e \in Apart(z, s.i) : e \in 0 .. Inf
    <3> SUFFICES ASSUME NEW q \in (1 .. s.i) \X (1 .. s.i), Distance2(z[q[1]], z[q[2]]) # NaN
                 PROVE  Distance2(z[q[1]], z[q[2]]) \in 0 .. Inf
      BY DEF Apart
    <3>1. q[1] \in 1 .. s.i /\ q[2] \in 1 .. s.i
      OBVIOUS
    <3>2. Distance2(z[q[1]], z[q[2]]) \in Distances
      BY <2>1, <3>1, DistancesAreValues
    <3> QED BY <3>2 DEF Distances
  <2>3. s.extra \in {Inf} \cup Apart(z, s.i) /\ \A e \in Apart(z, s.i) : s.extra <= e
    BY <1>3 DEF IsClosest
  <2>4. \A e \in {Inf} \cup Apart(z, s.i) : s.extra <= e
    BY <2>2, <2>3, Numbers
  <2>5. {Inf} \cup Apart(z, s.i) \subseteq Int
    BY <2>2, Numbers
  <2> QED BY <2>3, <2>4, <2>5, LeastIs
<1>6. ReferencePairwise(j, x, y) = Least({Inf} \cup Apart(z, Last(j, z, n)))
  BY <1>1 DEF ReferencePairwise, Apart, Points2
<1> QED BY <1>4, <1>5, <1>6

(* A loop that asked at every stride cannot have gone further than one     *)
(* stride beyond the stop.                                                 *)
LEMMA AskedInTime ==
  ASSUME NEW stop \in Nat, NEW i \in Nat, \A n \in 0 .. i - 1 : ~Asked(stop, n)
  PROVE  i < stop + CancelStride
<1>1. PICK u : u = CancelStride
  OBVIOUS
<1>2. u \in Nat \ {0} /\ stop # Never
  BY <1>1, HugeAssumption DEF Never
<1>3. PICK a : a = stop + u - 1
  OBVIOUS
<1>4. PICK q : q = a \div u
  OBVIOUS
<1>5. a \in Int /\ q \in Int /\ u * q <= a /\ a < u * q + u
  BY <1>2, <1>3, <1>4, Quotient
<1>6. PICK n : n = u * q
  OBVIOUS
<1>7. n \in Int
  BY <1>2, <1>5, <1>6, Products
<1>8. stop <= n /\ n < stop + u
  BY <1>2, <1>3, <1>5, <1>6, <1>7
<1>9. n % u = 0
  <2>1. u * q <= n /\ n < u * q + u
    BY <1>2, <1>6, <1>7
  <2>2. n % u = n - u * q
    BY <1>2, <1>5, <1>7, <2>1, RemainsIs, Zenon
  <2> QED BY <1>6, <1>7, <2>2
<1>10. Asked(stop, n)
  BY <1>1, <1>2, <1>8, <1>9 DEF Asked
<1>11. ~(n \in 0 .. i - 1)
  BY <1>10
<1> QED BY <1>1, <1>2, <1>7, <1>8, <1>11

Clean(j, r, x, y, stop) ==
  /\ r.complete =>
       IF j.cap > 0 THEN r.result = ReferencePairwise(j, x, y) ELSE Matches(r.result, Reference(j, x, y))
  /\ ~r.complete => stop # Never /\ r.at >= stop
  /\ stop # Never => r.at < stop + CancelStride

LEMMA FieldIsClean ==
  ASSUME NEW j, IsRequest(j), ~(j.cap > 0), NEW x, NEW y, NEW p, p = TruePixel(j, x, y),
         NEW stop, stop = Never \/ stop \in Nat,
         NEW r, r = iterate_field_cancellable(j, Start(j, p), Param(j, p), stop)
  PROVE  Clean(j, r, x, y, stop)
<1>1. PICK s : s = IF j.variant \in Quadratic THEN iterate_quadratic(j, Start(j, p), Param(j, p), stop)
                   ELSE iterate_transcendental(j, Start(j, p), Param(j, p), stop)
  OBVIOUS
<1>2. r = IF s.cancelled THEN [complete |-> FALSE, at |-> s.i]
          ELSE [complete |-> TRUE, at |-> s.i, result |-> Answer(s, j.iters)]
  BY <1>1 DEF iterate_field_cancellable
<1>3. Scalar(j, Orbit(j, p), stop, j.iters, s)
  BY <1>1, ScalarLoop
<1>4. /\ s.i \in 0 .. j.iters /\ \A n \in 0 .. s.i - 1 : ~Asked(stop, n)
      /\ s.cancelled => Asked(stop, s.i)
  BY <1>3, Zenon DEF Scalar
<1>5. s.i \in Nat
  BY <1>4, Requests
<1>6. stop # Never => s.i < stop + CancelStride
  BY <1>4, <1>5, AskedInTime
<1>7. CASE s.cancelled
  <2>1. r.complete = FALSE /\ r.at = s.i
    BY <1>2, <1>7
  <2>2. stop # Never /\ s.i >= stop
    BY <1>4, <1>7 DEF Asked
  <2> QED BY <1>6, <2>1, <2>2 DEF Clean
<1>8. CASE ~s.cancelled
  <2>1. r.complete = TRUE /\ r.at = s.i /\ r.result = Answer(s, j.iters)
    BY <1>2, <1>8
  <2>2. Matches(r.result, Reference(j, x, y))
    BY <1>1, <1>8, <2>1, ScalarAnswer
  <2> QED BY <1>6, <2>1, <2>2 DEF Clean
<1> QED BY <1>7, <1>8

LEMMA PairwiseIsClean ==
  ASSUME CxAnswersNumbers, NEW j, IsRequest(j), j.cap > 0, NEW x, NEW y, NEW p, p = TruePixel(j, x, y), IsPixel(p)
  PROVE  /\ iterate_pairwise(j, Start(j, p), Param(j, p)) = ReferencePairwise(j, x, y)
         /\ \A stop \in {Never} \cup Nat :
              Clean(j, iterate_pairwise_field_cancellable(j, Start(j, p), Param(j, p), stop), x, y, stop)
<1>1. Points2(j) \in Nat
  BY Requests DEF Points2
<1>2. ASSUME NEW stop \in {Never} \cup Nat
      PROVE  /\ Clean(j, iterate_pairwise_field_cancellable(j, Start(j, p), Param(j, p), stop), x, y, stop)
             /\ stop = Never => iterate_pairwise(j, Start(j, p), Param(j, p)) = ReferencePairwise(j, x, y)
  <2>1. PICK z : z = Orbit(j, p)
    OBVIOUS
  <2>2. PICK g : /\ Runs(g, SearchLoop(j, Param(j, p), stop), PairwiseStart(Start(j, p)), Points2(j))
                 /\ iterate_pairwise_field_cancellable(j, Start(j, p), Param(j, p), stop) =
                     LET s == g[Points2(j)] IN IF s.cancelled THEN [complete |-> FALSE, at |-> s.i]
                                               ELSE [complete |-> TRUE, at |-> s.i, result |-> s.extra]
                 /\ stop = Never => iterate_pairwise(j, Start(j, p), Param(j, p)) = g[Points2(j)].extra
    BY <1>1, SearchRuns
  <2>3. PICK s : s = g[Points2(j)]
    OBVIOUS
  <2>4. PICK r : r = iterate_pairwise_field_cancellable(j, Start(j, p), Param(j, p), stop)
    OBVIOUS
  <2>5. r = IF s.cancelled THEN [complete |-> FALSE, at |-> s.i]
            ELSE [complete |-> TRUE, at |-> s.i, result |-> s.extra]
    BY <2>2, <2>3, <2>4
  <2>6. PICK Z : Searching(j, z, Z, stop, Points2(j), s)
    BY <2>1, <2>2, <2>3, SearchEnds
  <2>7. /\ stop # Never => s.i <= stop
        /\ s.cancelled => stop # Never /\ s.i >= stop
        /\ s.i \in 0 .. Points2(j)
    BY <2>6, Zenon DEF Searching
  <2>8. stop # Never => s.i < stop + CancelStride
    BY <1>1, <2>7, HugeAssumption
  <2>9. ~s.cancelled => s.extra = ReferencePairwise(j, x, y)
    BY <2>1, <2>6, SearchAnswer
  <2>10. Clean(j, r, x, y, stop)
    <3>1. CASE s.cancelled
      <4>1. r.complete = FALSE /\ r.at = s.i
        BY <2>5, <3>1
      <4> QED BY <2>7, <2>8, <3>1, <4>1 DEF Clean
    <3>2. CASE ~s.cancelled
      <4>1. r.complete = TRUE /\ r.at = s.i /\ r.result = s.extra
        BY <2>5, <3>2
      <4> QED BY <2>8, <2>9, <3>2, <4>1 DEF Clean
    <3> QED BY <3>1, <3>2
  <2> QED BY <2>2, <2>3, <2>4, <2>7, <2>9, <2>10
<1> QED BY <1>2

LEMMA RenderCancellableIsClean == CxAnswersNumbers /\ KernelsInv /\ RenderCancellable => CancelIsClean'
<1> SUFFICES ASSUME CxAnswersNumbers, KernelsInv, RenderCancellable PROVE CancelIsClean'
  OBVIOUS
<1>1. IsRequest(job) /\ job.plane = "map" /\ job' = job
  BY JobsAssumption DEF KernelsInv, RenderCancellable
<1> DEFINE Run(x, y, stop) ==
             LET p == RowPixel(job, x, y) IN
             IF job.cap > 0 THEN iterate_pairwise_field_cancellable(job, Start(job, p), Param(job, p), stop)
             ELSE iterate_field_cancellable(job, Start(job, p), Param(job, p), stop)
<1>2. PICK y \in 0 .. job.height - 1, stop \in {Never} \cup 0 .. job.iters :
        image' = [kernel |-> "cancellable", y |-> y, stop |-> stop,
                  pixels |-> [x \in job.from .. job.to - 1 |-> Run(x, y, stop)]]
  BY DEF RenderCancellable
<1>3. PICK row : row = [x \in job.from .. job.to - 1 |-> Run(x, y, stop)]
  OBVIOUS
<1>4. /\ image'.kernel = "cancellable" /\ image'.y = y /\ image'.stop = stop /\ image'.pixels = row
      /\ DOMAIN row = job.from .. job.to - 1
  BY <1>2, <1>3
<1>5. ASSUME NEW x \in job.from .. job.to - 1 PROVE Clean(job, row[x], x, y, stop)
  <2>1. x \in 0 .. job.width - 1 /\ x \in Int /\ y \in Int
    BY <1>1, Requests
  <2>2. PICK p : p = TruePixel(job, x, y)
    OBVIOUS
  <2>3. RowPixel(job, x, y) = p /\ IsPixel(p)
    BY <1>1, <2>1, <2>2, MapGridsAgree, PixelsAreValues
  <2>4. row[x] = IF job.cap > 0 THEN iterate_pairwise_field_cancellable(job, Start(job, p), Param(job, p), stop)
                 ELSE iterate_field_cancellable(job, Start(job, p), Param(job, p), stop)
    BY <1>3, <2>3
  <2>5. stop \in {Never} \cup Nat
    OBVIOUS
  <2>6. CASE job.cap > 0
    BY <1>1, <2>2, <2>3, <2>4, <2>5, <2>6, PairwiseIsClean
  <2>7. CASE ~(job.cap > 0)
    BY <1>1, <2>2, <2>4, <2>5, <2>7, FieldIsClean
  <2> QED BY <2>6, <2>7
<1> HIDE DEF Run
<1>6. \A x \in DOMAIN image'.pixels : Clean(job', image'.pixels[x], x, image'.y, image'.stop)
  BY <1>1, <1>4, <1>5
<1>7. image'.kernel # "pairwise"
  BY <1>4
<1> QED BY <1>6, <1>7 DEF CancelIsClean, Clean

LEMMA RenderPairwiseIsClean == CxAnswersNumbers /\ KernelsInv /\ RenderPairwise => CancelIsClean'
<1> SUFFICES ASSUME CxAnswersNumbers, KernelsInv, RenderPairwise PROVE CancelIsClean'
  OBVIOUS
<1>1. IsRequest(job) /\ job.plane = "map" /\ job.cap > 0
  BY JobsAssumption DEF KernelsInv, RenderPairwise
<1> DEFINE Run(x, y) == LET p == RowPixel(job, x, y) IN iterate_pairwise(job, Start(job, p), Param(job, p))
<1>2. PICK y \in 0 .. job.height - 1 : Wrote("pairwise", y, [x \in job.from .. job.to - 1 |-> Run(x, y)])
  BY DEF RenderPairwise
<1>3. PICK row : row = [x \in job.from .. job.to - 1 |-> Run(x, y)]
  OBVIOUS
<1>4. /\ image'.kernel = "pairwise" /\ image'.y = y /\ image'.pixels = row /\ job' = job
      /\ DOMAIN row = job.from .. job.to - 1
  BY <1>2, <1>3 DEF Wrote
<1>5. ASSUME NEW x \in job.from .. job.to - 1 PROVE row[x] = ReferencePairwise(job, x, y)
  <2>1. x \in 0 .. job.width - 1 /\ x \in Int /\ y \in Int
    BY <1>1, Requests
  <2>2. PICK p : p = TruePixel(job, x, y)
    OBVIOUS
  <2>3. RowPixel(job, x, y) = p /\ IsPixel(p)
    BY <1>1, <2>1, <2>2, MapGridsAgree, PixelsAreValues
  <2>4. row[x] = iterate_pairwise(job, Start(job, p), Param(job, p))
    BY <1>3, <2>3
  <2> QED BY <1>1, <2>2, <2>3, <2>4, PairwiseIsClean
<1> HIDE DEF Run
<1> QED BY <1>4, <1>5 DEF CancelIsClean

(* A loop with a cancel probe that gives up was told to, and within one    *)
(* stride of that; one that finishes has what the orbit says.  A pairwise  *)
(* field is the least distance of any two points of the orbit, however     *)
(* they are searched.  For every request, moment of the stop and stride,   *)
(* the complex functions answering numbers.                                *)
THEOREM CancelStaysClean ==
  ASSUME CxAnswersNumbers
  PROVE  Spec => []CancelIsClean
<1> DEFINE Inv == KernelsInv /\ CancelIsClean
<1>1. Init => Inv
  BY DEF Init, KernelsInv, KernelsAgree, CancelIsClean, Nothing
<1>2. Inv /\ [Next]_vars => Inv'
  <2> SUFFICES ASSUME Inv, [Next]_vars PROVE Inv'
    OBVIOUS
  <2>1. KernelsInv'
    BY KernelsInvIsInductive
  <2>2. CASE RenderMapRow
    <3>1. image'.kernel \in DOMAIN MapRowKernels
      BY <2>2 DEF RenderMapRow, Wrote
    <3>2. image'.kernel \notin {"cancellable", "pairwise"}
      BY <3>1 DEF MapRowKernels
    <3> QED BY <2>1, <3>2 DEF CancelIsClean
  <2>3. CASE RenderLnRow
    <3>1. image'.kernel \in DOMAIN LnRowKernels
      BY <2>3 DEF RenderLnRow, WroteCounts, Wrote
    <3>2. image'.kernel \notin {"cancellable", "pairwise"}
      BY <3>1 DEF LnRowKernels
    <3> QED BY <2>1, <3>2 DEF CancelIsClean
  <2>4. CASE RenderMapThreads \/ RenderMapScalar
    <3>1. image'.kernel \in {"gpu_fp64", "gpu_fp32", "gpu_field_fp64", "gpu_field_fp32", "scalar"}
      BY <2>4 DEF RenderMapThreads, RenderMapScalar, Wrote
    <3> QED BY <2>1, <3>1 DEF CancelIsClean
  <2>5. CASE RenderLnThreads \/ RenderLnScalar
    <3>1. image'.kernel \in {"gpu_fp64", "gpu_fp32", "gpu_iters_fp64", "gpu_iters_fp32",
                             "openmp", "raw_counts", "sample_fp64", "sample_fp32"}
      BY <2>5 DEF RenderLnThreads, RenderLnScalar, WroteCounts, Wrote
    <3> QED BY <2>1, <3>1 DEF CancelIsClean
  <2>6. CASE RenderCancellable
    BY <2>1, <2>6, RenderCancellableIsClean
  <2>7. CASE RenderPairwise
    BY <2>1, <2>7, RenderPairwiseIsClean
  <2>8. CASE UNCHANGED vars
    BY <2>1, <2>8 DEF CancelIsClean, vars
  <2> QED BY <2>2, <2>3, <2>4, <2>5, <2>6, <2>7, <2>8 DEF Next
<1>3. Inv => CancelIsClean
  OBVIOUS
<1> HIDE DEF Inv
<1> QED BY <1>1, <1>2, <1>3, PTL DEF Spec

-----------------------------------------------------------------------------
(* Slices.  The numbers of a leg: zero and one are neutral, products have  *)
(* the sign and the magnitude of their factors'.                           *)
LEMMA NeutralNumbers ==
  \A a \in Values : Add(a, 0) = a /\ Add(0, a) = a /\ Mul(1, a) = a
<1> SUFFICES ASSUME NEW a \in Values PROVE Add(a, 0) = a /\ Add(0, a) = a /\ Mul(1, a) = a
  OBVIOUS
<1>1. a \in Int /\ 1 * a = a /\ a + 0 = a /\ 0 + a = a
  BY Numbers
<1>2. Add(a, 0) = a /\ Add(0, a) = a
  BY <1>1, Numbers DEF Add, Round, Values
<1>3. Mul(1, a) = a
  <2>1. CASE a = NaN
    BY <2>1 DEF Mul
  <2>2. CASE a # NaN
    <3>1. ~(0 \in {1, a} /\ ~(Finite(1) /\ Finite(a)))
      BY Numbers
    <3>2. Mul(1, a) = Round(1 * a)
      BY <2>2, <3>1, Numbers DEF Mul
    <3> QED BY <1>1, <2>2, <3>2, Numbers DEF Round, Values
  <2> QED BY <2>1, <2>2
<1> QED BY <1>2, <1>3

LEMMA ProductsCommute ==
  \A a, b \in Values : Mul(a, b) = Mul(b, a)
<1> SUFFICES ASSUME NEW a \in Values, NEW b \in Values PROVE Mul(a, b) = Mul(b, a)
  OBVIOUS
<1>1. a * b = b * a
  BY Numbers, Products
<1> QED BY <1>1 DEF Mul

LEMMA DoubledNegative ==
  \A a \in Values : Mul(-2, a) = Neg(Mul(2, a))
<1> SUFFICES ASSUME NEW a \in Values PROVE Mul(-2, a) = Neg(Mul(2, a))
  OBVIOUS
<1>1. 2 \in Values /\ Neg(2) = -2 /\ -2 \in Values
  BY Numbers, HugeAssumption DEF Values, Neg
<1> QED BY <1>1, NegatedProduct, ProductsCommute

LEMMA NegTwice ==
  \A a \in Values : Neg(Neg(a)) = a /\ Magnitude(Neg(a)) = Magnitude(a)
                    /\ Magnitude(a) \in {a, Neg(a)} /\ Magnitude(a) \in Values
  BY Numbers DEF Neg, Magnitude, Values

LEMMA MagnitudeOfProduct ==
  \A a, b \in Values : Magnitude(Mul(a, b)) = Mul(Magnitude(a), Magnitude(b))
<1> SUFFICES ASSUME NEW a \in Values, NEW b \in Values
             PROVE  Magnitude(Mul(a, b)) = Mul(Magnitude(a), Magnitude(b))
  OBVIOUS
<1>1. ASSUME NEW p \in Values, NEW q \in Values, p >= 0, q >= 0
      PROVE  Magnitude(Mul(p, q)) = Mul(p, q)
  <2>1. p \in Int /\ q \in Int /\ p * q \in Int /\ p * q >= 0
    BY <1>1, Numbers, Products
  <2>2. PICK n : n = p * q
    OBVIOUS
  <2>3. Mul(p, q) = NaN \/ Mul(p, q) = Round(n)
    BY <2>2 DEF Mul
  <2> QED BY <2>1, <2>2, <2>3, Numbers DEF Magnitude, Round
<1>2. PICK p, q : p = Magnitude(a) /\ q = Magnitude(b)
  OBVIOUS
<1>3. p \in Values /\ q \in Values /\ p >= 0 /\ q >= 0
  BY <1>2, Numbers DEF Magnitude, Values
<1>4. Mul(a, b) \in {Mul(p, q), Neg(Mul(p, q))}
  <2>1. a \in {p, Neg(p)} /\ b \in {q, Neg(q)}
    BY <1>2, Numbers DEF Magnitude, Neg, Values
  <2>2. Neg(p) \in Values /\ Neg(q) \in Values
    BY <1>3, Numbers DEF Neg, Values
  <2>3. Mul(Neg(p), q) = Neg(Mul(p, q)) /\ Mul(p, Neg(q)) = Neg(Mul(p, q))
    BY <1>3, <2>2, NegatedProduct, ProductsCommute
  <2>4. Mul(Neg(p), Neg(q)) = Neg(Neg(Mul(p, q)))
    BY <1>3, <2>2, <2>3, NegatedProduct
  <2>5. Neg(Neg(Mul(p, q))) = Mul(p, q)
    BY <1>3, ProductsAreValues, NegTwice
  <2> QED BY <2>1, <2>3, <2>4, <2>5
<1>5. Mul(p, q) \in Values
  BY <1>3, ProductsAreValues
<1>6. Magnitude(Mul(a, b)) = Magnitude(Mul(p, q))
  BY <1>4, <1>5, NegTwice
<1> QED BY <1>1, <1>2, <1>3, <1>6

(* Every copy of the projections is the variant's own folding.             *)
Copies == {"openmp", "scalar", "avx2", "cuda_fp64", "cuda_fp32", "volume", "volume_avx2", "volume_cuda"}
RealIs(v, x2, a2) == Fold(variant_step[v][3], Add(x2, Neg(a2)))
ImagIs(v, x, a) ==
  Fold(variant_step[v][4], Mul(2, Mul(Fold(variant_step[v][1], x), Fold(variant_step[v][2], a))))

LEMMA FlaggedRealIs ==
  \A v \in Quadratic : \A x2, a2 : FlaggedReal({5, 6, 7, 8, 9}, v, x2, a2) = RealIs(v, x2, a2)
<1> SUFFICES ASSUME NEW v \in Quadratic, NEW x2, NEW a2
             PROVE  FlaggedReal({5, 6, 7, 8, 9}, v, x2, a2) = RealIs(v, x2, a2)
  OBVIOUS
<1>1. v \in {0, 1, 2, 3, 4, 5, 6, 7, 8, 9}
  BY DEF Quadratic
<1>2. variant_step[v][3] = IF v \in {5, 6, 7, 8, 9} THEN "|" ELSE "+"
  BY <1>1 DEF variant_step, Quadratic
<1>3. PICK q : q = Add(x2, Neg(a2))
  OBVIOUS
<1> QED BY <1>2, <1>3 DEF FlaggedReal, RealIs, Fold

LEMMA RealCopies ==
  ASSUME NEW copy \in Copies, NEW v \in Quadratic, NEW x2, NEW a2
  PROVE  SliceReal(copy, v, x2, a2) = RealIs(v, x2, a2)
<1>1. variant_transition_real_projection(v, x2, a2) = RealIs(v, x2, a2)
  <2>1. v \in {0, 1, 2, 3, 4, 5, 6, 7, 8, 9}
    BY DEF Quadratic
  <2>2. variant_step[v][3] = IF v \in {5, 6, 7, 8, 9} THEN "|" ELSE "+"
    BY <2>1 DEF variant_step, Quadratic
  <2> QED BY <2>2 DEF variant_transition_real_projection, RealIs
<1>2. SliceReal(copy, v, x2, a2) \in
        {FlaggedReal({5, 6, 7, 8, 9}, v, x2, a2), variant_transition_real_projection(v, x2, a2)}
  BY DEF SliceReal, Copies, transition_real_projection_s, real_projection_pd, real_projection_d,
         real_projection_f, transition_real_projection_f32, real_projection_ps, volume_real_projection,
         fold_rules, volume_fold_rules
<1> QED BY <1>1, <1>2, FlaggedRealIs

(* The three ways to fold the mixed product.                               *)
Flagged(v, x, a) == FlaggedImag({2, 4, 7, 9}, {2, 3, 7, 8}, {1, 4, 6, 9}, v, x, a)

LEMMA FlaggedImagIs ==
  ASSUME NEW v \in Quadratic, NEW x \in Values, NEW a \in Values
  PROVE  Flagged(v, x, a) = ImagIs(v, x, a)
<1>1. v \in {0, 1, 2, 3, 4, 5, 6, 7, 8, 9}
  BY DEF Quadratic
<1>2. PICK p, b : p = Magnitude(x) /\ b = Magnitude(a)
  OBVIOUS
<1>3. p \in Values /\ b \in Values
  BY <1>2, NegTwice
<1>4. /\ Mul(x, a) \in Values /\ Mul(p, a) \in Values /\ Mul(x, b) \in Values /\ Mul(p, b) \in Values
      /\ 2 \in Values /\ Magnitude(2) = 2
  BY <1>3, ProductsAreValues, Numbers DEF Values, Magnitude
<1>5. Mul(p, Neg(a)) = Neg(Mul(p, a)) /\ Mul(2, Neg(Mul(p, a))) = Neg(Mul(2, Mul(p, a)))
  BY <1>3, <1>4, NegatedProduct
<1>6. Magnitude(Mul(2, Mul(x, a))) = Mul(2, Mul(p, b))
  BY <1>2, <1>4, MagnitudeOfProduct
<1>7. PICK f : f = variant_step[v]
  OBVIOUS
<1>8. CASE v \in {0, 5}
  <2>1. f[1] = "+" /\ f[2] = "+" /\ f[4] = "+"
    BY <1>7, <1>8 DEF variant_step, Quadratic
  <2> QED BY <1>7, <1>8, <2>1 DEF Flagged, FlaggedImag, ImagIs, Fold
<1>9. CASE v \in {1, 6}
  <2>1. f[1] = "+" /\ f[2] = "+" /\ f[4] = "-"
    BY <1>7, <1>9 DEF variant_step, Quadratic
  <2> QED BY <1>7, <1>9, <2>1 DEF Flagged, FlaggedImag, ImagIs, Fold
<1>10. CASE v = 2
  <2>1. f[1] = "|" /\ f[2] = "|" /\ f[4] = "+"
    BY <1>7, <1>10 DEF variant_step, Quadratic
  <2> QED BY <1>7, <1>10, <2>1 DEF Flagged, FlaggedImag, ImagIs, Fold
<1>11. CASE v \in {3, 8}
  <2>1. f[1] = "+" /\ f[2] = "|" /\ f[4] = "+"
    BY <1>7, <1>11 DEF variant_step, Quadratic
  <2> QED BY <1>7, <1>11, <2>1 DEF Flagged, FlaggedImag, ImagIs, Fold
<1>12. CASE v = 4
  <2>1. f[1] = "|" /\ f[2] = "-" /\ f[4] = "+"
    BY <1>7, <1>12 DEF variant_step, Quadratic
  <2>2. ImagIs(v, x, a) = Mul(2, Mul(p, Neg(a)))
    BY <1>2, <1>7, <2>1 DEF ImagIs, Fold
  <2>3. Flagged(v, x, a) = Neg(Mul(2, Mul(p, a)))
    BY <1>2, <1>12 DEF Flagged, FlaggedImag
  <2> QED BY <1>5, <2>2, <2>3
<1>13. CASE v = 7
  <2>1. f[1] = "+" /\ f[2] = "+" /\ f[4] = "|"
    BY <1>7, <1>13 DEF variant_step, Quadratic
  <2>2. ImagIs(v, x, a) = Magnitude(Mul(2, Mul(x, a)))
    BY <1>7, <2>1 DEF ImagIs, Fold
  <2>3. Flagged(v, x, a) = Mul(2, Mul(p, b))
    BY <1>2, <1>13 DEF Flagged, FlaggedImag
  <2> QED BY <1>6, <2>2, <2>3
<1>14. CASE v = 9
  <2>1. f[1] = "|" /\ f[2] = "+" /\ f[4] = "-"
    BY <1>7, <1>14 DEF variant_step, Quadratic
  <2> QED BY <1>7, <1>14, <2>1 DEF Flagged, FlaggedImag, ImagIs, Fold
<1> QED BY <1>1, <1>8, <1>9, <1>10, <1>11, <1>12, <1>13, <1>14

LEMMA ImagCopies ==
  ASSUME NEW copy \in Copies, NEW v \in Quadratic, NEW x \in Values, NEW a \in Values
  PROVE  SliceImag(copy, v, x, a) = ImagIs(v, x, a)
<1>1. v \in {0, 1, 2, 3, 4, 5, 6, 7, 8, 9}
  BY DEF Quadratic
<1>2. PICK p, b : p = Magnitude(x) /\ b = Magnitude(a)
  OBVIOUS
<1>3. p \in Values /\ b \in Values /\ 2 \in Values
  BY <1>2, NegTwice, Numbers DEF Values
<1>4. /\ Mul(x, a) \in Values /\ Mul(p, a) \in Values /\ Mul(x, b) \in Values /\ Mul(p, b) \in Values
  BY <1>3, ProductsAreValues
<1>5. /\ Mul(-2, Mul(x, a)) = Neg(Mul(2, Mul(x, a))) /\ Mul(2, Neg(Mul(x, a))) = Neg(Mul(2, Mul(x, a)))
      /\ Mul(-2, Mul(p, a)) = Neg(Mul(2, Mul(p, a))) /\ Mul(2, Neg(Mul(p, a))) = Neg(Mul(2, Mul(p, a)))
      /\ Magnitude(Mul(x, a)) = Mul(p, b)
  BY <1>2, <1>3, <1>4, NegatedProduct, DoubledNegative, MagnitudeOfProduct
<1>6. Flagged(v, x, a) = CASE v \in {1, 6} -> Neg(Mul(2, Mul(x, a)))
                           [] v \in {2, 7} -> Mul(2, Mul(p, b))
                           [] v \in {3, 8} -> Mul(2, Mul(x, b))
                           [] v \in {4, 9} -> Neg(Mul(2, Mul(p, a)))
                           [] OTHER -> Mul(2, Mul(x, a))
  BY <1>1, <1>2 DEF Flagged, FlaggedImag
<1>7. variant_transition_imag_projection(v, x, a) = Flagged(v, x, a)
  BY <1>1, <1>2, <1>5, <1>6 DEF variant_transition_imag_projection
<1>8. transition_imag_projection_s(v, x, a) = Flagged(v, x, a)
  BY <1>1, <1>2, <1>5, <1>6 DEF transition_imag_projection_s
<1>9. {2, 3, 8, 7} = {2, 3, 7, 8}
  OBVIOUS
<1>10. SliceImag(copy, v, x, a) \in
         {Flagged(v, x, a), variant_transition_imag_projection(v, x, a), transition_imag_projection_s(v, x, a)}
  BY <1>9 DEF SliceImag, Copies, Flagged, imag_projection_pd, imag_projection_d, imag_projection_f,
         transition_imag_projection_f32, imag_projection_ps, volume_imag_projection,
         fold_rules, volume_fold_rules
<1> QED BY <1>7, <1>8, <1>10, FlaggedImagIs

-----------------------------------------------------------------------------
(* Sums over the legs.                                                     *)
LEMMA SumRecurs ==
  ASSUME NEW n \in Nat, NEW t \in [1 .. n -> Values]
  PROVE  \E s \in [0 .. n -> Values] :
           s[0] = 0 /\ (\A k \in 1 .. n : s[k] = Add(s[k - 1], t[k])) /\ SumOver(n, t) = s[n]
<1> DEFINE b == [p \in Nat \X Values |-> IF p[1] \in 1 .. n THEN Add(p[2], t[p[1]]) ELSE 0]
<1>1. 0 \in Values
  BY Numbers DEF Values
<1>2. b \in [Nat \X Values -> Values]
  BY <1>1, SumsAreValues
<1>3. PICK f \in [0 .. n -> Values] : Recurs(f, 0, b, n)
  <2> HIDE DEF b
  <2> QED BY <1>1, <1>2, Recursion
<1>4. f[0] = 0 /\ \A k \in 1 .. n : f[k] = Add(f[k - 1], t[k])
  <2>1. ASSUME NEW k \in 1 .. n PROVE f[k] = Add(f[k - 1], t[k])
    <3>1. f[k] = b[<<k, f[k - 1]>>]
      BY <1>3 DEF Recurs
    <3>2. k \in Nat /\ f[k - 1] \in Values
      OBVIOUS
    <3> QED BY <3>1, <3>2
  <2> QED BY <1>3, <2>1 DEF Recurs
<1> HIDE DEF b
<1>5. f = [k \in 0 .. n |-> IF k = 0 THEN 0 ELSE Add(f[k - 1], t[k])]
  <2>1. f = [k \in 0 .. n |-> f[k]]
    OBVIOUS
  <2>2. \A k \in 0 .. n : f[k] = IF k = 0 THEN 0 ELSE Add(f[k - 1], t[k])
    BY <1>4
  <2> QED BY <2>1, <2>2
<1>6. PICK s : s = CHOOSE g : g = [k \in 0 .. n |-> IF k = 0 THEN 0 ELSE Add(g[k - 1], t[k])]
  OBVIOUS
<1>7. s = [k \in 0 .. n |-> IF k = 0 THEN 0 ELSE Add(s[k - 1], t[k])]
  BY <1>5, <1>6
<1>8. SumOver(n, t) = s[n]
  BY <1>6 DEF SumOver
<1>9. s[0] = 0 /\ \A k \in 1 .. n : s[k] = Add(s[k - 1], t[k])
  BY <1>7
<1>10. \A k \in 0 .. n : k \in {m \in 0 .. n : s[m] = f[m]}
  <2> DEFINE T == {m \in 0 .. n : s[m] = f[m]}
  <2>1. 0 \in T
    BY <1>4, <1>9
  <2>2. \A k \in 1 .. n : k - 1 \in T => k \in T
    BY <1>4, <1>9
  <2> HIDE DEF T
  <2>3. \A k \in 0 .. n : k \in T
    BY <2>1, <2>2, UpTo
  <2> QED BY <2>3 DEF T
<1>11. n \in 0 .. n
  OBVIOUS
<1> QED BY <1>4, <1>8, <1>10, <1>11

LEMMA SumsOverAreValues ==
  ASSUME NEW n \in Nat, NEW t \in [1 .. n -> Values]
  PROVE  SumOver(n, t) \in Values
<1>1. n \in 0 .. n
  OBVIOUS
<1> QED BY <1>1, SumRecurs

(* A sum of squares: an infinite term outweighs the finite ones, NaN all.  *)
LEMMA DistanceSums ==
  ASSUME NEW a \in Distances, NEW b \in Distances
  PROVE  /\ Add(a, b) \in Distances /\ (Add(a, b) = NaN <=> a = NaN \/ b = NaN)
         /\ a = Inf \/ b = Inf => Add(a, b) \in {Inf, NaN}
  BY Numbers DEF Distances, Add, Round

LEMMA SumOfSquares ==
  ASSUME NEW n \in Nat, NEW t \in [1 .. n -> Distances]
  PROVE  /\ SumOver(n, t) \in Distances
         /\ SumOver(n, t) = NaN <=> \E k \in 1 .. n : t[k] = NaN
         /\ (\E k \in 1 .. n : t[k] = Inf) => SumOver(n, t) \in {Inf, NaN}
<1>1. \A a \in Distances : a \in Values
  BY Numbers DEF Distances, Values
<1>2. t \in [1 .. n -> Values]
  BY <1>1
<1>3. PICK s \in [0 .. n -> Values] :
        s[0] = 0 /\ (\A k \in 1 .. n : s[k] = Add(s[k - 1], t[k])) /\ SumOver(n, t) = s[n]
  BY <1>2, SumRecurs
<1> DEFINE Good(m) == /\ s[m] \in Distances
                      /\ s[m] = NaN <=> \E k \in 1 .. m : t[k] = NaN
                      /\ (\E k \in 1 .. m : t[k] = Inf) => s[m] \in {Inf, NaN}
           T == {m \in 0 .. n : Good(m)}
<1>4. 0 \in T
  BY <1>3, Numbers DEF Distances
<1>5. ASSUME NEW m \in 1 .. n, m - 1 \in T PROVE m \in T
  <2>1. Good(m - 1) /\ s[m] = Add(s[m - 1], t[m]) /\ t[m] \in Distances
    BY <1>3, <1>5
  <2>2. 1 .. m = (1 .. m - 1) \cup {m}
    OBVIOUS
  <2>3. PICK a, b : a = s[m - 1] /\ b = t[m]
    OBVIOUS
  <2>4. /\ s[m] \in Distances /\ (s[m] = NaN <=> a = NaN \/ b = NaN)
        /\ a = Inf \/ b = Inf => s[m] \in {Inf, NaN}
    BY <2>1, <2>3, DistanceSums
  <2>5. s[m] = NaN <=> \E k \in 1 .. m : t[k] = NaN
    BY <2>1, <2>2, <2>3, <2>4
  <2>6. (\E k \in 1 .. m : t[k] = Inf) => s[m] \in {Inf, NaN}
    BY <2>1, <2>2, <2>3, <2>4
  <2> QED BY <2>4, <2>5, <2>6
<1>6. \A m \in 0 .. n : m \in T
  <2> HIDE DEF T
  <2> QED BY <1>4, <1>5, UpTo
<1>7. Good(n)
  BY <1>6
<1> QED BY <1>3, <1>7

-----------------------------------------------------------------------------
(* Points of a slice and their norms.                                      *)
Vectors(n) == [x : Values, axis : [1 .. n -> Values]]
NoNaN(z) == z.x # NaN /\ \A k \in DOMAIN z.axis : z.axis[k] # NaN

LEMMA SquareIs ==
  \A a \in Values : /\ Mul(a, a) \in Distances /\ (Mul(a, a) = NaN <=> a = NaN)
                    /\ ~Finite(a) => Mul(a, a) \in {Inf, NaN}
<1> SUFFICES ASSUME NEW a \in Values
             PROVE  /\ Mul(a, a) \in Distances /\ (Mul(a, a) = NaN <=> a = NaN)
                    /\ ~Finite(a) => Mul(a, a) \in {Inf, NaN}
  OBVIOUS
<1>1. a = NaN => Mul(a, a) = NaN
  BY DEF Mul
<1>2. ASSUME a # NaN PROVE Mul(a, a) # NaN
  <2>1. a * a \in Int /\ ~(0 \in {a, a} /\ ~(Finite(a) /\ Finite(a)))
    BY Numbers, Products
  <2>2. Mul(a, a) = Round(a * a)
    BY <1>2, <2>1 DEF Mul
  <2>3. PICK n : n = a * a
    OBVIOUS
  <2> QED BY <2>1, <2>2, <2>3, RoundsToValue
<1> QED BY <1>1, <1>2, SquareOf DEF Distances

LEMMA VectorParts ==
  ASSUME NEW n \in Nat, NEW z \in Vectors(n)
  PROVE  /\ z.x \in Values /\ z.axis \in [1 .. n -> Values] /\ Len(z.axis) = n /\ DOMAIN z.axis = 1 .. n
         /\ z = [x |-> z.x, axis |-> z.axis]
<1>1. z.x \in Values /\ z.axis \in [1 .. n -> Values] /\ z = [x |-> z.x, axis |-> z.axis]
  BY DEF Vectors
<1>2. z.axis \in Seq(Values) /\ DOMAIN z.axis = 1 .. n
  BY <1>1
<1> QED BY <1>1, <1>2

LEMMA NormOfVector ==
  ASSUME NEW n \in Nat, NEW z \in Vectors(n)
  PROVE  /\ SliceNorm(z) \in Distances
         /\ AllFinite(z) => SliceNorm(z) \in 0 .. Inf
         /\ ~AllFinite(z) => SliceNorm(z) \in {Inf, NaN}
         /\ NoNaN(z) => SliceNorm(z) = TrueSize(z)
         /\ TrueSize(z) \in 0 .. Inf
<1>1. z.x \in Values /\ z.axis \in [1 .. n -> Values] /\ Len(z.axis) = n /\ DOMAIN z.axis = 1 .. n
  BY VectorParts
<1>2. PICK t : t = [k \in 1 .. n |-> Mul(z.axis[k], z.axis[k])]
  OBVIOUS
<1>3. PICK a, b : a = Mul(z.x, z.x) /\ b = SumOver(n, t)
  OBVIOUS
<1>4. t \in [1 .. n -> Distances]
  BY <1>1, <1>2, SquareIs
<1>5. /\ b \in Distances /\ (b = NaN <=> \E k \in 1 .. n : t[k] = NaN)
      /\ (\E k \in 1 .. n : t[k] = Inf) => b \in {Inf, NaN}
  BY <1>3, <1>4, SumOfSquares
<1>6. /\ a \in Distances /\ (a = NaN <=> z.x = NaN) /\ (~Finite(z.x) => a \in {Inf, NaN})
  BY <1>1, <1>3, SquareIs
<1>7. SliceNorm(z) = Add(a, b)
  BY <1>1, <1>2, <1>3 DEF SliceNorm
<1>8. /\ Add(a, b) \in Distances /\ (Add(a, b) = NaN <=> a = NaN \/ b = NaN)
      /\ a = Inf \/ b = Inf => Add(a, b) \in {Inf, NaN}
  BY <1>5, <1>6, DistanceSums
<1>9. NoNaN(z) <=> a # NaN /\ b # NaN
  <2>1. \A k \in 1 .. n : t[k] = NaN <=> z.axis[k] = NaN
    BY <1>1, <1>2, SquareIs
  <2> QED BY <1>1, <1>5, <1>6, <2>1 DEF NoNaN
<1>10. ASSUME ~AllFinite(z) PROVE Add(a, b) \in {Inf, NaN}
  <2>1. CASE ~Finite(z.x)
    BY <1>6, <1>8, <2>1
  <2>2. CASE Finite(z.x)
    <3>1. PICK k \in 1 .. n : ~Finite(z.axis[k])
      BY <1>1, <1>10, <2>2 DEF AllFinite
    <3>2. t[k] \in {Inf, NaN}
      BY <1>1, <1>2, <3>1, SquareIs
    <3> QED BY <1>5, <1>8, <3>2
  <2> QED BY <2>1, <2>2
<1>11. AllFinite(z) => NoNaN(z)
  <2>1. ~Finite(NaN)
    BY Numbers
  <2> QED BY <2>1 DEF AllFinite, NoNaN
<1>12. AllFinite(z) => SliceNorm(z) \in 0 .. Inf
  BY <1>7, <1>8, <1>9, <1>11 DEF Distances
<1>13. NoNaN(z) => SliceNorm(z) = TrueSize(z)
  BY <1>7, <1>8, <1>9, <1>10 DEF TrueSize
<1>14. TrueSize(z) \in 0 .. Inf
  BY <1>12, Numbers DEF TrueSize
<1> QED BY <1>7, <1>8, <1>10, <1>12, <1>13, <1>14

-----------------------------------------------------------------------------
(* A step of any copy is the step of the reference.                        *)
IsLegs(n, legs) ==
  /\ DOMAIN legs = 1 .. n /\ Len(legs) = n
  /\ \A k \in 1 .. n : legs[k].variant \in Quadratic /\ legs[k].influence = 1

LEMMA LegsCount ==
  ASSUME NEW n \in Nat, n <= Huge, NEW t, t = [k \in 1 .. n |-> 1]
  PROVE  SumOver(n, t) = n
<1>1. 1 \in Values
  BY Numbers DEF Values
<1>2. t \in [1 .. n -> Values]
  BY <1>1
<1>3. PICK s \in [0 .. n -> Values] :
        s[0] = 0 /\ (\A k \in 1 .. n : s[k] = Add(s[k - 1], t[k])) /\ SumOver(n, t) = s[n]
  BY <1>2, SumRecurs
<1> DEFINE T == {m \in 0 .. n : s[m] = m}
<1>4. 0 \in T
  BY <1>3
<1>5. ASSUME NEW m \in 1 .. n, m - 1 \in T PROVE m \in T
  <2>1. s[m] = Add(m - 1, 1)
    BY <1>3, <1>5
  <2>2. PICK a : a = m - 1
    OBVIOUS
  <2>3. a \in Int /\ 0 <= a /\ a + 1 = m /\ m <= Huge
    BY <2>2, Numbers
  <2>4. a \notin {Inf, -Inf, NaN} /\ 1 \notin {Inf, -Inf, NaN}
    BY <2>3, Numbers
  <2>5. Add(a, 1) = Round(m)
    BY <2>3, <2>4 DEF Add
  <2>6. Round(m) = m
    BY <2>3, Numbers DEF Round
  <2> QED BY <2>1, <2>2, <2>5, <2>6
<1>6. \A m \in 0 .. n : m \in T
  <2> HIDE DEF T
  <2> QED BY <1>4, <1>5, UpTo
<1>7. s[n] = n
  BY <1>6
<1> QED BY <1>3, <1>7

LEMMA LegMoveIs ==
  ASSUME NEW n \in Nat, NEW l, l.variant \in Quadratic, NEW z \in Vectors(n), NEW k \in 1 .. n
  PROVE  /\ LegMove(l, z, k).re = RealIs(l.variant, Mul(z.x, z.x), Mul(z.axis[k], z.axis[k]))
         /\ LegMove(l, z, k).im = ImagIs(l.variant, z.x, z.axis[k])
         /\ LegMove(l, z, k).re \in Values /\ LegMove(l, z, k).im \in Values
<1>1. z.x \in Values /\ z.axis[k] \in Values
  BY VectorParts
<1>2. PICK f : f = variant_step[l.variant]
  OBVIOUS
<1>3. f[1] \in Signs /\ f[2] \in Signs /\ f[3] \in Signs /\ f[4] \in Signs
  <2>1. f \in Folding
    BY <1>2, TablesAreTyped DEF StepTables
  <2> QED BY <2>1 DEF Folding
<1>4. 2 \in Values
  BY Numbers DEF Values
<1>5. PICK re, im : re = RealIs(l.variant, Mul(z.x, z.x), Mul(z.axis[k], z.axis[k]))
                    /\ im = ImagIs(l.variant, z.x, z.axis[k])
  OBVIOUS
<1>6. re \in Values
  BY <1>1, <1>2, <1>3, <1>5, ProductsAreValues, FoldsAreValues, SumsAreValues DEF RealIs
<1>7. im \in Values
  BY <1>1, <1>2, <1>3, <1>4, <1>5, ProductsAreValues, FoldsAreValues DEF ImagIs
<1>8. LegMove(l, z, k).re = Add(re, 0) /\ LegMove(l, z, k).im = Add(im, 0)
  BY <1>2, <1>5 DEF LegMove, QuadraticStep, Cached, Point, RealIs, ImagIs
<1> QED BY <1>5, <1>6, <1>7, <1>8, NeutralNumbers

LEMMA StepsOfSlice ==
  ASSUME NEW n \in Nat, n <= Huge, NEW legs, IsLegs(n, legs), NEW copy \in Copies,
         NEW z \in Vectors(n), NEW c \in Vectors(n)
  PROVE  SliceStep(copy, legs, z, c) = TrueSliceStep(legs, z, c) /\ TrueSliceStep(legs, z, c) \in Vectors(n)
<1>1. Len(legs) = n /\ \A k \in 1 .. n : legs[k].variant \in Quadratic /\ legs[k].influence = 1
  BY DEF IsLegs
<1>2. z.x \in Values /\ c.x \in Values /\ \A k \in 1 .. n : z.axis[k] \in Values /\ c.axis[k] \in Values
  BY VectorParts
<1>3. \A k \in 1 .. n : /\ LegMove(legs[k], z, k).re = RealIs(legs[k].variant, Mul(z.x, z.x), Mul(z.axis[k], z.axis[k]))
                        /\ LegMove(legs[k], z, k).im = ImagIs(legs[k].variant, z.x, z.axis[k])
                        /\ LegMove(legs[k], z, k).re \in Values /\ LegMove(legs[k], z, k).im \in Values
  BY <1>1, LegMoveIs
<1>4. PICK t, u, ones :
        /\ t = [k \in 1 .. n |-> Mul(legs[k].influence,
                   SliceReal(copy, legs[k].variant, Mul(z.x, z.x), Mul(z.axis[k], z.axis[k])))]
        /\ u = [k \in 1 .. n |-> LegMove(legs[k], z, k).re]
        /\ ones = [k \in 1 .. n |-> legs[k].influence]
  OBVIOUS
<1>5. \A k \in 1 .. n :
        Mul(legs[k].influence, SliceReal(copy, legs[k].variant, Mul(z.x, z.x), Mul(z.axis[k], z.axis[k])))
          = LegMove(legs[k], z, k).re
  <2> SUFFICES ASSUME NEW k \in 1 .. n
               PROVE  Mul(legs[k].influence, SliceReal(copy, legs[k].variant, Mul(z.x, z.x), Mul(z.axis[k], z.axis[k])))
                        = LegMove(legs[k], z, k).re
    OBVIOUS
  <2>1. SliceReal(copy, legs[k].variant, Mul(z.x, z.x), Mul(z.axis[k], z.axis[k])) = LegMove(legs[k], z, k).re
    BY <1>1, <1>3, RealCopies
  <2> QED BY <1>1, <1>3, <2>1, NeutralNumbers
<1>6. t = u
  BY <1>4, <1>5
<1>7. ones = [k \in 1 .. n |-> 1]
  BY <1>1, <1>4
<1>8. SumOver(n, ones) = n
  BY <1>7, LegsCount
<1>9. PICK a, b : /\ a = [k \in 1 .. n |-> Add(Mul(legs[k].influence, SliceImag(copy, legs[k].variant, z.x, z.axis[k])), c.axis[k])]
                  /\ b = [k \in 1 .. n |-> Add(LegMove(legs[k], z, k).im, c.axis[k])]
  OBVIOUS
<1>10. \A k \in 1 .. n : Mul(legs[k].influence, SliceImag(copy, legs[k].variant, z.x, z.axis[k])) = LegMove(legs[k], z, k).im
  <2> SUFFICES ASSUME NEW k \in 1 .. n
               PROVE  Mul(legs[k].influence, SliceImag(copy, legs[k].variant, z.x, z.axis[k])) = LegMove(legs[k], z, k).im
    OBVIOUS
  <2>1. SliceImag(copy, legs[k].variant, z.x, z.axis[k]) = LegMove(legs[k], z, k).im
    BY <1>1, <1>2, <1>3, ImagCopies
  <2> QED BY <1>1, <1>3, <2>1, NeutralNumbers
<1>11. a = b
  BY <1>9, <1>10
<1>12. SliceStep(copy, legs, z, c) =
         [x |-> Add(Add(SumOver(n, t), Neg(Mul(SumOver(n, ones) - 1, Mul(z.x, z.x)))), c.x), axis |-> a]
  BY <1>1, <1>4, <1>9 DEF SliceStep
<1>13. TrueSliceStep(legs, z, c) =
         [x |-> Add(Add(SumOver(n, u), Neg(Mul(n - 1, Mul(z.x, z.x)))), c.x), axis |-> b]
  BY <1>1, <1>4, <1>9 DEF TrueSliceStep
<1>14. SliceStep(copy, legs, z, c) = TrueSliceStep(legs, z, c)
  BY <1>6, <1>8, <1>11, <1>12, <1>13
<1>15. b \in [1 .. n -> Values]
  BY <1>2, <1>3, <1>9, SumsAreValues
<1>16. Add(Add(SumOver(n, u), Neg(Mul(n - 1, Mul(z.x, z.x)))), c.x) \in Values
  <2>1. u \in [1 .. n -> Values]
    BY <1>3, <1>4
  <2>2. SumOver(n, u) \in Values
    BY <2>1, SumsOverAreValues
  <2>3. n - 1 \in Values
    BY Numbers DEF Values
  <2>4. Mul(n - 1, Mul(z.x, z.x)) \in Values
    BY <1>2, <2>3, ProductsAreValues
  <2>5. Neg(Mul(n - 1, Mul(z.x, z.x))) \in Values
    <3>1. "+" \in Signs
      BY DEF Signs
    <3> QED BY <2>4, <3>1, FoldsAreValues
  <2> QED BY <1>2, <2>2, <2>5, SumsAreValues
<1> QED BY <1>13, <1>14, <1>15, <1>16 DEF Vectors

-----------------------------------------------------------------------------
(* The orbit of a slice's point, and the sizes of its points.              *)
IsSliceJob(n, j) ==
  /\ n \in Nat /\ n <= Huge /\ IsLegs(n, j.legs) /\ j.iters \in Nat /\ j.cap \in Nat
  /\ j.bail * j.bail \in Int /\ j.bail * j.bail <= Huge

SliceOrbitLoop(j, c) == [loop |-> "slice orbit", job |-> j, c |-> c]

LEMMA SliceOrbitRuns ==
  ASSUME NEW j, NEW start, NEW c, j.iters \in Nat
  PROVE  Runs(SliceOrbit(j, start, c), SliceOrbitLoop(j, c), start, j.iters)
<1> DEFINE k == SliceOrbitLoop(j, c)
<1>1. \A s : Turn(k, s) = TrueSliceStep(j.legs, s, c)
  BY DEF Turn, SliceOrbitLoop
<1>2. SliceOrbit(j, start, c) = CHOOSE f : f = [i \in 0 .. j.iters |-> IF i = 0 THEN start
                                                          ELSE TrueSliceStep(j.legs, f[i - 1], c)]
  BY DEF SliceOrbit
<1>3. SliceOrbit(j, start, c) = CHOOSE f : f = [i \in 0 .. j.iters |-> IF i = 0 THEN start
                                                          ELSE Turn(k, f[i - 1])]
  BY <1>1, <1>2
<1> HIDE DEF k
<1> QED BY <1>3, Unrolled DEF k

LEMMA SliceOrbitPoints ==
  ASSUME NEW n, NEW j, IsSliceJob(n, j), NEW start \in Vectors(n), NEW c \in Vectors(n),
         NEW z, z = SliceOrbit(j, start, c)
  PROVE  /\ z[0] = start
         /\ \A i \in 1 .. j.iters : z[i] = TrueSliceStep(j.legs, z[i - 1], c)
         /\ \A i \in 0 .. j.iters : z[i] \in Vectors(n) /\ TrueSize(z[i]) \in 0 .. Inf
<1>1. j.iters \in Nat /\ n \in Nat /\ n <= Huge /\ IsLegs(n, j.legs)
  BY DEF IsSliceJob
<1>2. Runs(z, SliceOrbitLoop(j, c), start, j.iters)
  BY <1>1, SliceOrbitRuns
<1>3. \A s : Turn(SliceOrbitLoop(j, c), s) = TrueSliceStep(j.legs, s, c)
  BY DEF Turn, SliceOrbitLoop
<1>4. z[0] = start /\ \A i \in 1 .. j.iters : z[i] = TrueSliceStep(j.legs, z[i - 1], c)
  BY <1>2, <1>3 DEF Runs
<1> DEFINE T == {i \in 0 .. j.iters : z[i] \in Vectors(n)}
<1>5. 0 \in T
  BY <1>1, <1>4
<1>6. ASSUME NEW i \in 1 .. j.iters, i - 1 \in T PROVE i \in T
  <2>1. z[i - 1] \in Vectors(n) /\ z[i] = TrueSliceStep(j.legs, z[i - 1], c)
    BY <1>4, <1>6
  <2>2. "openmp" \in Copies
    BY DEF Copies
  <2>3. z[i] \in Vectors(n)
    BY <1>1, <2>1, <2>2, StepsOfSlice
  <2> QED BY <1>1, <2>3
<1>7. \A i \in 0 .. j.iters : i \in T
  <2> HIDE DEF T
  <2> QED BY <1>1, <1>5, <1>6, UpTo
<1>8. \A i \in 0 .. j.iters : z[i] \in Vectors(n)
  BY <1>7
<1> QED BY <1>1, <1>4, <1>8, NormOfVector

(* What a loop has seen of the orbit when it has made i turns: the sizes   *)
(* of the points up to the one that escaped; b is the bailout squared.     *)
Calm(size, b, i) == \A n \in 1 .. i : ~Gt(size[n], b)
IsSmallest(size, i, a) == (\E n \in 0 .. i : a = size[n]) /\ \A n \in 0 .. i : a <= size[n]
IsLargest(size, i, a) == (\E n \in 0 .. i : a = size[n]) /\ \A n \in 0 .. i : a >= size[n]

SliceLeft(size, b, e, s) ==
  /\ Calm(size, b, e - 1) /\ Gt(size[e], b) /\ s.i = e - 1
  /\ Finite(size[e]) => s.norm = size[e] /\ IsSmallest(size, e, s.min) /\ IsLargest(size, e, s.max)
  /\ ~Finite(size[e]) => ~Finite(s.norm)

SliceTracks(size, b, i, s) ==
  /\ s.escaped \in BOOLEAN
  /\ ~s.escaped => /\ s.i = i /\ Calm(size, b, i) /\ s.norm = 0
                   /\ IsSmallest(size, i, s.min) /\ IsLargest(size, i, s.max)
  /\ s.escaped => \E e \in 1 .. i : SliceLeft(size, b, e, s)

LEMMA SliceExtremes ==
  ASSUME NEW i \in Nat \ {0}, NEW size, \A n \in 0 .. i : size[n] \in 0 .. Inf, NEW lo, NEW hi,
         IsSmallest(size, i - 1, lo), IsLargest(size, i - 1, hi)
  PROVE  /\ IsSmallest(size, i, IF size[i] < lo THEN size[i] ELSE lo)
         /\ IsLargest(size, i, IF size[i] > hi THEN size[i] ELSE hi)
<1>1. 0 .. i = (0 .. i - 1) \cup {i} /\ i \in 0 .. i
  OBVIOUS
<1>2. lo \in 0 .. Inf /\ hi \in 0 .. Inf
  BY <1>1 DEF IsSmallest, IsLargest
<1>3. PICK m : m = size[i]
  OBVIOUS
<1>4. m \in 0 .. Inf
  BY <1>1, <1>3
<1>5. ASSUME m < lo PROVE IsSmallest(size, i, m)
  BY <1>1, <1>2, <1>3, <1>4, <1>5, Numbers DEF IsSmallest
<1>6. ASSUME ~(m < lo) PROVE IsSmallest(size, i, lo)
  BY <1>1, <1>2, <1>3, <1>4, <1>6, Numbers DEF IsSmallest
<1>7. ASSUME m > hi PROVE IsLargest(size, i, m)
  BY <1>1, <1>2, <1>3, <1>4, <1>7, Numbers DEF IsLargest
<1>8. ASSUME ~(m > hi) PROVE IsLargest(size, i, hi)
  BY <1>1, <1>2, <1>3, <1>4, <1>8, Numbers DEF IsLargest
<1> QED BY <1>3, <1>5, <1>6, <1>7, <1>8

(* One turn of a loop that has not left yet.                               *)
LEMMA SliceTurns ==
  ASSUME NEW i \in Nat \ {0}, NEW size, \A n \in 0 .. i : size[n] \in 0 .. Inf, NEW b,
         NEW s, SliceTracks(size, b, i - 1, s), ~s.escaped, NEW t,
         t.escaped = Gt(size[i], b), t.i = (IF t.escaped THEN i - 1 ELSE i), ~t.escaped => t.norm = 0,
         t.escaped /\ Finite(size[i]) => t.norm = size[i],
         t.escaped /\ ~Finite(size[i]) => ~Finite(t.norm),
         ~t.escaped \/ Finite(size[i]) =>
           /\ t.min = (IF size[i] < s.min THEN size[i] ELSE s.min)
           /\ t.max = (IF size[i] > s.max THEN size[i] ELSE s.max)
  PROVE  SliceTracks(size, b, i, t)
<1>1. Calm(size, b, i - 1) /\ IsSmallest(size, i - 1, s.min) /\ IsLargest(size, i - 1, s.max)
  BY DEF SliceTracks
<1>2. PICK lo, hi : /\ lo = (IF size[i] < s.min THEN size[i] ELSE s.min)
                    /\ hi = (IF size[i] > s.max THEN size[i] ELSE s.max)
  OBVIOUS
<1>3. IsSmallest(size, i, lo) /\ IsLargest(size, i, hi)
  BY <1>1, <1>2, SliceExtremes
<1>4. t.escaped \in BOOLEAN
  BY DEF Gt
<1>5. CASE t.escaped
  <2>1. SliceLeft(size, b, i, t)
    BY <1>1, <1>2, <1>3, <1>5 DEF SliceLeft
  <2>2. i \in 1 .. i
    OBVIOUS
  <2> QED BY <1>4, <1>5, <2>1, <2>2 DEF SliceTracks
<1>6. CASE ~t.escaped
  <2>1. 1 .. i = (1 .. i - 1) \cup {i}
    OBVIOUS
  <2>2. Calm(size, b, i)
    BY <1>1, <1>6, <2>1 DEF Calm
  <2>3. t.min = lo /\ t.max = hi /\ t.i = i /\ t.norm = 0
    BY <1>2, <1>6
  <2> QED BY <1>3, <1>4, <1>6, <2>2, <2>3 DEF SliceTracks
<1> QED BY <1>4, <1>5, <1>6

-----------------------------------------------------------------------------
(* The scalar loop.  An orbit is known by its points and their sizes.      *)
SliceFields == {"i", "z", "c", "min", "max", "norm", "escaped", "orbit"}
SliceLoopOf(copy, j) == [loop |-> "slice", copy |-> copy, job |-> j]

IsOrbit(n, j, c, z, size) ==
  /\ IsSliceJob(n, j) /\ c \in Vectors(n) /\ NoNaN(z[0])
  /\ \A i \in 1 .. j.iters : z[i] = TrueSliceStep(j.legs, z[i - 1], c)
  /\ \A i \in 0 .. j.iters : z[i] \in Vectors(n) /\ size[i] = TrueSize(z[i]) /\ size[i] \in 0 .. Inf

InSlice(j, z, size, c, i, s) ==
  /\ DOMAIN s = SliceFields /\ s.c = c /\ s.i \in 0 .. i /\ s.z = z[s.i]
  /\ SliceTracks(size, j.bail * j.bail, i, s)

LEMMA OrbitOfSlice ==
  ASSUME NEW n, NEW j, IsSliceJob(n, j), NEW start \in Vectors(n), NoNaN(start), NEW c \in Vectors(n),
         NEW z, z = SliceOrbit(j, start, c), NEW size, size = [i \in 0 .. j.iters |-> TrueSize(z[i])]
  PROVE  IsOrbit(n, j, c, z, size) /\ z[0] = start
<1>1. /\ z[0] = start
      /\ \A i \in 1 .. j.iters : z[i] = TrueSliceStep(j.legs, z[i - 1], c)
      /\ \A i \in 0 .. j.iters : z[i] \in Vectors(n) /\ TrueSize(z[i]) \in 0 .. Inf
  BY SliceOrbitPoints
<1>2. \A i \in 0 .. j.iters : size[i] = TrueSize(z[i])
  OBVIOUS
<1>3. \A i \in 0 .. j.iters : z[i] \in Vectors(n) /\ size[i] = TrueSize(z[i]) /\ size[i] \in 0 .. Inf
  BY <1>1, <1>2, Zenon
<1> QED BY <1>1, <1>3, ZenonT(30) DEF IsOrbit

LEMMA SliceJobs ==
  ASSUME NEW n, NEW j, IsSliceJob(n, j)
  PROVE  /\ n \in Nat /\ n <= Huge /\ IsLegs(n, j.legs) /\ j.iters \in Nat /\ j.cap \in Nat
         /\ j.bail * j.bail \in Int /\ j.bail * j.bail <= Huge
  BY DEF IsSliceJob

LEMMA MeasureIs ==
  ASSUME NEW n, NEW j, IsSliceJob(n, j), NEW w \in Vectors(n), NEW s
  PROVE  Measure(j, s, w) = Visit(j, s, w, TrueSize(w), Gt(TrueSize(w), j.bail * j.bail))
<1>1. PICK b : b = j.bail * j.bail
  OBVIOUS
<1>2. b \in Int /\ b <= Huge /\ n \in Nat
  BY <1>1, SliceJobs
<1>3. CASE AllFinite(w)
  BY <1>1, <1>3 DEF Measure, TrueSize
<1>4. CASE ~AllFinite(w)
  <2>1. Gt(Inf, b) = TRUE
    BY <1>2, Numbers DEF Gt
  <2> QED BY <1>1, <1>4, <2>1 DEF Measure, TrueSize
<1> QED BY <1>3, <1>4

LEMMA VisitIs ==
  ASSUME NEW j, NEW s, DOMAIN s = SliceFields, NEW w, NEW m, NEW out, NEW t, t = Visit(j, s, w, m, out)
  PROVE  /\ DOMAIN t = SliceFields /\ t.c = s.c
         /\ t.min = (IF m < s.min THEN m ELSE s.min) /\ t.max = (IF m > s.max THEN m ELSE s.max)
         /\ t.norm = (IF out THEN m ELSE s.norm) /\ t.escaped = out
         /\ t.orbit = (IF Len(s.orbit) < j.cap THEN Append(s.orbit, w) ELSE s.orbit)
         /\ t.i = (IF out THEN s.i ELSE s.i + 1) /\ t.z = (IF out THEN s.z ELSE w)
<1>1. PICK lo, hi, norm, o, i, z :
        /\ lo = (IF m < s.min THEN m ELSE s.min) /\ hi = (IF m > s.max THEN m ELSE s.max)
        /\ norm = (IF out THEN m ELSE s.norm)
        /\ o = (IF Len(s.orbit) < j.cap THEN Append(s.orbit, w) ELSE s.orbit)
        /\ i = (IF out THEN s.i ELSE s.i + 1) /\ z = (IF out THEN s.z ELSE w)
  OBVIOUS
<1>2. t = [s EXCEPT !.min = lo, !.max = hi, !.norm = norm, !.escaped = out, !.orbit = o, !.i = i, !.z = z]
  BY <1>1 DEF Visit
<1>3. /\ DOMAIN t = SliceFields /\ t.c = s.c /\ t.min = lo /\ t.max = hi /\ t.norm = norm /\ t.escaped = out
      /\ t.orbit = o /\ t.i = i /\ t.z = z
  BY <1>2 DEF SliceFields
<1> QED BY <1>1, <1>3

LEMMA SliceLoopRuns ==
  ASSUME NEW copy, NEW j, NEW p, j.iters \in Nat
  PROVE  \E g : Runs(g, SliceLoopOf(copy, j), SliceStart(j, p), j.iters) /\ SliceLoop(copy, j, p) = g[j.iters]
<1> DEFINE k == SliceLoopOf(copy, j)
<1>1. \A s : Turn(k, s) = SliceBody(copy, j, s)
  BY DEF Turn, SliceLoopOf
<1>2. PICK g : g = CHOOSE f : f = [i \in 0 .. j.iters |-> IF i = 0 THEN SliceStart(j, p)
                                                          ELSE SliceBody(copy, j, f[i - 1])]
  OBVIOUS
<1>3. SliceLoop(copy, j, p) = g[j.iters]
  BY <1>2 DEF SliceLoop, Iterate
<1>4. g = CHOOSE f : f = [i \in 0 .. j.iters |-> IF i = 0 THEN SliceStart(j, p) ELSE Turn(k, f[i - 1])]
  BY <1>1, <1>2
<1> HIDE DEF k
<1> QED BY <1>3, <1>4, Unrolled DEF k

LEMMA TracksFromStart ==
  ASSUME NEW n, NEW j, NEW c, NEW z, NEW size, IsOrbit(n, j, c, z, size), NEW b, NEW s,
         s.i = 0, s.norm = 0, s.escaped = FALSE, s.min = SliceNorm(z[0]), s.max = SliceNorm(z[0])
  PROVE  SliceTracks(size, b, 0, s)
<1>1. n \in Nat /\ j.iters \in Nat /\ NoNaN(z[0])
  BY SliceJobs DEF IsOrbit
<1>2. z[0] \in Vectors(n) /\ size[0] = TrueSize(z[0]) /\ size[0] \in 0 .. Inf
  BY <1>1 DEF IsOrbit
<1>3. s.min = size[0] /\ s.max = size[0]
  BY <1>1, <1>2, NormOfVector
<1>4. IsSmallest(size, 0, s.min) /\ IsLargest(size, 0, s.max)
  <2>1. \A k \in 0 .. 0 : k = 0
    OBVIOUS
  <2>2. size[0] <= size[0] /\ size[0] >= size[0] /\ 0 \in 0 .. 0
    BY <1>2, Numbers
  <2> QED BY <1>3, <2>1, <2>2 DEF IsSmallest, IsLargest
<1>5. Calm(size, b, 0)
  BY DEF Calm
<1> QED BY <1>4, <1>5 DEF SliceTracks

LEMMA NextOfSlice ==
  ASSUME NEW n, NEW j, NEW c, NEW z, NEW size, IsOrbit(n, j, c, z, size), NEW copy \in Copies,
         NEW i \in 1 .. j.iters
  PROVE  SliceStep(copy, j.legs, z[i - 1], c) = z[i]
<1>1. n \in Nat /\ n <= Huge /\ IsLegs(n, j.legs) /\ j.iters \in Nat
  BY SliceJobs DEF IsOrbit
<1>2. PICK a : a = z[i - 1]
  OBVIOUS
<1>3. a \in Vectors(n) /\ c \in Vectors(n) /\ z[i] = TrueSliceStep(j.legs, a, c)
  BY <1>1, <1>2 DEF IsOrbit
<1>4. SliceStep(copy, j.legs, a, c) = TrueSliceStep(j.legs, a, c)
  BY <1>1, <1>3, StepsOfSlice
<1> QED BY <1>2, <1>3, <1>4

LEMMA TracksStay ==
  ASSUME NEW size, NEW b, NEW i \in Nat \ {0}, NEW s, SliceTracks(size, b, i - 1, s), s.escaped
  PROVE  SliceTracks(size, b, i, s)
<1>1. PICK e \in 1 .. i - 1 : SliceLeft(size, b, e, s)
  BY DEF SliceTracks
<1>2. e \in 1 .. i
  OBVIOUS
<1> QED BY <1>1, <1>2 DEF SliceTracks

LEMMA SliceLoopTurn ==
  ASSUME NEW n, NEW j, NEW c, NEW z, NEW size, IsOrbit(n, j, c, z, size), NEW copy \in Copies,
         NEW i \in 1 .. j.iters, NEW s, InSlice(j, z, size, c, i - 1, s), NEW t, t = SliceBody(copy, j, s)
  PROVE  InSlice(j, z, size, c, i, t)
<1>1. IsSliceJob(n, j) /\ j.iters \in Nat /\ n \in Nat
  BY SliceJobs DEF IsOrbit
<1>2. PICK b : b = j.bail * j.bail
  OBVIOUS
<1>3. /\ DOMAIN s = SliceFields /\ s.c = c /\ s.i \in 0 .. i - 1 /\ s.z = z[s.i]
      /\ SliceTracks(size, b, i - 1, s)
  BY <1>2 DEF InSlice
<1>4. i \in Nat \ {0} /\ 0 .. i - 1 \subseteq 0 .. i /\ 0 .. i \subseteq 0 .. j.iters
  BY <1>1
<1>5. CASE s.escaped
  <2>1. t = s
    BY <1>5 DEF SliceBody
  <2>2. SliceTracks(size, b, i, s)
    BY <1>3, <1>4, <1>5, TracksStay
  <2> QED BY <1>2, <1>3, <1>4, <2>1, <2>2 DEF InSlice
<1>6. CASE ~s.escaped
  <2>1. s.i = i - 1 /\ s.norm = 0
    BY <1>3, <1>6 DEF SliceTracks
  <2>2. SliceStep(copy, j.legs, s.z, s.c) = z[i]
    BY <1>3, <2>1, NextOfSlice
  <2>3. PICK w, m, out : w = z[i] /\ m = size[i] /\ out = Gt(m, b)
    OBVIOUS
  <2>4. w \in Vectors(n) /\ m = TrueSize(w) /\ m \in 0 .. Inf
    BY <1>1, <2>3 DEF IsOrbit
  <2>5. t = Visit(j, s, w, m, out)
    BY <1>1, <1>2, <1>6, <2>2, <2>3, <2>4, MeasureIs DEF SliceBody
  <2>6. /\ DOMAIN t = SliceFields /\ t.c = s.c
        /\ t.min = (IF m < s.min THEN m ELSE s.min) /\ t.max = (IF m > s.max THEN m ELSE s.max)
        /\ t.norm = (IF out THEN m ELSE s.norm) /\ t.escaped = out
        /\ t.i = (IF out THEN s.i ELSE s.i + 1) /\ t.z = (IF out THEN s.z ELSE w)
    BY <1>3, <2>5, VisitIs
  <2>7. \A k \in 0 .. i : size[k] \in 0 .. Inf
    BY <1>4 DEF IsOrbit
  <2>8. SliceTracks(size, b, i, t)
    BY <1>3, <1>4, <1>6, <2>1, <2>3, <2>6, <2>7, SliceTurns
  <2>9. t.i \in 0 .. i /\ t.z = z[t.i]
    BY <1>3, <1>4, <2>1, <2>3, <2>6
  <2> QED BY <1>2, <1>3, <2>6, <2>8, <2>9 DEF InSlice
<1> QED BY <1>5, <1>6

(* A loop from the orbit's first point.                                    *)
IsStart(s, c, z) ==
  /\ DOMAIN s = SliceFields /\ s.i = 0 /\ s.z = z[0] /\ s.c = c
  /\ s.norm = 0 /\ s.escaped = FALSE /\ s.min = SliceNorm(z[0]) /\ s.max = SliceNorm(z[0]) /\ s.orbit = <<z[0]>>

LEMMA SliceStartIs ==
  ASSUME NEW j, NEW p, NEW start, start = (IF j.plane = "volume" THEN EmbedVoxel(j.legs, p) ELSE Embed(j.legs, p)),
         NEW c, c = (IF j.julia THEN Embed(j.legs, j.jc) ELSE start), NEW z, z[0] = start
  PROVE  IsStart(SliceStart(j, p), c, z)
<1>1. SliceStart(j, p) = [i |-> 0, z |-> start, c |-> c, min |-> SliceNorm(start), max |-> SliceNorm(start),
                          norm |-> 0, escaped |-> FALSE, orbit |-> <<start>>]
  BY DEF SliceStart
<1> QED BY <1>1 DEF IsStart, SliceFields

LEMMA SliceLoopEnds ==
  ASSUME NEW n, NEW j, NEW c, NEW z, NEW size, IsOrbit(n, j, c, z, size), NEW copy \in Copies,
         NEW p, IsStart(SliceStart(j, p), c, z)
  PROVE  InSlice(j, z, size, c, j.iters, SliceLoop(copy, j, p))
<1>1. j.iters \in Nat
  BY SliceJobs DEF IsOrbit
<1>2. PICK g : Runs(g, SliceLoopOf(copy, j), SliceStart(j, p), j.iters) /\ SliceLoop(copy, j, p) = g[j.iters]
  BY <1>1, SliceLoopRuns
<1>3. \A s : Turn(SliceLoopOf(copy, j), s) = SliceBody(copy, j, s)
  BY DEF Turn, SliceLoopOf
<1>4. g[0] = SliceStart(j, p) /\ \A i \in 1 .. j.iters : g[i] = SliceBody(copy, j, g[i - 1])
  BY <1>2, <1>3 DEF Runs
<1> DEFINE T == {i \in 0 .. j.iters : InSlice(j, z, size, c, i, g[i])}
<1>5. 0 \in T
  <2>1. PICK s : s = g[0]
    OBVIOUS
  <2>2. /\ DOMAIN s = SliceFields /\ s.i = 0 /\ s.z = z[0] /\ s.c = c
        /\ s.norm = 0 /\ s.escaped = FALSE /\ s.min = SliceNorm(z[0]) /\ s.max = SliceNorm(z[0])
    BY <1>4, <2>1 DEF IsStart
  <2>3. SliceTracks(size, j.bail * j.bail, 0, s)
    BY <2>2, TracksFromStart
  <2>4. InSlice(j, z, size, c, 0, s)
    BY <2>2, <2>3 DEF InSlice
  <2> QED BY <1>1, <2>1, <2>4
<1>6. ASSUME NEW i \in 1 .. j.iters, i - 1 \in T PROVE i \in T
  <2>1. InSlice(j, z, size, c, i - 1, g[i - 1]) /\ g[i] = SliceBody(copy, j, g[i - 1])
    BY <1>4, <1>6
  <2>2. InSlice(j, z, size, c, i, g[i])
    BY <2>1, SliceLoopTurn
  <2> QED BY <1>1, <2>2
<1>7. \A i \in 0 .. j.iters : i \in T
  <2> HIDE DEF T
  <2> QED BY <1>1, <1>5, <1>6, UpTo
<1>8. InSlice(j, z, size, c, j.iters, g[j.iters])
  BY <1>1, <1>7
<1> QED BY <1>2, <1>8

-----------------------------------------------------------------------------
(* What a loop has seen in the end is what the reference tells.            *)
LEMMA ToldOfCalm ==
  ASSUME NEW j, NEW z, NEW size, Calm(size, j.bail * j.bail, j.iters)
  PROVE  ToldOrbit(j, z, size) = Told(j, z, size, FALSE, j.iters)
<1>1. {n \in 1 .. j.iters : Gt(size[n], j.bail * j.bail)} = {}
  BY DEF Calm
<1> QED BY <1>1 DEF ToldOrbit

LEMMA ToldOfLeft ==
  ASSUME NEW j, NEW z, NEW size, j.iters \in Nat, NEW e \in 1 .. j.iters,
         Calm(size, j.bail * j.bail, e - 1), Gt(size[e], j.bail * j.bail)
  PROVE  ToldOrbit(j, z, size) = Told(j, z, size, TRUE, e)
<1> DEFINE outs == {n \in 1 .. j.iters : Gt(size[n], j.bail * j.bail)}
<1>1. e \in outs /\ outs \subseteq Int /\ outs # {}
  OBVIOUS
<1>2. \A n \in outs : e <= n
  <2> SUFFICES ASSUME NEW n \in outs, ~(e <= n) PROVE FALSE
    OBVIOUS
  <2>1. n \in 1 .. e - 1 /\ Gt(size[n], j.bail * j.bail)
    OBVIOUS
  <2> QED BY <2>1 DEF Calm
<1>3. ToldOrbit(j, z, size) =
        IF outs = {} THEN Told(j, z, size, FALSE, j.iters) ELSE Told(j, z, size, TRUE, Least(outs))
  BY DEF ToldOrbit
<1> HIDE DEF outs
<1>4. Least(outs) = e
  BY <1>1, <1>2, LeastIs
<1> QED BY <1>1, <1>3, <1>4

LEMMA SmallestIs ==
  ASSUME NEW size, NEW i \in Nat, \A n \in 0 .. i : size[n] \in 0 .. Inf, NEW lo, NEW hi,
         IsSmallest(size, i, lo), IsLargest(size, i, hi)
  PROVE  Least({size[n] : n \in 0 .. i}) = lo /\ Greatest({size[n] : n \in 0 .. i}) = hi
<1> DEFINE S == {size[n] : n \in 0 .. i}
<1>1. S \subseteq Int /\ lo \in S /\ hi \in S /\ (\A b \in S : lo <= b) /\ \A b \in S : hi >= b
  BY Numbers DEF IsSmallest, IsLargest
<1> HIDE DEF S
<1>2. Least(S) = lo /\ Greatest(S) = hi
  BY <1>1, LeastIs, GreatestIs
<1> QED BY <1>2 DEF S

TellsCalm(j, z, size, r) ==
  /\ r.iter = j.iters /\ r.escaped = FALSE /\ r.norm = 0 /\ r.size = size[j.iters]
  /\ r.min = Least({size[n] : n \in 0 .. j.iters}) /\ r.max = Greatest({size[n] : n \in 0 .. j.iters})
  /\ r.extra = ClosestPair(z, IF j.cap <= j.iters + 1 THEN j.cap - 1 ELSE j.iters)

TellsLeft(j, z, size, e, r) ==
  /\ r.iter = e - 1 /\ r.escaped = TRUE /\ r.norm = size[e]
  /\ r.min = Least({size[n] : n \in 0 .. e}) /\ r.max = Greatest({size[n] : n \in 0 .. e})
  /\ r.extra = ClosestPair(z, IF j.cap <= e + 1 THEN j.cap - 1 ELSE e)

LEMMA ToldIs ==
  ASSUME NEW j, NEW z, NEW size, NEW e
  PROVE  /\ TellsCalm(j, z, size, Told(j, z, size, FALSE, j.iters))
         /\ TellsLeft(j, z, size, e, Told(j, z, size, TRUE, e))
<1>1. PICK lo, hi, extra : /\ lo = Least({size[n] : n \in 0 .. j.iters})
                           /\ hi = Greatest({size[n] : n \in 0 .. j.iters})
                           /\ extra = ClosestPair(z, IF j.cap <= j.iters + 1 THEN j.cap - 1 ELSE j.iters)
  OBVIOUS
<1>2. Told(j, z, size, FALSE, j.iters) = [iter |-> j.iters, escaped |-> FALSE, norm |-> 0,
        size |-> size[j.iters], min |-> lo, max |-> hi, extra |-> extra]
  BY <1>1 DEF Told
<1>3. PICK low, high, apart : /\ low = Least({size[n] : n \in 0 .. e})
                              /\ high = Greatest({size[n] : n \in 0 .. e})
                              /\ apart = ClosestPair(z, IF j.cap <= e + 1 THEN j.cap - 1 ELSE e)
  OBVIOUS
<1>4. Told(j, z, size, TRUE, e) = [iter |-> e - 1, escaped |-> TRUE, norm |-> size[e],
        size |-> size[e], min |-> low, max |-> high, extra |-> apart]
  BY <1>3 DEF Told
<1>5. PICK r : r = [iter |-> j.iters, escaped |-> FALSE, norm |-> 0,
                    size |-> size[j.iters], min |-> lo, max |-> hi, extra |-> extra]
  OBVIOUS
<1>6. /\ r.iter = j.iters /\ r.escaped = FALSE /\ r.norm = 0 /\ r.size = size[j.iters]
      /\ r.min = lo /\ r.max = hi /\ r.extra = extra
  BY <1>5
<1>7. TellsCalm(j, z, size, r)
  BY <1>1, <1>6, Zenon DEF TellsCalm
<1>8. PICK q : q = [iter |-> e - 1, escaped |-> TRUE, norm |-> size[e],
                    size |-> size[e], min |-> low, max |-> high, extra |-> apart]
  OBVIOUS
<1>9. /\ q.iter = e - 1 /\ q.escaped = TRUE /\ q.norm = size[e]
      /\ q.min = low /\ q.max = high /\ q.extra = apart
  BY <1>8
<1>10. TellsLeft(j, z, size, e, q)
  BY <1>3, <1>9, Zenon DEF TellsLeft
<1>11. r = Told(j, z, size, FALSE, j.iters) /\ q = Told(j, z, size, TRUE, e)
  BY <1>2, <1>4, <1>5, <1>8, Zenon
<1> QED BY <1>7, <1>10, <1>11, Zenon

Tells(j, z, size, s, r) ==
  /\ s.escaped \in BOOLEAN /\ r.escaped = s.escaped
  /\ ~s.escaped => /\ s.i = j.iters /\ Calm(size, j.bail * j.bail, j.iters)
                   /\ r = Told(j, z, size, FALSE, j.iters)
  /\ s.escaped => \E e \in 1 .. j.iters : s.i = e - 1 /\ r = Told(j, z, size, TRUE, e)

LEMMA SliceAnswered ==
  ASSUME NEW n, NEW j, NEW c, NEW z, NEW size, IsOrbit(n, j, c, z, size), NEW s,
         SliceTracks(size, j.bail * j.bail, j.iters, s), NEW r, r = ToldOrbit(j, z, size)
  PROVE  Matches(SliceAnswer(s), r) /\ Tells(j, z, size, s, r)
<1>1. j.iters \in Nat
  BY SliceJobs DEF IsOrbit
<1>2. PICK b : b = j.bail * j.bail
  OBVIOUS
<1>3. \A k \in 0 .. j.iters : size[k] \in 0 .. Inf
  BY DEF IsOrbit
<1>4. PICK a : a = SliceAnswer(s)
  OBVIOUS
<1>5. a.iter = s.i /\ a.norm = s.norm /\ a.min = s.min /\ a.max = s.max /\ a.escaped = s.escaped
  BY <1>4 DEF SliceAnswer
<1>6. s.escaped \in BOOLEAN
  BY DEF SliceTracks
<1>7. CASE ~s.escaped
  <2>1. s.i = j.iters /\ Calm(size, b, j.iters) /\ s.norm = 0
        /\ IsSmallest(size, j.iters, s.min) /\ IsLargest(size, j.iters, s.max)
    BY <1>2, <1>7 DEF SliceTracks
  <2>2. r = Told(j, z, size, FALSE, j.iters)
    BY <1>2, <2>1, ToldOfCalm
  <2>3. r.iter = j.iters /\ r.escaped = FALSE /\ r.norm = 0 /\ r.min = s.min /\ r.max = s.max
    <3>1. Least({size[k] : k \in 0 .. j.iters}) = s.min /\ Greatest({size[k] : k \in 0 .. j.iters}) = s.max
      BY <1>1, <1>3, <2>1, SmallestIs
    <3>2. TellsCalm(j, z, size, r)
      BY <2>2, ToldIs
    <3> QED BY <3>1, <3>2 DEF TellsCalm
  <2>4. Finite(0)
    BY Numbers
  <2>5. a.escaped = r.escaped
    BY <1>5, <1>6, <1>7, <2>3
  <2>6. Matches(a, r)
    BY <1>5, <2>1, <2>3, <2>4, <2>5 DEF Matches
  <2> QED BY <1>2, <1>4, <1>5, <1>6, <1>7, <2>1, <2>2, <2>5, <2>6, Zenon DEF Tells
<1>8. CASE s.escaped
  <2>1. PICK e \in 1 .. j.iters : SliceLeft(size, b, e, s)
    BY <1>2, <1>8 DEF SliceTracks
  <2>2. Calm(size, b, e - 1) /\ Gt(size[e], b) /\ s.i = e - 1
    BY <2>1 DEF SliceLeft
  <2>3. r = Told(j, z, size, TRUE, e)
    BY <1>1, <1>2, <2>2, ToldOfLeft
  <2>4. /\ r.iter = e - 1 /\ r.escaped = TRUE /\ r.norm = size[e]
        /\ r.min = Least({size[k] : k \in 0 .. e}) /\ r.max = Greatest({size[k] : k \in 0 .. e})
    <3>1. TellsLeft(j, z, size, e, r)
      BY <2>3, ToldIs
    <3> QED BY <3>1, Zenon DEF TellsLeft
  <2>5. ASSUME Finite(size[e]) PROVE a.norm = r.norm /\ a.min = r.min /\ a.max = r.max
    <3>1. s.norm = size[e] /\ IsSmallest(size, e, s.min) /\ IsLargest(size, e, s.max)
      BY <2>1, <2>5 DEF SliceLeft
    <3>2. e \in Nat /\ \A k \in 0 .. e : size[k] \in 0 .. Inf
      BY <1>1, <1>3
    <3>3. Least({size[k] : k \in 0 .. e}) = s.min /\ Greatest({size[k] : k \in 0 .. e}) = s.max
      BY <3>1, <3>2, SmallestIs
    <3> QED BY <1>5, <2>4, <3>1, <3>3
  <2>6. ASSUME ~Finite(size[e]) PROVE ~Finite(a.norm)
    BY <1>5, <2>1, <2>6 DEF SliceLeft
  <2>7. a.escaped = r.escaped /\ a.iter = r.iter
    BY <1>5, <1>6, <1>8, <2>2, <2>4
  <2>8. Matches(a, r)
    BY <2>4, <2>5, <2>6, <2>7 DEF Matches
  <2> QED BY <1>4, <1>5, <1>6, <1>8, <2>2, <2>3, <2>7, <2>8, Zenon DEF Tells
<1> QED BY <1>7, <1>8

LEMMA VoxelAnswered ==
  ASSUME NEW n, NEW j, NEW c, NEW z, NEW size, IsOrbit(n, j, c, z, size), NEW s,
         SliceTracks(size, j.bail * j.bail, j.iters, s), ~s.escaped => s.z = z[j.iters]
  PROVE  VoxelValue(s) = VoxelTold(ToldOrbit(j, z, size))
<1>1. PICK r : r = ToldOrbit(j, z, size)
  OBVIOUS
<1>8. Tells(j, z, size, s, r)
  BY <1>1, SliceAnswered
<1>2. /\ r.escaped = s.escaped /\ s.escaped \in BOOLEAN /\ (s.escaped => r.iter = s.i)
      /\ ~s.escaped => r.size = size[j.iters] /\ Calm(size, j.bail * j.bail, j.iters)
  <2>1. TellsCalm(j, z, size, Told(j, z, size, FALSE, j.iters))
    BY ToldIs
  <2>2. \A e : TellsLeft(j, z, size, e, Told(j, z, size, TRUE, e))
    BY ToldIs
  <2>3. ASSUME ~s.escaped PROVE r.size = size[j.iters]
    BY <1>8, <2>1, <2>3, Zenon DEF Tells, TellsCalm
  <2>4. ASSUME s.escaped PROVE r.iter = s.i
    <3>1. PICK e : s.i = e - 1 /\ r = Told(j, z, size, TRUE, e)
      BY <1>8, <2>4, Zenon DEF Tells
    <3> QED BY <2>2, <3>1, Zenon DEF TellsLeft
  <2> QED BY <1>8, <2>3, <2>4, Zenon DEF Tells
<1>3. ASSUME ~s.escaped PROVE SliceNorm(s.z) = size[j.iters]
  <2>1. PICK w, m, b : w = z[j.iters] /\ m = size[j.iters] /\ b = j.bail * j.bail
    OBVIOUS
  <2>2. j.iters \in Nat /\ n \in Nat /\ b \in Int /\ b <= Huge
    BY <2>1, SliceJobs DEF IsOrbit
  <2>3. w \in Vectors(n) /\ m = TrueSize(w) /\ m \in 0 .. Inf
    BY <2>1, <2>2 DEF IsOrbit
  <2>4. CASE j.iters = 0
    <3>1. NoNaN(w)
      BY <2>1, <2>4 DEF IsOrbit
    <3> QED BY <1>3, <2>1, <2>2, <2>3, <3>1, NormOfVector
  <2>5. CASE j.iters # 0
    <3>1. ~Gt(m, b)
      BY <1>2, <1>3, <2>1, <2>2, <2>5 DEF Calm
    <3>2. m <= Huge
      BY <2>2, <2>3, <3>1, Numbers DEF Gt
    <3>3. AllFinite(w)
      BY <2>2, <2>3, <3>2, Numbers DEF TrueSize
    <3>4. SliceNorm(w) = m
      BY <2>3, <3>3 DEF TrueSize
    <3> QED BY <1>3, <2>1, <3>4
  <2> QED BY <2>4, <2>5
<1>4. VoxelValue(s) = [escaped |-> s.escaped, by |-> IF s.escaped THEN s.i ELSE SliceNorm(s.z)]
  BY DEF VoxelValue
<1>5. VoxelTold(r) = [escaped |-> r.escaped, by |-> IF r.escaped THEN r.iter ELSE r.size]
  BY DEF VoxelTold
<1>6. CASE s.escaped
  BY <1>1, <1>2, <1>4, <1>5, <1>6
<1>7. CASE ~s.escaped
  BY <1>1, <1>2, <1>3, <1>4, <1>5, <1>7
<1> QED BY <1>6, <1>7

-----------------------------------------------------------------------------
(* The vector loop.  A lane is a loop of its own; once it has escaped it   *)
(* meets the point that escaped again and again.                           *)
Visited(s, w, n2, on, out, t) ==
  /\ DOMAIN t = SliceFields /\ t.c = s.c
  /\ t.min = (IF Gt(n2, s.min) THEN s.min ELSE n2) /\ t.max = (IF Gt(s.max, n2) THEN s.max ELSE n2)
  /\ t.norm = (IF out THEN n2 ELSE s.norm) /\ t.escaped = (s.escaped \/ out)
  /\ t.i = (IF on /\ ~out THEN s.i + 1 ELSE s.i) /\ t.z = (IF on /\ ~out THEN w ELSE s.z)

LEMMA VisitLaneIs ==
  ASSUME NEW s, DOMAIN s = SliceFields, NEW w, NEW n2, NEW on \in BOOLEAN, NEW out \in BOOLEAN,
         s.escaped \in BOOLEAN, NEW t, t = VisitLane(s, w, n2, on, out)
  PROVE  Visited(s, w, n2, on, out, t)
<1>1. PICK lo, hi, norm, left, i, z :
        /\ lo = (IF Gt(n2, s.min) THEN s.min ELSE n2) /\ hi = (IF Gt(s.max, n2) THEN s.max ELSE n2)
        /\ norm = (IF out THEN n2 ELSE s.norm) /\ left = (s.escaped \/ out)
        /\ i = (IF on /\ ~out THEN s.i + 1 ELSE s.i) /\ z = (IF on /\ ~out THEN w ELSE s.z)
  OBVIOUS
<1>2. t = [s EXCEPT !.min = lo, !.max = hi, !.norm = norm, !.escaped = left, !.i = i, !.z = z]
  BY <1>1 DEF VisitLane
<1>3. /\ DOMAIN t = SliceFields /\ t.c = s.c /\ t.min = lo /\ t.max = hi /\ t.norm = norm /\ t.escaped = left
      /\ t.i = i /\ t.z = z
  BY <1>2 DEF SliceFields
<1> QED BY <1>1, <1>3 DEF Visited

LEMMA NormsOfLane ==
  ASSUME NEW n \in Nat, NEW w \in Vectors(n), NEW m, m = TrueSize(w), NEW n2, n2 = SliceNorm(w)
  PROVE  /\ m \in 0 .. Inf /\ (Finite(m) => n2 = m)
         /\ n2 = m \/ (n2 \in {Inf, NaN} /\ m = Inf)
<1>1. /\ n2 \in Distances /\ (AllFinite(w) => n2 \in 0 .. Inf) /\ (~AllFinite(w) => n2 \in {Inf, NaN})
      /\ m \in 0 .. Inf
  BY NormOfVector
<1>2. (AllFinite(w) => m = n2) /\ (~AllFinite(w) => m = Inf)
  BY DEF TrueSize
<1> QED BY <1>1, <1>2, Numbers

LEMMA SliceLaneTurn ==
  ASSUME NEW n, NEW j, NEW c, NEW z, NEW size, IsOrbit(n, j, c, z, size), NEW copy \in Copies,
         NEW i \in 1 .. j.iters, NEW s, InSlice(j, z, size, c, i - 1, s),
         NEW on \in BOOLEAN, on = ~s.escaped, NEW t, t = Lane(copy, j, s, on)
  PROVE  InSlice(j, z, size, c, i, t)
<1>1. IsSliceJob(n, j) /\ j.iters \in Nat /\ n \in Nat /\ j.bail * j.bail \in Int /\ j.bail * j.bail <= Huge
  BY SliceJobs DEF IsOrbit
<1>2. PICK b : b = j.bail * j.bail
  OBVIOUS
<1>3. /\ DOMAIN s = SliceFields /\ s.c = c /\ s.i \in 0 .. i - 1 /\ s.z = z[s.i]
      /\ SliceTracks(size, b, i - 1, s) /\ s.escaped \in BOOLEAN
  BY <1>2 DEF InSlice, SliceTracks
<1>4. i \in Nat \ {0} /\ 0 .. i - 1 \subseteq 0 .. i /\ 0 .. i \subseteq 0 .. j.iters
  BY <1>1
<1>5. PICK w : w = SliceStep(copy, j.legs, s.z, s.c)
  OBVIOUS
<1>6. PICK n2 : n2 = SliceNorm(w)
  OBVIOUS
<1>7. PICK out \in BOOLEAN : out = (on /\ (Gt(n2, b) \/ n2 = NaN))
  OBVIOUS
<1>8. t = VisitLane(s, w, n2, on, out)
  BY <1>2, <1>5, <1>6, <1>7 DEF Lane, MeasureLane
<1>9. /\ DOMAIN t = SliceFields /\ t.c = s.c
      /\ t.min = (IF Gt(n2, s.min) THEN s.min ELSE n2) /\ t.max = (IF Gt(s.max, n2) THEN s.max ELSE n2)
      /\ t.norm = (IF out THEN n2 ELSE s.norm) /\ t.escaped = (s.escaped \/ out)
      /\ t.i = (IF on /\ ~out THEN s.i + 1 ELSE s.i) /\ t.z = (IF on /\ ~out THEN w ELSE s.z)
  <2>1. Visited(s, w, n2, on, out, t)
    BY <1>3, <1>8, VisitLaneIs, Zenon
  <2> QED BY <2>1, Zenon DEF Visited
<1>10. CASE s.escaped
  <2>1. t.i = s.i /\ t.z = s.z /\ t.norm = s.norm /\ t.escaped = TRUE
    BY <1>7, <1>9, <1>10
  <2>2. PICK e \in 1 .. i - 1 : SliceLeft(size, b, e, s)
    BY <1>3, <1>10 DEF SliceTracks
  <2>3. s.i = e - 1 /\ Calm(size, b, e - 1) /\ Gt(size[e], b)
    BY <2>2 DEF SliceLeft
  <2>4. e \in 1 .. j.iters /\ e \in 1 .. i /\ e \in 0 .. j.iters /\ e \in 0 .. e
    BY <1>1, <1>4
  <2>5. w = z[e]
    BY <1>3, <1>5, <2>3, <2>4, NextOfSlice
  <2>6. w \in Vectors(n) /\ size[e] = TrueSize(w)
    BY <2>4, <2>5 DEF IsOrbit
  <2>7. PICK m : m = size[e]
    OBVIOUS
  <2>8. m \in 0 .. Inf /\ (Finite(m) => n2 = m)
    BY <1>1, <1>6, <2>6, <2>7, NormsOfLane
  <2>9. ASSUME Finite(m) PROVE t.min = s.min /\ t.max = s.max
    <3>1. IsSmallest(size, e, s.min) /\ IsLargest(size, e, s.max)
      BY <2>2, <2>7, <2>9 DEF SliceLeft
    <3>2. \A k \in 0 .. e : size[k] \in 0 .. Inf
      <4>1. \A k \in 0 .. e : k \in 0 .. j.iters
        BY <1>1, <2>4
      <4> QED BY <4>1 DEF IsOrbit
    <3>3. s.min \in 0 .. Inf /\ s.max \in 0 .. Inf /\ s.min <= m /\ m <= s.max
      BY <2>4, <2>7, <3>1, <3>2 DEF IsSmallest, IsLargest
    <3>4. PICK lo, hi : lo = s.min /\ hi = s.max
      OBVIOUS
    <3>5. (IF Gt(m, lo) THEN lo ELSE m) = lo /\ (IF Gt(hi, m) THEN hi ELSE m) = hi
      BY <2>8, <3>3, <3>4, Numbers DEF Gt
    <3> QED BY <1>9, <2>8, <2>9, <3>4, <3>5
  <2>10. SliceLeft(size, b, e, t)
    BY <2>1, <2>2, <2>7, <2>9 DEF SliceLeft
  <2>11. SliceTracks(size, b, i, t)
    BY <2>1, <2>4, <2>10, Zenon DEF SliceTracks
  <2> QED BY <1>2, <1>3, <1>4, <1>9, <2>1, <2>11 DEF InSlice
<1>11. CASE ~s.escaped
  <2>1. s.i = i - 1 /\ s.norm = 0 /\ on = TRUE
    BY <1>3, <1>11 DEF SliceTracks
  <2>2. w = z[i]
    BY <1>3, <1>5, <2>1, NextOfSlice
  <2>3. PICK m : m = size[i]
    OBVIOUS
  <2>4. w \in Vectors(n) /\ m = TrueSize(w)
    BY <1>1, <2>2, <2>3 DEF IsOrbit
  <2>5. m \in 0 .. Inf /\ (Finite(m) => n2 = m) /\ (n2 = m \/ (n2 \in {Inf, NaN} /\ m = Inf))
    BY <1>1, <1>6, <2>4, NormsOfLane
  <2>6. out = Gt(m, b)
    <3>1. CASE n2 = m
      <4>1. n2 # NaN
        BY <2>5, <3>1, Numbers
      <4>2. out <=> Gt(m, b)
        BY <1>7, <2>1, <3>1, <4>1, Zenon
      <4>3. Gt(m, b) \in BOOLEAN
        BY DEF Gt
      <4> QED BY <1>7, <4>2, <4>3
    <3>2. CASE n2 \in {Inf, NaN} /\ m = Inf
      <4>1. Gt(Inf, b)
        BY <1>1, <1>2, Numbers DEF Gt
      <4>2. Gt(m, b) = TRUE
        BY <3>2, <4>1 DEF Gt
      <4>3. Gt(n2, b) \/ n2 = NaN
        BY <3>2, <4>1
      <4> QED BY <1>7, <2>1, <4>2, <4>3, Zenon
    <3> QED BY <2>5, <3>1, <3>2
  <2>7. t.escaped = out /\ t.i = (IF out THEN i - 1 ELSE i) /\ t.z = (IF out THEN z[i - 1] ELSE z[i])
    BY <1>3, <1>7, <1>9, <1>11, <2>1, <2>2
  <2>8. ~out => n2 = m /\ t.norm = 0
    <3>1. m = Inf => Gt(m, b)
      BY <1>1, <1>2, Numbers DEF Gt
    <3> QED BY <1>9, <2>1, <2>5, <2>6, <3>1
  <2>9. (out /\ Finite(m) => t.norm = m) /\ (out /\ ~Finite(m) => ~Finite(t.norm))
    <3>1. ~Finite(Inf) /\ ~Finite(NaN)
      BY Numbers
    <3> QED BY <1>9, <2>5, <3>1
  <2>10. ASSUME ~out \/ Finite(m)
         PROVE  t.min = (IF m < s.min THEN m ELSE s.min) /\ t.max = (IF m > s.max THEN m ELSE s.max)
    <3>1. n2 = m
      BY <2>5, <2>8, <2>10
    <3>2. IsSmallest(size, i - 1, s.min) /\ IsLargest(size, i - 1, s.max)
      BY <1>3, <1>11 DEF SliceTracks
    <3>3. \A k \in 0 .. i - 1 : size[k] \in 0 .. Inf
      BY <1>4 DEF IsOrbit
    <3>4. PICK lo, hi : lo = s.min /\ hi = s.max
      OBVIOUS
    <3>5. lo \in 0 .. Inf /\ hi \in 0 .. Inf
      BY <3>2, <3>3, <3>4 DEF IsSmallest, IsLargest
    <3>6. (IF Gt(m, lo) THEN lo ELSE m) = (IF m < lo THEN m ELSE lo)
          /\ (IF Gt(hi, m) THEN hi ELSE m) = (IF m > hi THEN m ELSE hi)
      BY <2>5, <3>5, Numbers DEF Gt
    <3> QED BY <1>9, <3>1, <3>4, <3>6
  <2>11. \A k \in 0 .. i : size[k] \in 0 .. Inf
    BY <1>4 DEF IsOrbit
  <2>12. SliceTracks(size, b, i, t)
    BY <1>3, <1>4, <1>11, <2>3, <2>6, <2>7, <2>8, <2>9, <2>10, <2>11, SliceTurns
  <2>13. t.i \in 0 .. i /\ t.z = z[t.i]
    BY <1>4, <2>7
  <2> QED BY <1>2, <1>3, <1>9, <2>12, <2>13 DEF InSlice
<1> QED BY <1>10, <1>11

SliceLanesOf(copy, j, inside) == [loop |-> "slice lanes", copy |-> copy, job |-> j, inside |-> inside]

LEMMA SliceLanesRun ==
  ASSUME NEW copy, NEW j, NEW pts, NEW inside, j.iters \in Nat
  PROVE  \E g : /\ Runs(g, SliceLanesOf(copy, j, inside), [l \in DOMAIN pts |-> SliceStart(j, pts[l])], j.iters)
                /\ SliceLanes(copy, j, pts, inside) = g[j.iters]
<1> DEFINE k == SliceLanesOf(copy, j, inside)
           first == [l \in DOMAIN pts |-> SliceStart(j, pts[l])]
<1>1. \A v : Turn(k, v) = LanesBody(copy, j, inside, v)
  BY DEF Turn, SliceLanesOf
<1>2. PICK g : g = CHOOSE f : f = [i \in 0 .. j.iters |-> IF i = 0 THEN first
                                                          ELSE LanesBody(copy, j, inside, f[i - 1])]
  OBVIOUS
<1>3. SliceLanes(copy, j, pts, inside) = g[j.iters]
  BY <1>2 DEF SliceLanes, Iterate, LanesBody
<1>4. g = CHOOSE f : f = [i \in 0 .. j.iters |-> IF i = 0 THEN first ELSE Turn(k, f[i - 1])]
  BY <1>1, <1>2
<1> HIDE DEF k, first
<1> QED BY <1>3, <1>4, Unrolled DEF k, first

LaneHolds(j, z, size, c, l, i, v) == l \in DOMAIN v /\ InSlice(j, z, size, c, i, v[l])

LEMMA SliceLanesEnd ==
  ASSUME NEW n, NEW j, NEW c, NEW z, NEW size, IsOrbit(n, j, c, z, size), NEW copy \in Copies,
         NEW pts, NEW inside, inside \subseteq DOMAIN pts, NEW l \in inside, IsStart(SliceStart(j, pts[l]), c, z)
  PROVE  InSlice(j, z, size, c, j.iters, SliceLanes(copy, j, pts, inside)[l])
<1>1. j.iters \in Nat
  BY SliceJobs DEF IsOrbit
<1>2. PICK first : first = [k \in DOMAIN pts |-> SliceStart(j, pts[k])]
  OBVIOUS
<1>3. PICK g : /\ Runs(g, SliceLanesOf(copy, j, inside), first, j.iters)
               /\ SliceLanes(copy, j, pts, inside) = g[j.iters]
  BY <1>1, <1>2, SliceLanesRun
<1>4. \A v : Turn(SliceLanesOf(copy, j, inside), v) = LanesBody(copy, j, inside, v)
  BY DEF Turn, SliceLanesOf
<1>5. g[0] = first /\ \A i \in 1 .. j.iters : g[i] = LanesBody(copy, j, inside, g[i - 1])
  BY <1>3, <1>4 DEF Runs
<1> DEFINE T == {i \in 0 .. j.iters : LaneHolds(j, z, size, c, l, i, g[i])}
<1>6. 0 \in T
  <2>1. PICK s : s = g[0][l]
    OBVIOUS
  <2>2. s = SliceStart(j, pts[l]) /\ l \in DOMAIN g[0]
    BY <1>2, <1>5, <2>1
  <2>3. /\ DOMAIN s = SliceFields /\ s.i = 0 /\ s.z = z[0] /\ s.c = c
        /\ s.norm = 0 /\ s.escaped = FALSE /\ s.min = SliceNorm(z[0]) /\ s.max = SliceNorm(z[0])
    BY <2>2 DEF IsStart
  <2>4. SliceTracks(size, j.bail * j.bail, 0, s)
    BY <2>3, TracksFromStart
  <2>5. InSlice(j, z, size, c, 0, s)
    BY <2>3, <2>4 DEF InSlice
  <2>6. LaneHolds(j, z, size, c, l, 0, g[0])
    BY <2>1, <2>2, <2>5 DEF LaneHolds
  <2> QED BY <1>1, <2>6
<1>7. ASSUME NEW i \in 1 .. j.iters, i - 1 \in T PROVE i \in T
  <2>1. PICK v, s, t : v = g[i - 1] /\ s = v[l] /\ t = g[i][l]
    OBVIOUS
  <2>2. l \in DOMAIN v /\ InSlice(j, z, size, c, i - 1, s) /\ g[i] = LanesBody(copy, j, inside, v)
    BY <1>5, <1>7, <2>1 DEF LaneHolds
  <2>3. CASE \A k \in inside : v[k].escaped
    <3>1. g[i] = v /\ s.escaped
      BY <2>1, <2>2, <2>3 DEF LanesBody
    <3>2. i \in Nat \ {0} /\ 0 .. i - 1 \subseteq 0 .. i
      BY <1>1
    <3>3. InSlice(j, z, size, c, i, s)
      BY <2>2, <3>1, <3>2, TracksStay DEF InSlice
    <3>4. LaneHolds(j, z, size, c, l, i, g[i])
      BY <2>1, <2>2, <3>1, <3>3 DEF LaneHolds
    <3> QED BY <1>1, <3>4
  <2>4. CASE ~ \A k \in inside : v[k].escaped
    <3>1. g[i] = [k \in DOMAIN v |-> Lane(copy, j, v[k], k \in inside /\ ~v[k].escaped)]
      BY <2>2, <2>4 DEF LanesBody
    <3>2. PICK on \in BOOLEAN : on = (l \in inside /\ ~s.escaped)
      OBVIOUS
    <3>3. t = Lane(copy, j, s, on) /\ l \in DOMAIN g[i]
      BY <2>1, <2>2, <3>1, <3>2
    <3>4. on = ~s.escaped
      BY <3>2
    <3>5. InSlice(j, z, size, c, i, t)
      BY <2>2, <3>3, <3>4, SliceLaneTurn
    <3>6. LaneHolds(j, z, size, c, l, i, g[i])
      BY <2>1, <3>3, <3>5 DEF LaneHolds
    <3> QED BY <1>1, <3>6
  <2> QED BY <2>3, <2>4
<1>8. \A i \in 0 .. j.iters : i \in T
  <2> HIDE DEF T
  <2> QED BY <1>1, <1>6, <1>7, UpTo
<1>9. InSlice(j, z, size, c, j.iters, g[j.iters][l])
  BY <1>1, <1>8 DEF LaneHolds
<1> QED BY <1>3, <1>9

-----------------------------------------------------------------------------
(* The smallest distance in the stored orbit.                              *)
LEMMA SliceDistances ==
  ASSUME NEW n \in Nat, NEW a \in Vectors(n), NEW b \in Vectors(n)
  PROVE  SliceDistance(a, b) \in Distances
<1>1. /\ a.x \in Values /\ b.x \in Values /\ Len(a.axis) = n
      /\ \A k \in 1 .. n : a.axis[k] \in Values /\ b.axis[k] \in Values
  BY VectorParts
<1>2. ASSUME NEW p \in Values, NEW q \in Values
      PROVE  Mul(Add(p, Neg(q)), Add(p, Neg(q))) \in Distances
  <2>1. "+" \in Signs
    BY DEF Signs
  <2>2. Neg(q) \in Values
    BY <2>1, FoldsAreValues
  <2>3. Add(p, Neg(q)) \in Values
    BY <2>2, SumsAreValues
  <2> QED BY <2>3, SquareIs
<1>3. PICK t : t = [k \in 1 .. n |-> Mul(Add(a.axis[k], Neg(b.axis[k])), Add(a.axis[k], Neg(b.axis[k])))]
  OBVIOUS
<1>4. t \in [1 .. n -> Distances]
  BY <1>1, <1>2, <1>3
<1>5. SumOver(n, t) \in Distances
  BY <1>4, SumOfSquares
<1>6. Mul(Add(a.x, Neg(b.x)), Add(a.x, Neg(b.x))) \in Distances
  BY <1>1, <1>2
<1>7. SliceDistance(a, b) = Add(Mul(Add(a.x, Neg(b.x)), Add(a.x, Neg(b.x))), SumOver(n, t))
  BY <1>1, <1>3 DEF SliceDistance
<1> QED BY <1>5, <1>6, <1>7, DistanceSums

(* v is the least of u and of the finite distances of point a of o to the  *)
(* first m of the points behind it.                                        *)
IsNearest(o, a, m, u, v) ==
  /\ v \in 0 .. Huge /\ v <= u
  /\ \A k \in 1 .. m : Finite(SliceDistance(o[a], o[a + k])) => v <= SliceDistance(o[a], o[a + k])
  /\ v = u \/ \E k \in 1 .. m : v = SliceDistance(o[a], o[a + k])

LEMMA NearestGrows ==
  ASSUME NEW o, NEW a, NEW m \in Nat \ {0}, NEW u \in 0 .. Huge, NEW v, IsNearest(o, a, m - 1, u, v),
         NEW d \in Distances, d = SliceDistance(o[a], o[a + m]), NEW w, w = (IF Gt(v, d) THEN d ELSE v)
  PROVE  IsNearest(o, a, m, u, w)
<1>1. /\ v \in 0 .. Huge /\ v <= u
      /\ \A k \in 1 .. m - 1 : Finite(SliceDistance(o[a], o[a + k])) => v <= SliceDistance(o[a], o[a + k])
      /\ v = u \/ \E k \in 1 .. m - 1 : v = SliceDistance(o[a], o[a + k])
  BY DEF IsNearest
<1>2. w \in 0 .. Huge /\ w <= v /\ w <= u /\ (Finite(d) => w <= d) /\ (w = v \/ w = d)
  BY <1>1, Numbers DEF Gt, Distances
<1>3. 1 .. m = (1 .. m - 1) \cup {m}
  OBVIOUS
<1>4. ASSUME NEW k \in 1 .. m, Finite(SliceDistance(o[a], o[a + k])) PROVE w <= SliceDistance(o[a], o[a + k])
  <2>1. CASE k = m
    BY <1>2, <1>4, <2>1
  <2>2. CASE k \in 1 .. m - 1
    <3>1. PICK e : e = SliceDistance(o[a], o[a + k])
      OBVIOUS
    <3>2. Finite(e) /\ v <= e
      BY <1>1, <1>4, <2>2, <3>1
    <3> QED BY <1>1, <1>2, <3>1, <3>2, Numbers
  <2> QED BY <1>3, <2>1, <2>2
<1>5. w = u \/ \E k \in 1 .. m : w = SliceDistance(o[a], o[a + k])
  BY <1>1, <1>2, <1>3
<1> QED BY <1>2, <1>4, <1>5 DEF IsNearest

LEMMA NearerIs ==
  ASSUME NEW n \in Nat, NEW L \in Nat, NEW o, Len(o) = L, \A k \in 1 .. L : o[k] \in Vectors(n),
         NEW a \in 1 .. L, NEW u \in 0 .. Huge
  PROVE  IsNearest(o, a, L - a, u, Nearer(o, a, u))
<1>1. PICK m : m = L - a
  OBVIOUS
<1>2. m \in Nat /\ \A k \in 1 .. m : a + k \in 1 .. L
  BY <1>1
<1>3. PICK d : d = [k \in 1 .. m |-> SliceDistance(o[a], o[a + k])]
  OBVIOUS
<1>4. d \in [1 .. m -> Distances]
  BY <1>2, <1>3, SliceDistances
<1> DEFINE S == 0 .. Huge
           b == [p \in Nat \X S |-> IF p[1] \in 1 .. m THEN (IF Gt(p[2], d[p[1]]) THEN d[p[1]] ELSE p[2]) ELSE p[2]]
           E(g) == [k \in 0 .. m |-> IF k = 0 THEN u
                      ELSE IF Gt(g[k - 1], SliceDistance(o[a], o[a + k])) THEN SliceDistance(o[a], o[a + k])
                           ELSE g[k - 1]]
<1>5. \A v \in S, e \in Distances : (IF Gt(v, e) THEN e ELSE v) \in S
  BY Numbers DEF Gt, Distances
<1>6. b \in [Nat \X S -> S]
  BY <1>4, <1>5
<1>7. PICK f \in [0 .. m -> S] : Recurs(f, u, b, m)
  <2> HIDE DEF b, S
  <2>1. u \in S
    BY DEF S
  <2> QED BY <1>2, <1>6, <2>1, Recursion
<1>8. f[0] = u /\ \A k \in 1 .. m : f[k] = IF Gt(f[k - 1], d[k]) THEN d[k] ELSE f[k - 1]
  <2>1. ASSUME NEW k \in 1 .. m PROVE f[k] = IF Gt(f[k - 1], d[k]) THEN d[k] ELSE f[k - 1]
    <3>1. f[k] = b[<<k, f[k - 1]>>]
      BY <1>7 DEF Recurs
    <3>2. k \in Nat /\ f[k - 1] \in S
      BY <1>2
    <3> QED BY <3>1, <3>2
  <2> QED BY <1>7, <2>1 DEF Recurs
<1> HIDE DEF b
<1>9. f = E(f)
  <2>1. f = [k \in 0 .. m |-> f[k]]
    OBVIOUS
  <2>2. \A k \in 0 .. m : f[k] = IF k = 0 THEN u
                      ELSE IF Gt(f[k - 1], SliceDistance(o[a], o[a + k])) THEN SliceDistance(o[a], o[a + k])
                           ELSE f[k - 1]
    BY <1>2, <1>3, <1>8
  <2> QED BY <2>1, <2>2
<1>10. Nearer(o, a, u) = (CHOOSE g : g = E(g))[m]
  BY <1>1 DEF Nearer
<1>11. PICK g : g = E(g) /\ Nearer(o, a, u) = g[m]
  <2> HIDE DEF E
  <2> QED BY <1>9, <1>10
<1>12. g[0] = u /\ \A k \in 1 .. m : g[k] = IF Gt(g[k - 1], d[k]) THEN d[k] ELSE g[k - 1]
  <2>1. \A k \in 0 .. m : g[k] = IF k = 0 THEN u
                      ELSE IF Gt(g[k - 1], SliceDistance(o[a], o[a + k])) THEN SliceDistance(o[a], o[a + k])
                           ELSE g[k - 1]
    BY <1>11
  <2>2. 0 \in 0 .. m /\ \A k \in 1 .. m : k \in 0 .. m /\ k # 0
    BY <1>2
  <2>3. \A k \in 1 .. m : d[k] = SliceDistance(o[a], o[a + k])
    BY <1>3
  <2> HIDE DEF E
  <2>4. g[0] = u
    BY <2>1, <2>2
  <2>5. ASSUME NEW k \in 1 .. m PROVE g[k] = IF Gt(g[k - 1], d[k]) THEN d[k] ELSE g[k - 1]
    BY <2>1, <2>2, <2>3, Zenon
  <2> QED BY <2>4, <2>5
<1> HIDE DEF E, S
<1> DEFINE T == {k \in 0 .. m : IsNearest(o, a, k, u, g[k])}
<1>13. 0 \in T
  <2>1. IsNearest(o, a, 0, u, u)
    BY Numbers DEF IsNearest
  <2> QED BY <1>2, <1>12, <2>1
<1>14. ASSUME NEW k \in 1 .. m, k - 1 \in T PROVE k \in T
  <2>1. k \in Nat \ {0} /\ IsNearest(o, a, k - 1, u, g[k - 1]) /\ d[k] \in Distances
        /\ d[k] = SliceDistance(o[a], o[a + k])
    BY <1>2, <1>3, <1>4, <1>14
  <2>2. IsNearest(o, a, k, u, g[k])
    BY <1>12, <2>1, NearestGrows
  <2> QED BY <1>2, <2>2
<1>15. \A k \in 0 .. m : k \in T
  <2> HIDE DEF T
  <2> QED BY <1>2, <1>13, <1>14, UpTo
<1>16. IsNearest(o, a, m, u, g[m])
  BY <1>2, <1>15
<1> QED BY <1>1, <1>11, <1>16

(* v is the least finite distance of the first m points of o to the later  *)
(* ones, of L.                                                             *)
IsClosestOf(o, L, m, v) ==
  /\ v \in 0 .. Huge
  /\ \A a \in 1 .. m : \A k \in 1 .. L - a :
       Finite(SliceDistance(o[a], o[a + k])) => v <= SliceDistance(o[a], o[a + k])
  /\ v = Huge \/ \E a \in 1 .. m : \E k \in 1 .. L - a : v = SliceDistance(o[a], o[a + k])

LEMMA ClosestOfGrows ==
  ASSUME NEW o, NEW L \in Nat, NEW m \in 1 .. L, NEW u, IsClosestOf(o, L, m - 1, u),
         NEW v, IsNearest(o, m, L - m, u, v)
  PROVE  IsClosestOf(o, L, m, v)
<1>1. /\ u \in 0 .. Huge
      /\ \A a \in 1 .. m - 1 : \A k \in 1 .. L - a :
           Finite(SliceDistance(o[a], o[a + k])) => u <= SliceDistance(o[a], o[a + k])
      /\ u = Huge \/ \E a \in 1 .. m - 1 : \E k \in 1 .. L - a : u = SliceDistance(o[a], o[a + k])
  BY DEF IsClosestOf
<1>2. /\ v \in 0 .. Huge /\ v <= u
      /\ \A k \in 1 .. L - m : Finite(SliceDistance(o[m], o[m + k])) => v <= SliceDistance(o[m], o[m + k])
      /\ v = u \/ \E k \in 1 .. L - m : v = SliceDistance(o[m], o[m + k])
  BY DEF IsNearest
<1>3. 1 .. m = (1 .. m - 1) \cup {m} /\ m \in 1 .. m
  OBVIOUS
<1>4. ASSUME NEW a \in 1 .. m, NEW k \in 1 .. L - a, Finite(SliceDistance(o[a], o[a + k]))
      PROVE  v <= SliceDistance(o[a], o[a + k])
  <2>1. CASE a = m
    BY <1>2, <1>4, <2>1
  <2>2. CASE a \in 1 .. m - 1
    <3>1. PICK e : e = SliceDistance(o[a], o[a + k])
      OBVIOUS
    <3>2. Finite(e) /\ u <= e
      BY <1>1, <1>4, <2>2, <3>1
    <3> QED BY <1>1, <1>2, <3>1, <3>2, Numbers
  <2> QED BY <1>3, <2>1, <2>2
<1>5. v = Huge \/ \E a \in 1 .. m : \E k \in 1 .. L - a : v = SliceDistance(o[a], o[a + k])
  BY <1>1, <1>2, <1>3
<1> QED BY <1>2, <1>4, <1>5 DEF IsClosestOf

LEMMA ClosestIs ==
  ASSUME NEW n \in Nat, NEW L \in Nat \ {0, 1}, NEW o, Len(o) = L, \A k \in 1 .. L : o[k] \in Vectors(n)
  PROVE  IsClosestOf(o, L, L, Closest(o))
<1> DEFINE S == 0 .. Huge
           b == [p \in Nat \X S |-> IF p[1] \in 1 .. L THEN Nearer(o, p[1], p[2]) ELSE p[2]]
           E(g) == [a \in 0 .. L |-> IF a = 0 THEN Huge ELSE Nearer(o, a, g[a - 1])]
<1>1. \A a \in 1 .. L, v \in S : Nearer(o, a, v) \in S
  <2> SUFFICES ASSUME NEW a \in 1 .. L, NEW v \in S PROVE Nearer(o, a, v) \in S
    OBVIOUS
  <2>1. IsNearest(o, a, L - a, v, Nearer(o, a, v))
    BY NearerIs
  <2> QED BY <2>1 DEF IsNearest
<1>2. b \in [Nat \X S -> S]
  BY <1>1
<1>3. Huge \in S
  BY Numbers
<1>4. PICK f \in [0 .. L -> S] : Recurs(f, Huge, b, L)
  <2> HIDE DEF b, S
  <2> QED BY <1>2, <1>3, Recursion
<1>5. f[0] = Huge /\ \A a \in 1 .. L : f[a] = Nearer(o, a, f[a - 1])
  <2>1. ASSUME NEW a \in 1 .. L PROVE f[a] = Nearer(o, a, f[a - 1])
    <3>1. f[a] = b[<<a, f[a - 1]>>]
      BY <1>4 DEF Recurs
    <3>2. a \in Nat /\ f[a - 1] \in S
      OBVIOUS
    <3> QED BY <3>1, <3>2
  <2> QED BY <1>4, <2>1 DEF Recurs
<1> HIDE DEF b
<1>6. f = E(f)
  <2>1. f = [a \in 0 .. L |-> f[a]]
    OBVIOUS
  <2>2. \A a \in 0 .. L : f[a] = IF a = 0 THEN Huge ELSE Nearer(o, a, f[a - 1])
    BY <1>5
  <2> QED BY <2>1, <2>2
<1>7. Closest(o) = (CHOOSE g : g = E(g))[L]
  BY DEF Closest
<1>8. PICK g : g = E(g) /\ Closest(o) = g[L]
  <2> HIDE DEF E
  <2> QED BY <1>6, <1>7
<1>9. g[0] = Huge /\ \A a \in 1 .. L : g[a] = Nearer(o, a, g[a - 1])
  BY <1>8
<1> HIDE DEF E, S
<1> DEFINE T == {a \in 0 .. L : IsClosestOf(o, L, a, g[a])}
<1>10. 0 \in T
  <2>1. IsClosestOf(o, L, 0, Huge)
    BY Numbers DEF IsClosestOf
  <2> QED BY <1>9, <2>1
<1>11. ASSUME NEW a \in 1 .. L, a - 1 \in T PROVE a \in T
  <2>1. PICK u, v : u = g[a - 1] /\ v = g[a]
    OBVIOUS
  <2>2. IsClosestOf(o, L, a - 1, u) /\ v = Nearer(o, a, u)
    BY <1>9, <1>11, <2>1
  <2>3. u \in 0 .. Huge
    BY <2>2 DEF IsClosestOf
  <2>4. IsNearest(o, a, L - a, u, v)
    BY <2>2, <2>3, NearerIs
  <2>5. IsClosestOf(o, L, a, v)
    BY <2>2, <2>4, ClosestOfGrows
  <2> QED BY <2>1, <2>5
<1>12. \A a \in 0 .. L : a \in T
  <2> HIDE DEF T
  <2> QED BY <1>10, <1>11, UpTo
<1>13. IsClosestOf(o, L, L, g[L])
  BY <1>12
<1> QED BY <1>8, <1>13

(* The stored points are the orbit's first, and the search finds the       *)
(* closest pair of them.                                                   *)
LEMMA ClosestPairIs ==
  ASSUME NEW n \in Nat, NEW kept \in Nat \ {0}, NEW z, NEW o, Len(o) = kept + 1,
         \A k \in 1 .. kept + 1 : o[k] \in Vectors(n) /\ o[k] = z[k - 1]
  PROVE  Closest(o) = ClosestPair(z, kept)
<1>1. PICK L : L = kept + 1
  OBVIOUS
<1>2. L \in Nat \ {0, 1} /\ Len(o) = L /\ (\A k \in 1 .. L : o[k] \in Vectors(n)) /\ \A k \in 1 .. L : o[k] = z[k - 1]
  BY <1>1
<1>3. PICK r : r = Closest(o)
  OBVIOUS
<1>4. /\ r \in 0 .. Huge
      /\ \A a \in 1 .. L : \A k \in 1 .. L - a :
           Finite(SliceDistance(o[a], o[a + k])) => r <= SliceDistance(o[a], o[a + k])
      /\ r = Huge \/ \E a \in 1 .. L : \E k \in 1 .. L - a : r = SliceDistance(o[a], o[a + k])
  <2>1. IsClosestOf(o, L, L, r)
    BY <1>2, <1>3, ClosestIs
  <2> QED BY <2>1 DEF IsClosestOf
<1> DEFINE pairs == {q \in (0 .. kept) \X (0 .. kept) : q[1] < q[2]}
           apart == {SliceDistance(z[q[1]], z[q[2]]) : q \in pairs} \ {NaN, Inf}
<1>5. pairs # {}
  <2>1. <<0, 1>> \in pairs
    BY <1>1
  <2> QED BY <2>1
<1>6. ASSUME NEW q \in pairs PROVE \E a \in 1 .. L : \E k \in 1 .. L - a : q[1] = a - 1 /\ q[2] = a + k - 1
  <2>1. PICK a, k : a = q[1] + 1 /\ k = q[2] - q[1]
    OBVIOUS
  <2>2. PICK x, y : x = q[1] /\ y = q[2]
    OBVIOUS
  <2>3. x \in 0 .. kept /\ y \in 0 .. kept /\ x < y
    BY <2>2
  <2>4. a \in 1 .. L /\ k \in 1 .. L - a /\ x = a - 1 /\ y = a + k - 1
    <3>1. a = x + 1 /\ k = y - x
      BY <2>1, <2>2
    <3> HIDE DEF pairs
    <3> QED BY <1>1, <2>3, <3>1
  <2> QED BY <2>2, <2>4
<1>7. ASSUME NEW a \in 1 .. L, NEW k \in 1 .. L - a
      PROVE  <<a - 1, a + k - 1>> \in pairs /\ o[a] = z[a - 1] /\ o[a + k] = z[a + k - 1]
             /\ SliceDistance(o[a], o[a + k]) \in Distances
  <2>1. a + k \in 1 .. L
    BY <1>1
  <2>2. SliceDistance(o[a], o[a + k]) \in Distances
    BY <1>2, <2>1, SliceDistances
  <2>3. <<a - 1, a + k - 1>> \in pairs
    BY <1>1, <2>1
  <2> QED BY <1>2, <2>1, <2>2, <2>3
<1>8. \A q \in pairs : SliceDistance(z[q[1]], z[q[2]]) \in Distances
  BY <1>6, <1>7
<1>9. \A d \in apart : d \in 0 .. Huge /\ r <= d
  <2> SUFFICES ASSUME NEW q \in pairs, NEW d, d = SliceDistance(z[q[1]], z[q[2]]), d \notin {NaN, Inf}
               PROVE  d \in 0 .. Huge /\ r <= d
    OBVIOUS
  <2>6. d \in Distances
    BY <1>8
  <2>1. d \in 0 .. Huge
    BY <2>6, Numbers DEF Distances
  <2>2. PICK a \in 1 .. L : \E k \in 1 .. L - a : q[1] = a - 1 /\ q[2] = a + k - 1
    BY <1>6
  <2>3. PICK k \in 1 .. L - a : q[1] = a - 1 /\ q[2] = a + k - 1
    BY <2>2
  <2>4. d = SliceDistance(o[a], o[a + k])
    BY <1>7, <2>3
  <2>5. Finite(d)
    BY <2>1, Numbers
  <2> QED BY <1>4, <2>1, <2>4, <2>5
<1>10. r \in {Huge} \cup apart
  <2>1. CASE r = Huge
    BY <2>1
  <2>2. CASE r # Huge
    <3>1. PICK a \in 1 .. L : \E k \in 1 .. L - a : r = SliceDistance(o[a], o[a + k])
      BY <1>4, <2>2
    <3>2. PICK k \in 1 .. L - a : r = SliceDistance(o[a], o[a + k])
      BY <3>1
    <3>3. PICK q : q = <<a - 1, a + k - 1>>
      OBVIOUS
    <3>4. q \in pairs /\ q[1] = a - 1 /\ q[2] = a + k - 1
      BY <1>7, <3>3
    <3>5. r = SliceDistance(z[q[1]], z[q[2]])
      BY <1>7, <3>2, <3>4
    <3>6. r \notin {NaN, Inf}
      BY <1>4, Numbers
    <3> QED BY <3>4, <3>5, <3>6
  <2> QED BY <2>1, <2>2
<1>11. ClosestPair(z, kept) = IF pairs = {} THEN 0 ELSE Least({Huge} \cup apart)
  BY DEF ClosestPair
<1> HIDE DEF pairs, apart
<1>12. {Huge} \cup apart \subseteq Int /\ \A d \in {Huge} \cup apart : r <= d
  BY <1>4, <1>9, Numbers
<1>13. Least({Huge} \cup apart) = r
  BY <1>10, <1>12, LeastIs
<1> QED BY <1>3, <1>5, <1>11, <1>13

-----------------------------------------------------------------------------
(* The stored orbit: its first points, up to the cap; the first is always  *)
(* there.  m points have been visited after the first.                     *)
Capped(cap, m) == IF m + 1 <= cap THEN m + 1 ELSE IF cap = 0 THEN 1 ELSE cap

Stored(n, z, cap, m, o) ==
  o \in Seq(Vectors(n)) /\ Len(o) = Capped(cap, m) /\ \A k \in 1 .. Len(o) : o[k] = z[k - 1]

Visits(s) == IF s.escaped THEN s.i + 1 ELSE s.i

LEMMA StoredGrows ==
  ASSUME NEW n \in Nat, NEW z, NEW cap \in Nat, NEW m \in Nat \ {0}, NEW o, Stored(n, z, cap, m - 1, o),
         NEW w \in Vectors(n), w = z[m], NEW q, q = (IF Len(o) < cap THEN Append(o, w) ELSE o)
  PROVE  Stored(n, z, cap, m, q)
<1>1. o \in Seq(Vectors(n)) /\ Len(o) = Capped(cap, m - 1) /\ \A k \in 1 .. Len(o) : o[k] = z[k - 1]
  BY DEF Stored
<1>2. PICK e : e = Len(o)
  OBVIOUS
<1>3. e \in Nat /\ e = Capped(cap, m - 1)
  BY <1>1, <1>2
<1>4. CASE e < cap
  <2>1. e = m /\ Capped(cap, m) = m + 1
    BY <1>3, <1>4 DEF Capped
  <2>2. q = Append(o, w)
    BY <1>2, <1>4
  <2>3. q \in Seq(Vectors(n)) /\ Len(q) = e + 1 /\ q[e + 1] = w /\ \A k \in 1 .. e : q[k] = o[k]
    BY <1>1, <1>2, <2>2
  <2>4. \A k \in 1 .. e + 1 : q[k] = z[k - 1]
    <3>1. 1 .. e + 1 = (1 .. e) \cup {e + 1} /\ (e + 1) - 1 = e
      BY <1>3
    <3> QED BY <1>1, <1>2, <2>1, <2>3, <3>1
  <2> QED BY <2>1, <2>3, <2>4 DEF Stored
<1>5. CASE ~(e < cap)
  <2>1. Capped(cap, m) = e
    BY <1>3, <1>5 DEF Capped
  <2>2. q = o
    BY <1>2, <1>5
  <2> QED BY <1>1, <1>2, <2>1, <2>2 DEF Stored
<1> QED BY <1>3, <1>4, <1>5

LEMMA StoredTurn ==
  ASSUME NEW n, NEW j, NEW c, NEW z, NEW size, IsOrbit(n, j, c, z, size), NEW copy \in Copies,
         NEW i \in 1 .. j.iters, NEW s, InSlice(j, z, size, c, i - 1, s),
         Stored(n, z, j.cap, Visits(s), s.orbit), NEW t, t = SliceBody(copy, j, s)
  PROVE  Stored(n, z, j.cap, Visits(t), t.orbit)
<1>1. IsSliceJob(n, j) /\ j.iters \in Nat /\ n \in Nat /\ j.cap \in Nat
  BY SliceJobs DEF IsOrbit
<1>2. PICK b : b = j.bail * j.bail
  OBVIOUS
<1>3. /\ DOMAIN s = SliceFields /\ s.c = c /\ s.i \in 0 .. i - 1 /\ s.z = z[s.i]
      /\ SliceTracks(size, b, i - 1, s)
  BY <1>2 DEF InSlice
<1>4. CASE s.escaped
  BY <1>4 DEF SliceBody
<1>5. CASE ~s.escaped
  <2>1. s.i = i - 1
    BY <1>3, <1>5 DEF SliceTracks
  <2>2. SliceStep(copy, j.legs, s.z, s.c) = z[i]
    BY <1>3, <2>1, NextOfSlice
  <2>3. PICK w, m, out, cap, o, q : /\ w = z[i] /\ m = size[i] /\ out = Gt(m, b) /\ cap = j.cap
                                    /\ o = s.orbit /\ q = (IF Len(o) < cap THEN Append(o, w) ELSE o)
    OBVIOUS
  <2>4. w \in Vectors(n) /\ m = TrueSize(w)
    BY <1>1, <2>3 DEF IsOrbit
  <2>5. t = Visit(j, s, w, m, out)
    BY <1>1, <1>2, <1>5, <2>2, <2>3, <2>4, MeasureIs DEF SliceBody
  <2>6. t.escaped = out /\ t.i = (IF out THEN s.i ELSE s.i + 1) /\ t.orbit = q
    BY <1>3, <2>3, <2>5, VisitIs
  <2>7. Stored(n, z, cap, i - 1, o)
    BY <1>5, <2>1, <2>3 DEF Visits
  <2>8. i \in Nat \ {0} /\ cap \in Nat
    BY <1>1, <2>3
  <2>9. Stored(n, z, cap, i, q)
    BY <1>1, <2>3, <2>4, <2>7, <2>8, StoredGrows
  <2>10. Visits(t) = i
    BY <2>1, <2>6, <2>8 DEF Visits
  <2> QED BY <2>3, <2>6, <2>9, <2>10
<1> QED BY <1>4, <1>5

(* The scalar loop and what it stores.                                     *)
InStore(n, j, z, size, c, i, s) ==
  InSlice(j, z, size, c, i, s) /\ Stored(n, z, j.cap, Visits(s), s.orbit)

LEMMA SliceLoopStores ==
  ASSUME NEW n, NEW j, NEW c, NEW z, NEW size, IsOrbit(n, j, c, z, size), NEW copy \in Copies,
         NEW p, IsStart(SliceStart(j, p), c, z)
  PROVE  InStore(n, j, z, size, c, j.iters, SliceLoop(copy, j, p))
<1>1. j.iters \in Nat /\ j.cap \in Nat /\ n \in Nat
  BY SliceJobs DEF IsOrbit
<1>2. PICK g : Runs(g, SliceLoopOf(copy, j), SliceStart(j, p), j.iters) /\ SliceLoop(copy, j, p) = g[j.iters]
  BY <1>1, SliceLoopRuns
<1>3. \A s : Turn(SliceLoopOf(copy, j), s) = SliceBody(copy, j, s)
  BY DEF Turn, SliceLoopOf
<1>4. g[0] = SliceStart(j, p) /\ \A i \in 1 .. j.iters : g[i] = SliceBody(copy, j, g[i - 1])
  BY <1>2, <1>3 DEF Runs
<1> DEFINE T == {i \in 0 .. j.iters : InStore(n, j, z, size, c, i, g[i])}
<1>5. 0 \in T
  <2>1. PICK s : s = g[0]
    OBVIOUS
  <2>2. /\ DOMAIN s = SliceFields /\ s.i = 0 /\ s.z = z[0] /\ s.c = c
        /\ s.norm = 0 /\ s.escaped = FALSE /\ s.min = SliceNorm(z[0]) /\ s.max = SliceNorm(z[0])
        /\ s.orbit = <<z[0]>>
    BY <1>4, <2>1 DEF IsStart
  <2>3. SliceTracks(size, j.bail * j.bail, 0, s)
    BY <2>2, TracksFromStart
  <2>4. InSlice(j, z, size, c, 0, s)
    BY <2>2, <2>3 DEF InSlice
  <2>5. PICK w, o : w = z[0] /\ o = <<w>>
    OBVIOUS
  <2>6. w \in Vectors(n)
    BY <1>1, <2>5 DEF IsOrbit
  <2>7. o \in Seq(Vectors(n)) /\ Len(o) = 1 /\ \A k \in 1 .. 1 : o[k] = z[k - 1]
    BY <2>5, <2>6
  <2>8. Capped(j.cap, 0) = 1
    BY <1>1 DEF Capped
  <2>9. Stored(n, z, j.cap, 0, o)
    BY <2>7, <2>8 DEF Stored
  <2>10. Visits(s) = 0 /\ s.orbit = o
    BY <2>2, <2>5 DEF Visits
  <2>11. InStore(n, j, z, size, c, 0, s)
    BY <2>4, <2>9, <2>10 DEF InStore
  <2> QED BY <1>1, <2>1, <2>11
<1>6. ASSUME NEW i \in 1 .. j.iters, i - 1 \in T PROVE i \in T
  <2>1. PICK s, t : s = g[i - 1] /\ t = g[i]
    OBVIOUS
  <2>2. InSlice(j, z, size, c, i - 1, s) /\ Stored(n, z, j.cap, Visits(s), s.orbit) /\ t = SliceBody(copy, j, s)
    BY <1>4, <1>6, <2>1 DEF InStore
  <2>3. InSlice(j, z, size, c, i, t)
    BY <2>2, SliceLoopTurn
  <2>4. Stored(n, z, j.cap, Visits(t), t.orbit)
    BY <2>2, StoredTurn
  <2> QED BY <1>1, <2>1, <2>3, <2>4 DEF InStore
<1>7. \A i \in 0 .. j.iters : i \in T
  <2> HIDE DEF T
  <2> QED BY <1>1, <1>5, <1>6, UpTo
<1>8. InStore(n, j, z, size, c, j.iters, g[j.iters])
  BY <1>1, <1>7
<1> QED BY <1>2, <1>8

LEMMA ClosestOfStored ==
  ASSUME NEW n \in Nat, NEW z, NEW cap \in Nat, NEW m \in Nat, NEW o, Stored(n, z, cap, m, o),
         NEW kept, kept = (IF cap <= m + 1 THEN cap - 1 ELSE m)
  PROVE  Closest(o) = ClosestPair(z, kept)
<1>1. o \in Seq(Vectors(n)) /\ Len(o) = Capped(cap, m) /\ \A k \in 1 .. Len(o) : o[k] = z[k - 1]
  BY DEF Stored
<1>2. CASE kept <= 0
  <2>1. Len(o) = 1
    BY <1>1, <1>2 DEF Capped
  <2>2. Closest(o) = 0
    BY <2>1 DEF Closest
  <2>3. {q \in (0 .. kept) \X (0 .. kept) : q[1] < q[2]} = {}
    <3>1. kept \in {0, -1}
      BY <1>2
    <3>2. \A a \in 0 .. kept, b \in 0 .. kept : ~(a < b)
      BY <3>1
    <3> QED BY <3>2
  <2>4. ClosestPair(z, kept) = 0
    BY <2>3 DEF ClosestPair
  <2> QED BY <2>2, <2>4
<1>3. CASE ~(kept <= 0)
  <2>1. kept \in Nat \ {0} /\ Len(o) = kept + 1
    BY <1>1, <1>3 DEF Capped
  <2>2. PICK h : h = kept
    OBVIOUS
  <2>3. h \in Nat \ {0} /\ Len(o) = h + 1 /\ \A k \in 1 .. h + 1 : o[k] \in Vectors(n) /\ o[k] = z[k - 1]
    BY <1>1, <2>1, <2>2
  <2>4. Closest(o) = ClosestPair(z, h)
    BY <2>3, ClosestPairIs
  <2> QED BY <2>2, <2>4
<1> QED BY <1>2, <1>3

(* iterate_transition_extra: the closest pair of the orbit up to the point *)
(* that escaped.                                                           *)
LEMMA ExtraIs ==
  ASSUME NEW n, NEW j, NEW c, NEW z, NEW size, IsOrbit(n, j, c, z, size),
         NEW p, IsStart(SliceStart(j, p), c, z), NEW r, r = ToldOrbit(j, z, size)
  PROVE  iterate_transition_extra(j, p) = r.extra
<1>1. j.iters \in Nat /\ j.cap \in Nat /\ n \in Nat
  BY SliceJobs DEF IsOrbit
<1>2. PICK s : s = SliceLoop("openmp", j, p)
  OBVIOUS
<1>3. "openmp" \in Copies
  BY DEF Copies
<1>4. InSlice(j, z, size, c, j.iters, s) /\ Stored(n, z, j.cap, Visits(s), s.orbit)
  BY <1>2, <1>3, SliceLoopStores DEF InStore
<1>5. Tells(j, z, size, s, r)
  BY <1>4, SliceAnswered DEF InSlice
<1>6. /\ TellsCalm(j, z, size, Told(j, z, size, FALSE, j.iters))
      /\ \A e : TellsLeft(j, z, size, e, Told(j, z, size, TRUE, e))
  BY ToldIs
<1>7. CASE ~s.escaped
  <2>1. r.extra = ClosestPair(z, IF j.cap <= j.iters + 1 THEN j.cap - 1 ELSE j.iters) /\ s.i = j.iters
    BY <1>5, <1>6, <1>7, Zenon DEF Tells, TellsCalm
  <2>2. Visits(s) = j.iters
    BY <1>7, <2>1 DEF Visits
  <2> QED BY <1>1, <1>2, <1>4, <2>1, <2>2, ClosestOfStored DEF iterate_transition_extra
<1>8. CASE s.escaped
  <2>1. PICK e \in 1 .. j.iters : s.i = e - 1 /\ r = Told(j, z, size, TRUE, e)
    BY <1>5, <1>8, Zenon DEF Tells
  <2>2. r.extra = ClosestPair(z, IF j.cap <= e + 1 THEN j.cap - 1 ELSE e)
    BY <1>6, <2>1, Zenon DEF TellsLeft
  <2>3. Visits(s) = e
    BY <1>1, <1>8, <2>1 DEF Visits
  <2> QED BY <1>1, <1>2, <1>4, <2>2, <2>3, ClosestOfStored DEF iterate_transition_extra
<1> QED BY <1>5, <1>7, <1>8 DEF Tells

-----------------------------------------------------------------------------
(* Jobs of slices and volumes, and their points.                           *)
LEMMA SliceRequests ==
  ASSUME NEW j, IsRequest(j), IsSlice(j), j.plane \in {"slice", "volume"}
  PROVE  /\ IsSliceJob(Len(j.legs), j) /\ Len(j.legs) \in 1 .. 4
         /\ j.plane = "slice" => \A k \in 1 .. Len(j.legs) : Finite(j.legs[k].dir)
         /\ j.plane = "volume" => ~j.julia /\ \A k \in 1 .. Len(j.legs) :
              j.legs[k].y_factor \in {-1, 0, 1} /\ j.legs[k].z_factor \in {-1, 0, 1}
<1>1. PICK n, legs : n = Len(j.legs) /\ legs = j.legs
  OBVIOUS
<1>2. n \in 1 .. 4 /\ n \in Nat
  BY <1>1 DEF IsSlice, MaxLegs
<1>3. PICK reach : reach = j.width + j.height + j.from + LnRadius
  OBVIOUS
<1>4. n <= Huge
  <2>1. PICK a : a = j.centre.re
    OBVIOUS
  <2>2. a \in Int /\ -Huge <= a - reach /\ a + reach <= Huge
    BY <1>3, <2>1 DEF IsRequest
  <2>3. reach \in Int /\ reach >= 4
    BY <1>3, Requests DEF LnRadius
  <2> QED BY <1>2, <2>2, <2>3, Numbers
<1>5. CASE j.plane = "slice"
  <2>1. legs \in Seq(SliceLegs)
    BY <1>1, <1>5 DEF IsSlice
  <2>2. DOMAIN legs = 1 .. n /\ \A k \in 1 .. n : legs[k] \in SliceLegs
    BY <1>1, <2>1
  <2>3. \A k \in 1 .. n : legs[k].variant \in Quadratic /\ legs[k].influence = 1 /\ legs[k].dir \in -Huge .. Huge
    BY <2>2 DEF SliceLegs
  <2>4. IsLegs(n, legs)
    BY <1>1, <2>2, <2>3 DEF IsLegs
  <2>5. \A k \in 1 .. n : Finite(legs[k].dir)
    BY <2>3, Numbers
  <2> QED BY <1>1, <1>2, <1>4, <1>5, <2>4, <2>5, Requests DEF IsSliceJob
<1>6. CASE j.plane = "volume"
  <2>1. legs \in Seq(VolumeLegs) /\ ~j.julia
    BY <1>1, <1>6 DEF IsSlice
  <2>2. DOMAIN legs = 1 .. n /\ \A k \in 1 .. n : legs[k] \in VolumeLegs
    BY <1>1, <2>1
  <2>3. \A k \in 1 .. n : /\ legs[k].variant \in Quadratic /\ legs[k].influence = 1
                          /\ legs[k].y_factor \in {-1, 0, 1} /\ legs[k].z_factor \in {-1, 0, 1}
    BY <2>2 DEF VolumeLegs
  <2>4. IsLegs(n, legs)
    BY <1>1, <2>2, <2>3 DEF IsLegs
  <2> QED BY <1>1, <1>2, <1>4, <1>6, <2>1, <2>3, <2>4, Requests DEF IsSliceJob
<1> QED BY <1>5, <1>6

LEMMA FiniteProducts ==
  \A a, b : Finite(a) /\ Finite(b) => a \in Values /\ b \in Values /\ Mul(a, b) \in Values /\ Mul(a, b) # NaN
<1> SUFFICES ASSUME NEW a, NEW b, Finite(a), Finite(b)
             PROVE  a \in Values /\ b \in Values /\ Mul(a, b) \in Values /\ Mul(a, b) # NaN
  OBVIOUS
<1>1. a \in Int /\ b \in Int /\ a \in Values /\ b \in Values /\ a # NaN /\ b # NaN
  BY Numbers DEF Values
<1>2. PICK n : n = a * b
  OBVIOUS
<1>3. n \in Int
  BY <1>1, <1>2, Products
<1>4. Mul(a, b) = Round(n)
  BY <1>1, <1>2 DEF Mul
<1> QED BY <1>1, <1>3, <1>4, RoundsToValue

LEMMA FiniteSums ==
  \A a, b : Finite(a) /\ Finite(b) => Add(a, b) \in Values /\ Add(a, b) # NaN
<1> SUFFICES ASSUME NEW a, NEW b, Finite(a), Finite(b) PROVE Add(a, b) \in Values /\ Add(a, b) # NaN
  OBVIOUS
<1>1. a \in Int /\ b \in Int /\ a # NaN /\ b # NaN /\ a # Inf /\ b # Inf /\ a # -Inf /\ b # -Inf
  BY Numbers
<1>2. a + b \in Int /\ Add(a, b) = Round(a + b)
  BY <1>1 DEF Add
<1> QED BY <1>2, RoundsToValue

LEMMA EmbedIs ==
  ASSUME NEW n \in Nat, NEW legs, IsLegs(n, legs), \A k \in 1 .. n : Finite(legs[k].dir),
         NEW p, Finite(p.re), Finite(p.im)
  PROVE  Embed(legs, p) \in Vectors(n) /\ NoNaN(Embed(legs, p))
<1>1. PICK axis : axis = [k \in 1 .. n |-> Mul(p.im, legs[k].dir)]
  OBVIOUS
<1>2. Embed(legs, p) = [x |-> p.re, axis |-> axis]
  BY <1>1 DEF Embed, IsLegs
<1>3. axis \in [1 .. n -> Values] /\ \A k \in 1 .. n : axis[k] # NaN
  BY <1>1, FiniteProducts
<1>4. p.re \in Values /\ p.re # NaN
  BY Numbers DEF Values
<1>5. PICK e : e = [x |-> p.re, axis |-> axis]
  OBVIOUS
<1>6. e.x = p.re /\ e.axis = axis /\ e \in Vectors(n)
  BY <1>3, <1>4, <1>5 DEF Vectors
<1>7. NoNaN(e)
  BY <1>3, <1>4, <1>6 DEF NoNaN
<1> QED BY <1>2, <1>5, <1>6, <1>7

LEMMA EmbedVoxelIs ==
  ASSUME NEW n \in Nat, NEW legs, IsLegs(n, legs),
         \A k \in 1 .. n : legs[k].y_factor \in {-1, 0, 1} /\ legs[k].z_factor \in {-1, 0, 1},
         NEW p, Finite(p.re), Finite(p.y), Finite(p.z)
  PROVE  EmbedVoxel(legs, p) \in Vectors(n) /\ NoNaN(EmbedVoxel(legs, p))
<1>1. PICK axis : axis = [k \in 1 .. n |-> Add(Mul(p.y, legs[k].y_factor), Mul(p.z, legs[k].z_factor))]
  OBVIOUS
<1>2. EmbedVoxel(legs, p) = [x |-> p.re, axis |-> axis]
  BY <1>1 DEF EmbedVoxel, IsLegs
<1>3. \A a : Finite(a) => \A f \in {-1, 0, 1} : Finite(Mul(a, f))
  <2> SUFFICES ASSUME NEW a, Finite(a), NEW f \in {-1, 0, 1} PROVE Finite(Mul(a, f))
    OBVIOUS
  <2>1. a \in Int /\ a # NaN /\ f # NaN /\ Finite(f)
    BY Numbers
  <2>2. Mul(a, f) = Round(a * f)
    BY <2>1 DEF Mul
  <2>3. a * f \in {a, 0, -a}
    BY <2>1
  <2>4. Finite(a * f)
    BY <2>1, <2>3, Numbers
  <2>5. PICK m : m = a * f
    OBVIOUS
  <2> QED BY <2>2, <2>4, <2>5, Numbers DEF Round
<1>4. axis \in [1 .. n -> Values] /\ \A k \in 1 .. n : axis[k] # NaN
  BY <1>1, <1>3, FiniteSums
<1>5. p.re \in Values /\ p.re # NaN
  BY Numbers DEF Values
<1>6. PICK e : e = [x |-> p.re, axis |-> axis]
  OBVIOUS
<1>7. e.x = p.re /\ e.axis = axis /\ e \in Vectors(n)
  BY <1>4, <1>5, <1>6 DEF Vectors
<1>8. NoNaN(e)
  BY <1>4, <1>5, <1>7 DEF NoNaN
<1> QED BY <1>2, <1>6, <1>7, <1>8

-----------------------------------------------------------------------------
(* Pixels and voxels are finite numbers.                                   *)
LEMMA FiniteReach ==
  ASSUME NEW j, IsRequest(j), NEW d \in Int, NEW a \in {j.centre.re, j.centre.im},
         -(j.width + j.height + j.from + 4) <= d, d <= j.width + j.height + j.from + 4
  PROVE  Finite(a + d) /\ Finite(a - d) /\ Finite(d)
<1>1. PICK reach : reach = j.width + j.height + j.from + LnRadius
  OBVIOUS
<1>2. a \in Int /\ -Huge <= a - reach /\ a + reach <= Huge
  BY <1>1 DEF IsRequest
<1>3. reach \in Int /\ -reach <= d /\ d <= reach
  BY <1>1, Requests DEF LnRadius
<1> QED BY <1>2, <1>3, Numbers

LEMMA FinitePixels ==
  ASSUME NEW j, IsRequest(j), j.plane # "ln", NEW x \in 0 .. j.width - 1, NEW y \in 0 .. j.height - 1
  PROVE  Finite(TruePixel(j, x, y).re) /\ Finite(TruePixel(j, x, y).im)
<1>1. PICK dx : dx = 2 * x + 1 - j.width
  OBVIOUS
<1>2. PICK dy : dy = j.height - (2 * y + 1)
  OBVIOUS
<1>3. /\ dx \in Int /\ -(j.width + j.height + j.from + 4) <= dx /\ dx <= j.width + j.height + j.from + 4
      /\ dy \in Int /\ -(j.width + j.height + j.from + 4) <= dy /\ dy <= j.width + j.height + j.from + 4
  BY <1>1, <1>2, Requests
<1>4. /\ Finite(j.centre.re + dx) /\ Finite(j.centre.im + dy)
      /\ Finite(j.centre.re + dy) /\ Finite(j.centre.re - dy)
      /\ Finite(j.centre.im + dx) /\ Finite(j.centre.im - dx)
  BY <1>3, FiniteReach
<1>5. /\ (j.turned = 0 => TruePixel(j, x, y) = Point(j.centre.re + dx, j.centre.im + dy))
      /\ (j.turned # 0 => TruePixel(j, x, y) = Point(j.centre.re - j.turned * dy, j.centre.im + j.turned * dx))
  BY <1>1, <1>2 DEF TruePixel
<1>6. CASE j.turned = 0
  BY <1>4, <1>5, <1>6 DEF Point
<1>7. CASE j.turned = 1
  <2>1. j.turned * dy = dy /\ j.turned * dx = dx
    BY <1>3, <1>7
  <2> QED BY <1>4, <1>5, <1>7, <2>1 DEF Point
<1>8. CASE j.turned = -1
  <2>1. j.centre.re - j.turned * dy = j.centre.re + dy /\ j.centre.im + j.turned * dx = j.centre.im - dx
    BY <1>3, <1>8, Requests
  <2> QED BY <1>4, <1>5, <1>8, <2>1 DEF Point
<1> QED BY <1>6, <1>7, <1>8, Requests

LEMMA FiniteVoxels ==
  ASSUME NEW j, IsRequest(j), NEW x \in 0 .. j.width - 1, NEW y \in 0 .. j.width - 1, NEW z \in 0 .. j.width - 1
  PROVE  Finite(Voxel(j, x, y, z).re) /\ Finite(Voxel(j, x, y, z).y) /\ Finite(Voxel(j, x, y, z).z)
<1>1. PICK a, b, c : a = 2 * x + 1 - j.width /\ b = 2 * y + 1 - j.width /\ c = 2 * z + 1 - j.width
  OBVIOUS
<1>2. /\ a \in Int /\ -(j.width + j.height + j.from + 4) <= a /\ a <= j.width + j.height + j.from + 4
      /\ b \in Int /\ -(j.width + j.height + j.from + 4) <= b /\ b <= j.width + j.height + j.from + 4
      /\ c \in Int /\ -(j.width + j.height + j.from + 4) <= c /\ c <= j.width + j.height + j.from + 4
  BY <1>1, Requests
<1>3. Finite(j.centre.re + a) /\ Finite(j.centre.im + b) /\ Finite(c)
  BY <1>2, FiniteReach
<1>4. Voxel(j, x, y, z) = [re |-> j.centre.re + a, y |-> j.centre.im + b, z |-> c]
  BY <1>1 DEF Voxel
<1> QED BY <1>3, <1>4

-----------------------------------------------------------------------------
(* The orbit of a pixel of a slice and of a voxel of a volume.             *)
FirstOf(j, p) == IF j.plane = "volume" THEN EmbedVoxel(j.legs, p) ELSE Embed(j.legs, p)
ConstantOf(j, p) == IF j.julia THEN Embed(j.legs, j.jc) ELSE FirstOf(j, p)

PointOrbit(j, p, z, size) ==
  /\ IsOrbit(Len(j.legs), j, ConstantOf(j, p), z, size) /\ z[0] = FirstOf(j, p)
  /\ SliceReference(j, FirstOf(j, p), ConstantOf(j, p)) = ToldOrbit(j, z, size)

LEMMA PointsHaveOrbits ==
  ASSUME NEW j, IsRequest(j), IsSlice(j), j.plane \in {"slice", "volume"}, NEW p, Finite(p.re),
         j.plane = "slice" => Finite(p.im), j.plane = "volume" => Finite(p.y) /\ Finite(p.z)
  PROVE  \E z, size : PointOrbit(j, p, z, size)
<1>1. PICK n, start, c : n = Len(j.legs) /\ start = FirstOf(j, p) /\ c = ConstantOf(j, p)
  OBVIOUS
<1>2. IsSliceJob(n, j) /\ n \in Nat /\ IsLegs(n, j.legs)
  BY <1>1, SliceRequests DEF IsSliceJob
<1>3. start \in Vectors(n) /\ NoNaN(start)
  <2>1. CASE j.plane = "slice"
    <3>1. \A k \in 1 .. n : Finite(j.legs[k].dir)
      BY <1>1, <2>1, SliceRequests
    <3>2. start = Embed(j.legs, p)
      BY <1>1, <2>1 DEF FirstOf
    <3> QED BY <1>2, <2>1, <3>1, <3>2, EmbedIs
  <2>2. CASE j.plane = "volume"
    <3>1. \A k \in 1 .. n : j.legs[k].y_factor \in {-1, 0, 1} /\ j.legs[k].z_factor \in {-1, 0, 1}
      BY <1>1, <2>2, SliceRequests
    <3>2. start = EmbedVoxel(j.legs, p)
      BY <1>1, <2>2 DEF FirstOf
    <3> QED BY <1>2, <2>2, <3>1, <3>2, EmbedVoxelIs
  <2> QED BY <2>1, <2>2
<1>4. c \in Vectors(n)
  <2>1. CASE ~j.julia
    BY <1>1, <1>3, <2>1 DEF ConstantOf
  <2>2. CASE j.julia
    <3>1. j.plane = "slice"
      BY <2>2, SliceRequests
    <3>2. \A k \in 1 .. n : Finite(j.legs[k].dir)
      BY <1>1, <3>1, SliceRequests
    <3>3. Finite(j.jc.re) /\ Finite(j.jc.im)
      BY DEF IsRequest
    <3>4. c = Embed(j.legs, j.jc)
      BY <1>1, <2>2 DEF ConstantOf
    <3> QED BY <1>2, <3>2, <3>3, <3>4, EmbedIs
  <2> QED BY <2>1, <2>2
<1>5. PICK z : z = SliceOrbit(j, start, c)
  OBVIOUS
<1>6. PICK size : size = [i \in 0 .. j.iters |-> TrueSize(z[i])]
  OBVIOUS
<1>7. IsOrbit(n, j, c, z, size) /\ z[0] = start
  BY <1>2, <1>3, <1>4, <1>5, <1>6, OrbitOfSlice
<1>8. SliceReference(j, start, c) = ToldOrbit(j, z, size)
  BY <1>5, <1>6 DEF SliceReference
<1> QED BY <1>1, <1>7, <1>8 DEF PointOrbit

LEMMA PointStarts ==
  ASSUME NEW j, NEW p, NEW z, NEW size, PointOrbit(j, p, z, size)
  PROVE  IsStart(SliceStart(j, p), ConstantOf(j, p), z)
<1>1. PICK start, c : start = FirstOf(j, p) /\ c = ConstantOf(j, p)
  OBVIOUS
<1>2. start = (IF j.plane = "volume" THEN EmbedVoxel(j.legs, p) ELSE Embed(j.legs, p))
  BY <1>1 DEF FirstOf
<1>3. c = (IF j.julia THEN Embed(j.legs, j.jc) ELSE start)
  BY <1>1 DEF ConstantOf
<1>4. z[0] = start
  BY <1>1 DEF PointOrbit
<1> QED BY <1>1, <1>2, <1>3, <1>4, SliceStartIs

(* What the loops of every copy answer for a point.                        *)
LEMMA LoopsAnswer ==
  ASSUME NEW j, NEW p, NEW z, NEW size, PointOrbit(j, p, z, size),
         NEW r, r = SliceReference(j, FirstOf(j, p), ConstantOf(j, p)), NEW copy \in Copies
  PROVE  /\ Matches(SliceAnswer(SliceLoop(copy, j, p)), r)
         /\ iterate_transition_extra(j, p) = r.extra
         /\ VoxelValue(SliceLoop(copy, j, p)) = VoxelTold(r)
<1>1. PICK n, c, s : n = Len(j.legs) /\ c = ConstantOf(j, p) /\ s = SliceLoop(copy, j, p)
  OBVIOUS
<1>2. IsOrbit(n, j, c, z, size) /\ r = ToldOrbit(j, z, size)
  BY <1>1 DEF PointOrbit
<1>3. IsStart(SliceStart(j, p), c, z)
  BY <1>1, PointStarts
<1>4. InSlice(j, z, size, c, j.iters, s)
  BY <1>1, <1>2, <1>3, SliceLoopEnds
<1>5. SliceTracks(size, j.bail * j.bail, j.iters, s) /\ s.z = z[s.i]
  BY <1>4 DEF InSlice
<1>6. ~s.escaped => s.z = z[j.iters]
  BY <1>5 DEF SliceTracks
<1>7. Matches(SliceAnswer(s), r)
  BY <1>2, <1>5, SliceAnswered
<1>8. VoxelValue(s) = VoxelTold(r)
  BY <1>2, <1>5, <1>6, VoxelAnswered
<1>9. iterate_transition_extra(j, p) = r.extra
  BY <1>2, <1>3, ExtraIs
<1> QED BY <1>1, <1>7, <1>8, <1>9

LEMMA LanesAnswer ==
  ASSUME NEW j, NEW pts, NEW inside, inside \subseteq DOMAIN pts, NEW l \in inside,
         NEW z, NEW size, PointOrbit(j, pts[l], z, size),
         NEW r, r = SliceReference(j, FirstOf(j, pts[l]), ConstantOf(j, pts[l])), NEW copy \in Copies
  PROVE  Matches(SliceAnswer(SliceLanes(copy, j, pts, inside)[l]), r)
<1>1. PICK n, c, s : n = Len(j.legs) /\ c = ConstantOf(j, pts[l]) /\ s = SliceLanes(copy, j, pts, inside)[l]
  OBVIOUS
<1>2. IsOrbit(n, j, c, z, size) /\ r = ToldOrbit(j, z, size)
  BY <1>1 DEF PointOrbit
<1>3. IsStart(SliceStart(j, pts[l]), c, z)
  BY <1>1, PointStarts
<1>4. InSlice(j, z, size, c, j.iters, s)
  BY <1>1, <1>2, <1>3, SliceLanesEnd
<1>5. SliceTracks(size, j.bail * j.bail, j.iters, s) /\ s.z = z[s.i]
  BY <1>4 DEF InSlice
<1> QED BY <1>1, <1>2, <1>5, SliceAnswered

-----------------------------------------------------------------------------
(* A tile is a job that differs in its view alone.                         *)
SameSlice(t, j) ==
  /\ t.plane = j.plane /\ t.legs = j.legs /\ t.julia = j.julia /\ t.jc = j.jc
  /\ t.iters = j.iters /\ t.bail = j.bail /\ t.cap = j.cap

LEMMA SameSliceTells ==
  ASSUME NEW j, NEW t, SameSlice(t, j), NEW p
  PROVE  /\ FirstOf(t, p) = FirstOf(j, p) /\ ConstantOf(t, p) = ConstantOf(j, p)
         /\ \A start, c : SliceReference(t, start, c) = SliceReference(j, start, c)
         /\ \A z, size : PointOrbit(j, p, z, size) => PointOrbit(t, p, z, size)
<1>1. /\ t.plane = j.plane /\ t.legs = j.legs /\ t.julia = j.julia /\ t.jc = j.jc
      /\ t.iters = j.iters /\ t.bail = j.bail /\ t.cap = j.cap
  BY DEF SameSlice
<1>2. FirstOf(t, p) = FirstOf(j, p)
  BY <1>1 DEF FirstOf
<1>3. ConstantOf(t, p) = ConstantOf(j, p)
  BY <1>1, <1>2 DEF ConstantOf
<1>4. \A z, size, e, m : Told(t, z, size, e, m) = Told(j, z, size, e, m)
  BY <1>1, Zenon DEF Told
<1>5. \A z, size : ToldOrbit(t, z, size) = ToldOrbit(j, z, size)
  BY <1>1, <1>4, Zenon DEF ToldOrbit
<1>6. \A start, c : SliceOrbit(t, start, c) = SliceOrbit(j, start, c)
  BY <1>1, Zenon DEF SliceOrbit
<1>7. \A start, c : SliceReference(t, start, c) = SliceReference(j, start, c)
  BY <1>1, <1>5, <1>6, Zenon DEF SliceReference
<1>8. \A n, c, z, size : IsOrbit(n, j, c, z, size) => IsOrbit(n, t, c, z, size)
  <2>1. \A n : IsSliceJob(n, j) => IsSliceJob(n, t)
    BY <1>1 DEF IsSliceJob
  <2> SUFFICES ASSUME NEW n, NEW c, NEW z, NEW size, IsOrbit(n, j, c, z, size) PROVE IsOrbit(n, t, c, z, size)
    OBVIOUS
  <2> QED BY <1>1, <2>1 DEF IsOrbit
<1>9. \A z, size : PointOrbit(j, p, z, size) => PointOrbit(t, p, z, size)
  BY <1>1, <1>2, <1>3, <1>5, <1>7, <1>8, Zenon DEF PointOrbit
<1> QED BY <1>2, <1>3, <1>7, <1>9

LEMMA TileIs ==
  ASSUME NEW j, IsRequest(j), IsSlice(j), NEW tx \in Nat, NEW ty \in Nat, NEW tw \in Nat, NEW th \in Nat,
         NEW t, t = TileJob(j, tx, ty, tw, th)
  PROVE  /\ SameSlice(t, j)
         /\ \A x, y \in Int : j.plane # "ln" => rotated_viewport_point(t, x - tx, y - ty) = TruePixel(j, x, y)
<1>1. PICK dx, dy : dx = 2 * tx + tw - j.width /\ dy = -(2 * ty + th - j.height)
  OBVIOUS
<1>2. PICK centre : centre = Point(j.centre.re + dx * cos_theta(j) - dy * sin_theta(j),
                                   j.centre.im + dx * sin_theta(j) + dy * cos_theta(j))
  OBVIOUS
<1>3. t = [j EXCEPT !.width = tw, !.height = th, !.centre = centre]
  BY <1>1, <1>2 DEF TileJob
<1>4. JobFields \subseteq DOMAIN j
  BY DEF IsSlice
<1>5. t.width = tw /\ t.height = th /\ t.centre = centre /\ t.turned = j.turned /\ SameSlice(t, j)
  BY <1>3, <1>4 DEF JobFields, SameSlice
<1>6. ASSUME NEW x \in Int, NEW y \in Int, j.plane # "ln"
      PROVE  rotated_viewport_point(t, x - tx, y - ty) = TruePixel(j, x, y)
  <2>1. PICK a, b, A, B : /\ a = 2 * (x - tx) + 1 - tw /\ b = -(2 * (y - ty) + 1 - th)
                          /\ A = 2 * x + 1 - j.width /\ B = j.height - (2 * y + 1)
    OBVIOUS
  <2>2. /\ j.width \in Int /\ j.height \in Int /\ j.centre.re \in Int /\ j.centre.im \in Int
        /\ j.turned \in {-1, 0, 1}
    BY Requests
  <2>3. /\ a \in Int /\ b \in Int /\ dx \in Int /\ dy \in Int /\ A \in Int /\ B \in Int
        /\ dx + a = A /\ dy + b = B
    BY <1>1, <2>1, <2>2
  <2>4. rotated_viewport_point(t, x - tx, y - ty) =
          Point(centre.re + a * cos_theta(t) - b * sin_theta(t), centre.im + a * sin_theta(t) + b * cos_theta(t))
    BY <1>5, <2>1 DEF rotated_viewport_point
  <2>5. TruePixel(j, x, y) = IF j.turned = 0 THEN Point(j.centre.re + A, j.centre.im + B)
                             ELSE Point(j.centre.re - j.turned * B, j.centre.im + j.turned * A)
    BY <1>6, <2>1 DEF TruePixel
  <2>6. CASE j.turned = 0
    <3>1. cos_theta(j) = 1 /\ sin_theta(j) = 0 /\ cos_theta(t) = 1 /\ sin_theta(t) = 0
      BY <1>5, <2>6 DEF cos_theta, sin_theta
    <3>2. centre.re = j.centre.re + dx /\ centre.im = j.centre.im + dy
      BY <1>2, <2>2, <2>3, <3>1 DEF Point
    <3>3. centre.re + a * 1 - b * 0 = j.centre.re + A /\ centre.im + a * 0 + b * 1 = j.centre.im + B
      BY <2>2, <2>3, <3>2
    <3> QED BY <2>4, <2>5, <2>6, <3>1, <3>3
  <2>7. CASE j.turned = 1
    <3>1. cos_theta(j) = 0 /\ sin_theta(j) = 1 /\ cos_theta(t) = 0 /\ sin_theta(t) = 1
      BY <1>5, <2>7 DEF cos_theta, sin_theta
    <3>2. centre.re = j.centre.re - dy /\ centre.im = j.centre.im + dx
      BY <1>2, <2>2, <2>3, <3>1 DEF Point
    <3>3. centre.re + a * 0 - b * 1 = j.centre.re - j.turned * B /\ centre.im + a * 1 + b * 0 = j.centre.im + j.turned * A
      BY <2>2, <2>3, <2>7, <3>2
    <3> QED BY <2>4, <2>5, <2>7, <3>1, <3>3
  <2>8. CASE j.turned = -1
    <3>1. cos_theta(j) = 0 /\ sin_theta(j) = -1 /\ cos_theta(t) = 0 /\ sin_theta(t) = -1
      BY <1>5, <2>8 DEF cos_theta, sin_theta
    <3>2. centre.re = j.centre.re + dy /\ centre.im = j.centre.im - dx
      BY <1>2, <2>2, <2>3, <3>1 DEF Point
    <3>3. /\ centre.re + a * 0 - b * (-1) = j.centre.re - j.turned * B
          /\ centre.im + a * (-1) + b * 0 = j.centre.im + j.turned * A
      BY <2>2, <2>3, <2>8, <3>2
    <3> QED BY <2>4, <2>5, <2>8, <3>1, <3>3
  <2> QED BY <2>2, <2>6, <2>7, <2>8
<1> QED BY <1>5, <1>6

(* The GPU counts the voxels of its slab, the first axis fastest.          *)
LEMMA CudaVoxelIs ==
  ASSUME NEW j, NEW w \in Nat \ {0}, j.width = w, NEW x \in 0 .. w - 1, NEW y \in 0 .. w - 1, NEW z \in Nat,
         NEW from \in 0 .. z
  PROVE  CudaVoxel(j, x + w * (y + w * (z - from)), from) = Voxel(j, x, y, z)
<1>1. PICK d : d = z - from
  OBVIOUS
<1>2. d \in Nat /\ from + d = z
  BY <1>1
<1>3. PICK m, q : m = w * d /\ q = y + m
  OBVIOUS
<1>4. m \in Int /\ q \in Int
  BY <1>2, <1>3, Products
<1>5. PICK e, idx : e = w * q /\ idx = x + e
  OBVIOUS
<1>6. e \in Int /\ idx \in Int
  BY <1>4, <1>5, Products
<1>7. w * q <= idx /\ idx < w * q + w
  BY <1>4, <1>5, <1>6
<1>8. idx \div w = q /\ idx % w = x
  <2>1. idx \div w = q
    BY <1>4, <1>6, <1>7, QuotientIs
  <2>2. idx % w = idx - w * q
    BY <1>4, <1>6, <1>7, RemainsIs, Zenon
  <2> QED BY <1>5, <1>6, <2>1, <2>2
<1>9. w * d <= q /\ q < w * d + w /\ d \in Int
  BY <1>2, <1>3, <1>4
<1>10. q % w = y
  <2>1. q % w = q - w * d
    BY <1>2, <1>4, <1>9, RemainsIs, Zenon
  <2> QED BY <1>3, <1>4, <2>1
<1>11. idx \div (w * w) = d
  <2>1. PICK s, g, h : s = w * w /\ g = w * y /\ h = w * m
    OBVIOUS
  <2>2. s \in Nat \ {0} /\ g \in Int /\ h \in Int
    <3>1. s \in Int /\ g \in Int /\ h \in Int
      BY <1>4, <2>1, Products
    <3>2. s >= w
      <4>1. (w - 1) * w >= 0 /\ (w - 1) * w = s - w
        BY <2>1
      <4> QED BY <3>1, <4>1
    <3> QED BY <3>1, <3>2
  <2>3. e = g + h /\ s * d = h
    <3>1. w * (y + m) = w * y + w * m
      BY <1>4
    <3>2. w * (w * d) = (w * w) * d
      BY <1>2
    <3> QED BY <1>3, <1>5, <2>1, <3>1, <3>2
  <2>4. 0 <= g /\ g <= s - w
    <3>1. w * y >= 0 /\ w * ((w - 1) - y) >= 0 /\ w * ((w - 1) - y) = w * w - w - w * y
      BY Products
    <3> QED BY <2>1, <2>2, <3>1
  <2>5. s * d <= idx /\ idx < s * d + s
    BY <1>5, <1>6, <2>2, <2>3, <2>4
  <2> QED BY <1>2, <1>6, <2>1, <2>2, <2>5, QuotientIs
<1>12. CudaVoxel(j, idx, from) = Voxel(j, idx % w, (idx \div w) % w, from + idx \div (w * w))
  BY DEF CudaVoxel
<1>13. CudaVoxel(j, idx, from) = Voxel(j, x, y, z)
  BY <1>2, <1>8, <1>10, <1>11, <1>12
<1> QED BY <1>1, <1>3, <1>5, <1>13

-----------------------------------------------------------------------------
(* The image: what the copies of the slice and of the volume kernel wrote. *)
SliceHolds(j, kernel, y, pixels) ==
  \A x \in DOMAIN pixels :
    IF j.plane = "volume" THEN pixels[x] = VoxelReference(j, x, y[1], y[2])
    ELSE IF kernel = "extra" THEN pixels[x] = PixelReference(j, x, y).extra
    ELSE Matches(pixels[x], PixelReference(j, x, y))

LEMMA WrittenSlice ==
  ASSUME NEW kernel, NEW y, NEW pixels, Wrote(kernel, y, pixels), SliceHolds(job, kernel, y, pixels)
  PROVE  SliceCopiesAgree' /\ job' = job
<1>1. image' = [kernel |-> kernel, y |-> y, pixels |-> pixels] /\ job' = job
  BY DEF Wrote
<1>2. image'.y = y /\ image'.pixels = pixels /\ image'.kernel = kernel
  BY <1>1
<1> QED BY <1>1, <1>2 DEF SliceCopiesAgree, SliceHolds

LEMMA PixelsHaveOrbits ==
  ASSUME NEW j, IsRequest(j), IsSlice(j), j.plane = "slice", NEW x \in 0 .. j.width - 1, NEW y \in 0 .. j.height - 1,
         NEW p, p = TruePixel(j, x, y)
  PROVE  /\ \E z, size : PointOrbit(j, p, z, size)
         /\ PixelReference(j, x, y) = SliceReference(j, FirstOf(j, p), ConstantOf(j, p))
<1>1. Finite(p.re) /\ Finite(p.im)
  BY FinitePixels
<1>2. \E z, size : PointOrbit(j, p, z, size)
  BY <1>1, PointsHaveOrbits
<1>3. FirstOf(j, p) = Embed(j.legs, p)
  BY DEF FirstOf
<1>4. ConstantOf(j, p) = Embed(j.legs, IF j.julia THEN j.jc ELSE p)
  BY <1>3 DEF ConstantOf
<1> QED BY <1>2, <1>3, <1>4 DEF PixelReference

LEMMA VoxelsHaveOrbits ==
  ASSUME NEW j, IsRequest(j), IsSlice(j), j.plane = "volume",
         NEW x \in 0 .. j.width - 1, NEW y \in 0 .. j.width - 1, NEW z \in 0 .. j.width - 1,
         NEW p, p = Voxel(j, x, y, z)
  PROVE  /\ \E o, size : PointOrbit(j, p, o, size)
         /\ VoxelReference(j, x, y, z) = VoxelTold(SliceReference(j, FirstOf(j, p), ConstantOf(j, p)))
<1>1. Finite(p.re) /\ Finite(p.y) /\ Finite(p.z)
  BY FiniteVoxels
<1>2. \E o, size : PointOrbit(j, p, o, size)
  BY <1>1, PointsHaveOrbits
<1>3. FirstOf(j, p) = EmbedVoxel(j.legs, p)
  BY DEF FirstOf
<1>4. ConstantOf(j, p) = EmbedVoxel(j.legs, p)
  BY <1>3, SliceRequests DEF ConstantOf
<1>5. VoxelReference(j, x, y, z) = VoxelTold(SliceReference(j, EmbedVoxel(j.legs, p), EmbedVoxel(j.legs, p)))
  BY DEF VoxelReference, Voxel
<1> QED BY <1>2, <1>3, <1>4, <1>5

LEMMA SlicesAreRequests ==
  ASSUME job \in Jobs, job.plane \in {"slice", "volume"}
  PROVE  IsRequest(job) /\ IsSlice(job)
  BY JobsAssumption, SlicesAssumption

LEMMA RenderSliceOpenMPAgrees ==
  ASSUME job \in Jobs, RenderSliceOpenMP PROVE SliceCopiesAgree' /\ job' = job
<1>1. job.plane = "slice"
  BY DEF RenderSliceOpenMP, SliceFresh
<1>2. IsRequest(job) /\ IsSlice(job)
  BY <1>1, SlicesAreRequests
<1>3. PICK y \in 0 .. job.height - 1 :
        \/ Wrote("openmp", y, [x \in Line |-> iterate_transition(job, transition_viewport_point(job, x, y))])
        \/ Wrote("extra", y, [x \in Line |-> iterate_transition_extra(job, transition_viewport_point(job, x, y))])
        \/ Wrote("scalar", y, [x \in Line |-> render_transition_scalar(job, transition_viewport_point(job, x, y))])
  BY DEF RenderSliceOpenMP
<1>4. PICK a, b, c : /\ a = [x \in Line |-> iterate_transition(job, transition_viewport_point(job, x, y))]
                     /\ b = [x \in Line |-> iterate_transition_extra(job, transition_viewport_point(job, x, y))]
                     /\ c = [x \in Line |-> render_transition_scalar(job, transition_viewport_point(job, x, y))]
  OBVIOUS
<1>5. ASSUME NEW x \in Line
      PROVE  /\ Matches(a[x], PixelReference(job, x, y)) /\ Matches(c[x], PixelReference(job, x, y))
             /\ b[x] = PixelReference(job, x, y).extra
  <2>1. x \in 0 .. job.width - 1 /\ x \in Int /\ y \in Int
    BY <1>2, Requests DEF Line
  <2>2. PICK p : p = TruePixel(job, x, y)
    OBVIOUS
  <2>3. transition_viewport_point(job, x, y) = p
    BY <1>1, <1>2, <2>1, <2>2, MapGridsAgree DEF transition_viewport_point
  <2>4. PICK z, size : PointOrbit(job, p, z, size)
    BY <1>1, <1>2, <2>1, <2>2, PixelsHaveOrbits
  <2>5. PICK r : r = SliceReference(job, FirstOf(job, p), ConstantOf(job, p))
    OBVIOUS
  <2>6. PixelReference(job, x, y) = r
    BY <1>1, <1>2, <2>1, <2>2, <2>5, PixelsHaveOrbits
  <2>7. "openmp" \in Copies /\ "scalar" \in Copies
    BY DEF Copies
  <2>8. /\ Matches(SliceAnswer(SliceLoop("openmp", job, p)), r) /\ Matches(SliceAnswer(SliceLoop("scalar", job, p)), r)
        /\ iterate_transition_extra(job, p) = r.extra
    BY <2>4, <2>5, <2>7, LoopsAnswer
  <2> QED BY <1>4, <2>3, <2>6, <2>8 DEF iterate_transition, render_transition_scalar
<1>6. DOMAIN a = Line /\ DOMAIN b = Line /\ DOMAIN c = Line
  BY <1>4
<1>7. /\ SliceHolds(job, "openmp", y, a) /\ SliceHolds(job, "extra", y, b) /\ SliceHolds(job, "scalar", y, c)
  BY <1>1, <1>5, <1>6 DEF SliceHolds
<1> QED BY <1>3, <1>4, <1>7, WrittenSlice

LEMMA RenderSliceCudaAgrees ==
  ASSUME job \in Jobs, RenderSliceCuda PROVE SliceCopiesAgree' /\ job' = job
<1>1. job.plane = "slice"
  BY DEF RenderSliceCuda, SliceFresh
<1>2. IsRequest(job) /\ IsSlice(job)
  BY <1>1, SlicesAreRequests
<1>3. PICK y \in 0 .. job.height - 1, tile \in {2, job.width}, scalar \in {"fp32", "fp64"} :
        Wrote("cuda", y, [x \in Line |-> render_transition_cuda(job, tile, scalar, x, y)])
  BY DEF RenderSliceCuda
<1>4. PICK a : a = [x \in Line |-> render_transition_cuda(job, tile, scalar, x, y)]
  OBVIOUS
<1>5. ASSUME NEW x \in Line PROVE Matches(a[x], PixelReference(job, x, y))
  <2>1. /\ x \in 0 .. job.width - 1 /\ x \in Nat /\ y \in Nat /\ x \in Int /\ y \in Int
        /\ tile \in Nat \ {0} /\ job.width \in Nat /\ job.height \in Nat
    BY <1>2, Requests DEF Line
  <2>2. PICK p : p = TruePixel(job, x, y)
    OBVIOUS
  <2>3. PICK tx, ty : tx = (x \div tile) * tile /\ ty = (y \div tile) * tile
    OBVIOUS
  <2>4. tx \in 0 .. x /\ ty \in 0 .. y
    <3>1. PICK q, g : q = x \div tile /\ g = y \div tile
      OBVIOUS
    <3>2. q \in Nat /\ g \in Nat /\ tile * q <= x /\ tile * g <= y
      BY <2>1, <3>1, Quotient
    <3>3. tile * q \in Nat /\ tile * g \in Nat /\ q * tile = tile * q /\ g * tile = tile * g
      BY <2>1, <3>2, Products
    <3> QED BY <2>3, <3>1, <3>2, <3>3
  <2>5. PICK tw, th : /\ tw = (IF job.width - tx < tile THEN job.width - tx ELSE tile)
                      /\ th = (IF job.height - ty < tile THEN job.height - ty ELSE tile)
    OBVIOUS
  <2>6. tw \in Nat /\ th \in Nat /\ tx \in Nat /\ ty \in Nat
    BY <2>1, <2>4, <2>5
  <2>7. PICK t : t = TileJob(job, tx, ty, tw, th)
    OBVIOUS
  <2>8. SameSlice(t, job) /\ rotated_viewport_point(t, x - tx, y - ty) = p
    BY <1>1, <1>2, <2>1, <2>2, <2>6, <2>7, TileIs
  <2>9. a[x] = IF scalar = "fp32" THEN transition_slice_escape_fp32(t, p) ELSE transition_slice_escape_fp64(t, p)
    BY <1>4, <2>3, <2>5, <2>7, <2>8 DEF render_transition_cuda
  <2>10. PICK z, size : PointOrbit(job, p, z, size)
    BY <1>1, <1>2, <2>1, <2>2, PixelsHaveOrbits
  <2>11. PICK r : r = SliceReference(t, FirstOf(t, p), ConstantOf(t, p))
    OBVIOUS
  <2>12. PixelReference(job, x, y) = r
    BY <1>1, <1>2, <2>1, <2>2, <2>8, <2>11, PixelsHaveOrbits, SameSliceTells
  <2>13. PointOrbit(t, p, z, size)
    BY <2>8, <2>10, SameSliceTells
  <2>14. "cuda_fp64" \in Copies /\ "cuda_fp32" \in Copies
    BY DEF Copies
  <2>15. Matches(SliceAnswer(SliceLoop("cuda_fp64", t, p)), r) /\ Matches(SliceAnswer(SliceLoop("cuda_fp32", t, p)), r)
    BY <2>11, <2>13, <2>14, LoopsAnswer
  <2> QED BY <2>9, <2>12, <2>15 DEF transition_slice_escape_fp64, transition_slice_escape_fp32
<1>6. SliceHolds(job, "cuda", y, a)
  <2>1. DOMAIN a = Line
    BY <1>4
  <2> QED BY <1>1, <1>5, <2>1 DEF SliceHolds
<1> QED BY <1>3, <1>4, <1>6, WrittenSlice

(* The group of a column among the lanes of a register.                    *)
LEMMA GroupOfColumn ==
  ASSUME NEW u \in Nat \ {0}, NEW w \in Nat, NEW x \in 0 .. w - 1, NEW first, first = (x \div u) * u,
         NEW inside, inside = {l \in 0 .. u - 1 : first + l < w}
  PROVE  x - first \in inside /\ first + (x - first) = x /\ first \in Int
<1>1. PICK k : k = [lanes |-> u]
  OBVIOUS
<1>2. k.lanes = u
  BY <1>1
<1>3. 0 \in Int /\ w \in Int /\ x - 0 = x
  OBVIOUS
<1>4. first \in Int
  <2>1. x \in Int
    OBVIOUS
  <2>2. PICK q : q = x \div u
    OBVIOUS
  <2>3. q \in Int
    BY <2>1, <2>2, Quotient
  <2> QED BY <2>2, <2>3, Products
<1>5. GroupStart(k, 0, x) = first
  BY <1>2, <1>3, <1>4 DEF GroupStart
<1> QED BY <1>2, <1>3, <1>4, <1>5, LaneOfColumn

LEMMA RenderSliceAvx2Agrees ==
  ASSUME job \in Jobs, RenderSliceAvx2 PROVE SliceCopiesAgree' /\ job' = job
<1>1. job.plane = "slice"
  BY DEF RenderSliceAvx2, SliceFresh
<1>2. IsRequest(job) /\ IsSlice(job)
  BY <1>1, SlicesAreRequests
<1> DEFINE Start4(x) == (x \div (4 * LaneUnit)) * 4 * LaneUnit
           Group(y, x) == render_escape_fp64(job, [l \in 0 .. 4 * LaneUnit - 1 |-> transition_viewport_point(job, Start4(x) + l, y)],
                                             {l \in 0 .. 4 * LaneUnit - 1 : Start4(x) + l < job.width})
<1>3. PICK y \in 0 .. job.height - 1 : Wrote("avx2", y, [x \in Line |-> Group(y, x)[x - Start4(x)]])
  BY DEF RenderSliceAvx2
<1>4. PICK a : a = [x \in Line |-> Group(y, x)[x - Start4(x)]]
  OBVIOUS
<1>5. PICK u : u = 4 * LaneUnit
  OBVIOUS
<1>6. u \in Nat \ {0}
  BY <1>5, LaneAssumption
<1>7. ASSUME NEW x \in Line PROVE Matches(a[x], PixelReference(job, x, y))
  <2>1. x \in 0 .. job.width - 1 /\ x \in Int /\ y \in Int /\ job.width \in Nat
    BY <1>2, Requests DEF Line
  <2>2. PICK first : first = Start4(x)
    OBVIOUS
  <2>3. first = (x \div u) * u
    <3>1. PICK q : q = x \div u
      OBVIOUS
    <3>2. q \in Int /\ LaneUnit \in Int
      BY <1>6, <2>1, <3>1, Quotient, LaneAssumption
    <3>3. (q * 4) * LaneUnit = q * (4 * LaneUnit)
      BY <3>2
    <3> QED BY <1>5, <2>2, <3>1, <3>3
  <2>4. PICK inside : inside = {l \in 0 .. u - 1 : first + l < job.width}
    OBVIOUS
  <2>5. PICK pts : pts = [l \in 0 .. u - 1 |-> transition_viewport_point(job, first + l, y)]
    OBVIOUS
  <2>6. PICK l : l = x - first
    OBVIOUS
  <2>7. l \in inside /\ first + l = x /\ first \in Int
    BY <1>6, <2>1, <2>3, <2>4, <2>6, GroupOfColumn
  <2>8. inside \subseteq DOMAIN pts
    BY <2>4, <2>5
  <2>9. a[x] = render_escape_fp64(job, pts, inside)[l]
    BY <1>4, <1>5, <2>2, <2>4, <2>5, <2>6
  <2>10. PICK p : p = TruePixel(job, x, y)
    OBVIOUS
  <2>11. pts[l] = p
    <3>1. pts[l] = transition_viewport_point(job, x, y)
      BY <2>4, <2>5, <2>7
    <3> QED BY <1>1, <1>2, <2>1, <2>10, <3>1, MapGridsAgree DEF transition_viewport_point
  <2>12. PICK z, size : PointOrbit(job, p, z, size)
    BY <1>1, <1>2, <2>1, <2>10, PixelsHaveOrbits
  <2>13. PICK r : r = SliceReference(job, FirstOf(job, p), ConstantOf(job, p))
    OBVIOUS
  <2>14. PixelReference(job, x, y) = r
    BY <1>1, <1>2, <2>1, <2>10, <2>13, PixelsHaveOrbits
  <2>15. "avx2" \in Copies
    BY DEF Copies
  <2>16. Matches(SliceAnswer(SliceLanes("avx2", job, pts, inside)[l]), r)
    BY <2>7, <2>8, <2>11, <2>12, <2>13, <2>15, LanesAnswer
  <2>17. a[x] = SliceAnswer(SliceLanes("avx2", job, pts, inside)[l])
    BY <2>7, <2>9 DEF render_escape_fp64
  <2> QED BY <2>14, <2>16, <2>17
<1>8. SliceHolds(job, "avx2", y, a)
  <2>1. DOMAIN a = Line
    BY <1>4
  <2> QED BY <1>1, <1>7, <2>1 DEF SliceHolds
<1> HIDE DEF Group
<1> QED BY <1>3, <1>4, <1>8, WrittenSlice

VolumeHolds(j, y, z, pixels) == \A x \in DOMAIN pixels : pixels[x] = VoxelReference(j, x, y, z)

LEMMA WrittenVolume ==
  ASSUME NEW kernel, NEW y, NEW z, NEW pixels, Wrote(kernel, <<y, z>>, pixels), job.plane = "volume",
         VolumeHolds(job, y, z, pixels)
  PROVE  SliceCopiesAgree' /\ job' = job
<1>1. SliceHolds(job, kernel, <<y, z>>, pixels)
  BY DEF SliceHolds, VolumeHolds
<1> QED BY <1>1, WrittenSlice

(* The voxels of a row, by each copy of the volume kernel.                 *)
LEMMA ScalarVolumeRow ==
  ASSUME NEW j, IsRequest(j), IsSlice(j), j.plane = "volume",
         NEW y \in 0 .. j.width - 1, NEW z \in 0 .. j.width - 1
  PROVE  /\ VolumeHolds(j, y, z, [x \in 0 .. j.width - 1 |-> build_transition_range_openmp(j, Voxel(j, x, y, z))])
         /\ \A from \in 0 .. z : VolumeHolds(j, y, z, [x \in 0 .. j.width - 1 |->
              transition_volume_kernel(j, x + j.width * (y + j.width * (z - from)), from)])
<1>1. ASSUME NEW x \in 0 .. j.width - 1, NEW copy \in {"volume", "volume_cuda"}
      PROVE  VoxelValue(SliceLoop(copy, j, Voxel(j, x, y, z))) = VoxelReference(j, x, y, z)
  <2>1. PICK p : p = Voxel(j, x, y, z)
    OBVIOUS
  <2>2. PICK o, size : PointOrbit(j, p, o, size)
    BY <2>1, VoxelsHaveOrbits
  <2>3. PICK r : r = SliceReference(j, FirstOf(j, p), ConstantOf(j, p))
    OBVIOUS
  <2>4. VoxelReference(j, x, y, z) = VoxelTold(r)
    BY <2>1, <2>3, VoxelsHaveOrbits
  <2>5. copy \in Copies
    BY DEF Copies
  <2>6. VoxelValue(SliceLoop(copy, j, p)) = VoxelTold(r)
    BY <2>2, <2>3, <2>5, LoopsAnswer
  <2> QED BY <2>1, <2>4, <2>6
<1>2. VolumeHolds(j, y, z, [x \in 0 .. j.width - 1 |-> build_transition_range_openmp(j, Voxel(j, x, y, z))])
  BY <1>1 DEF VolumeHolds, build_transition_range_openmp
<1>3. ASSUME NEW from \in 0 .. z
      PROVE  VolumeHolds(j, y, z, [x \in 0 .. j.width - 1 |->
               transition_volume_kernel(j, x + j.width * (y + j.width * (z - from)), from)])
  <2>1. ASSUME NEW x \in 0 .. j.width - 1
        PROVE  transition_volume_kernel(j, x + j.width * (y + j.width * (z - from)), from) = VoxelReference(j, x, y, z)
    <3>1. PICK w : w = j.width
      OBVIOUS
    <3>2. w \in Nat \ {0} /\ x \in 0 .. w - 1 /\ y \in 0 .. w - 1 /\ z \in Nat
      BY <3>1, Requests
    <3>3. CudaVoxel(j, x + w * (y + w * (z - from)), from) = Voxel(j, x, y, z)
      BY <3>1, <3>2, CudaVoxelIs
    <3> QED BY <1>1, <3>1, <3>3 DEF transition_volume_kernel
  <2> QED BY <2>1 DEF VolumeHolds
<1> QED BY <1>2, <1>3

VolumeStart(x) == (x \div (8 * LaneUnit)) * 8 * LaneUnit
VolumeGroup(j, y, z, x) ==
  build_range_impl(j, [l \in 0 .. 8 * LaneUnit - 1 |-> Voxel(j, VolumeStart(x) + l, y, z)],
                   {l \in 0 .. 8 * LaneUnit - 1 : VolumeStart(x) + l < j.width})

LEMMA VoxelLane ==
  ASSUME NEW j, NEW pts, NEW inside, inside \subseteq DOMAIN pts, NEW l \in inside,
         NEW o, NEW size, PointOrbit(j, pts[l], o, size),
         NEW s, s = SliceLanes("volume_avx2", j, pts, inside)[l]
  PROVE  VoxelValue(s) = VoxelTold(SliceReference(j, FirstOf(j, pts[l]), ConstantOf(j, pts[l])))
<1>1. PICK n, c, copy : n = Len(j.legs) /\ c = ConstantOf(j, pts[l]) /\ copy = "volume_avx2"
  OBVIOUS
<1>2. IsOrbit(n, j, c, o, size) /\ SliceReference(j, FirstOf(j, pts[l]), ConstantOf(j, pts[l])) = ToldOrbit(j, o, size)
  BY <1>1 DEF PointOrbit
<1>3. IsStart(SliceStart(j, pts[l]), c, o)
  BY <1>1, PointStarts
<1>4. copy \in Copies /\ s = SliceLanes(copy, j, pts, inside)[l]
  BY <1>1 DEF Copies
<1>5. InSlice(j, o, size, c, j.iters, s)
  BY <1>2, <1>3, <1>4, SliceLanesEnd
<1>6. SliceTracks(size, j.bail * j.bail, j.iters, s) /\ s.z = o[s.i]
  BY <1>5 DEF InSlice
<1>7. ~s.escaped => s.z = o[j.iters]
  BY <1>6 DEF SliceTracks
<1>8. VoxelValue(s) = VoxelTold(ToldOrbit(j, o, size))
  BY <1>2, <1>6, <1>7, VoxelAnswered
<1> QED BY <1>2, <1>8

LEMMA VectorVolumeRow ==
  ASSUME NEW j, IsRequest(j), IsSlice(j), j.plane = "volume",
         NEW y \in 0 .. j.width - 1, NEW z \in 0 .. j.width - 1
  PROVE  VolumeHolds(j, y, z, [x \in 0 .. j.width - 1 |-> VolumeGroup(j, y, z, x)[x - VolumeStart(x)]])
<1>1. PICK u : u = 8 * LaneUnit
  OBVIOUS
<1>2. u \in Nat \ {0}
  BY <1>1, LaneAssumption
<1>3. ASSUME NEW x \in 0 .. j.width - 1 PROVE VolumeGroup(j, y, z, x)[x - VolumeStart(x)] = VoxelReference(j, x, y, z)
  <2>1. x \in Int /\ j.width \in Nat
    BY Requests
  <2>2. PICK first : first = VolumeStart(x)
    OBVIOUS
  <2>3. first = (x \div u) * u
    <3>1. PICK q : q = x \div u
      OBVIOUS
    <3>2. q \in Int /\ LaneUnit \in Int
      BY <1>2, <2>1, <3>1, Quotient, LaneAssumption
    <3>3. (q * 8) * LaneUnit = q * (8 * LaneUnit)
      BY <3>2
    <3> QED BY <1>1, <2>2, <3>1, <3>3 DEF VolumeStart
  <2>4. PICK inside : inside = {l \in 0 .. u - 1 : first + l < j.width}
    OBVIOUS
  <2>5. PICK pts : pts = [l \in 0 .. u - 1 |-> Voxel(j, first + l, y, z)]
    OBVIOUS
  <2>6. PICK l : l = x - first
    OBVIOUS
  <2>7. l \in inside /\ first + l = x
    BY <1>2, <2>1, <2>3, <2>4, <2>6, GroupOfColumn
  <2>8. inside \subseteq DOMAIN pts
    BY <2>4, <2>5
  <2>9. VolumeGroup(j, y, z, x) = build_range_impl(j, pts, inside)
    BY <1>1, <2>2, <2>4, <2>5 DEF VolumeGroup
  <2>10. PICK p : p = Voxel(j, x, y, z)
    OBVIOUS
  <2>11. pts[l] = p
    BY <2>4, <2>5, <2>7, <2>10
  <2>12. PICK o, size : PointOrbit(j, p, o, size)
    BY <2>10, VoxelsHaveOrbits
  <2>13. PICK r : r = SliceReference(j, FirstOf(j, p), ConstantOf(j, p))
    OBVIOUS
  <2>14. VoxelReference(j, x, y, z) = VoxelTold(r)
    BY <2>10, <2>13, VoxelsHaveOrbits
  <2>16. VoxelValue(SliceLanes("volume_avx2", j, pts, inside)[l]) = VoxelTold(r)
    <3>1. PointOrbit(j, pts[l], o, size) /\ r = SliceReference(j, FirstOf(j, pts[l]), ConstantOf(j, pts[l]))
      BY <2>11, <2>12, <2>13
    <3>2. PICK s : s = SliceLanes("volume_avx2", j, pts, inside)[l]
      OBVIOUS
    <3>3. VoxelValue(s) = VoxelTold(SliceReference(j, FirstOf(j, pts[l]), ConstantOf(j, pts[l])))
      BY <2>7, <2>8, <3>1, <3>2, VoxelLane
    <3> QED BY <3>1, <3>2, <3>3, Zenon
  <2>17. build_range_impl(j, pts, inside)[l] = VoxelValue(SliceLanes("volume_avx2", j, pts, inside)[l])
    BY <2>7 DEF build_range_impl
  <2> QED BY <2>2, <2>6, <2>9, <2>14, <2>16, <2>17
<1> QED BY <1>3 DEF VolumeHolds

LEMMA RenderVolumeAgrees ==
  ASSUME job \in Jobs, RenderVolume PROVE SliceCopiesAgree' /\ job' = job
<1>1. job.plane = "volume"
  BY DEF RenderVolume
<1>2. IsRequest(job) /\ IsSlice(job)
  BY <1>1, SlicesAreRequests
<1>3. PICK y \in Line, z \in Line :
       \/ Wrote("openmp", <<y, z>>, [x \in Line |-> build_transition_range_openmp(job, Voxel(job, x, y, z))])
       \/ Wrote("avx2", <<y, z>>, [x \in Line |-> VolumeGroup(job, y, z, x)[x - VolumeStart(x)]])
       \/ \E from \in 0 .. z :
            Wrote("cuda", <<y, z>>, [x \in Line |->
              transition_volume_kernel(job, x + job.width * (y + job.width * (z - from)), from)])
  BY DEF RenderVolume, VolumeGroup, VolumeStart
<1>4. y \in 0 .. job.width - 1 /\ z \in 0 .. job.width - 1 /\ Line = 0 .. job.width - 1
  BY DEF Line
<1>5. PICK a, b : /\ a = [x \in Line |-> build_transition_range_openmp(job, Voxel(job, x, y, z))]
                  /\ b = [x \in Line |-> VolumeGroup(job, y, z, x)[x - VolumeStart(x)]]
  OBVIOUS
<1>6. VolumeHolds(job, y, z, a) /\ VolumeHolds(job, y, z, b)
  BY <1>1, <1>2, <1>4, <1>5, ScalarVolumeRow, VectorVolumeRow
<1>7. CASE Wrote("openmp", <<y, z>>, a)
  BY <1>1, <1>6, <1>7, WrittenVolume
<1>8. CASE Wrote("avx2", <<y, z>>, b)
  BY <1>1, <1>6, <1>8, WrittenVolume
<1>9. CASE \E from \in 0 .. z :
            Wrote("cuda", <<y, z>>, [x \in Line |->
              transition_volume_kernel(job, x + job.width * (y + job.width * (z - from)), from)])
  <2>1. PICK from \in 0 .. z :
            Wrote("cuda", <<y, z>>, [x \in Line |->
              transition_volume_kernel(job, x + job.width * (y + job.width * (z - from)), from)])
    BY <1>9
  <2>2. PICK c : c = [x \in Line |->
              transition_volume_kernel(job, x + job.width * (y + job.width * (z - from)), from)]
    OBVIOUS
  <2>3. VolumeHolds(job, y, z, c)
    BY <1>1, <1>2, <1>4, <2>2, ScalarVolumeRow
  <2> QED BY <1>1, <2>1, <2>2, <2>3, WrittenVolume
<1> QED BY <1>3, <1>5, <1>7, <1>8, <1>9

-----------------------------------------------------------------------------
(* Right angles.  Sums and products of finite numbers are exact or are not *)
(* finite.                                                                 *)
LEMMA ExactSums ==
  \A a, b : Finite(a) /\ Finite(b) => /\ Add(a, b) = Round(a + b)
                                      /\ (Finite(Add(a, b)) <=> Finite(a + b))
                                      /\ (Finite(a + b) => Add(a, b) = a + b)
<1> SUFFICES ASSUME NEW a, NEW b, Finite(a), Finite(b)
             PROVE  /\ Add(a, b) = Round(a + b)
                    /\ (Finite(Add(a, b)) <=> Finite(a + b))
                    /\ (Finite(a + b) => Add(a, b) = a + b)
  OBVIOUS
<1>1. a \in Int /\ b \in Int /\ a # NaN /\ b # NaN /\ a # Inf /\ b # Inf /\ a # -Inf /\ b # -Inf
  BY Numbers
<1>2. PICK s : s = a + b
  OBVIOUS
<1>3. s \in Int /\ Add(a, b) = Round(s)
  BY <1>1, <1>2 DEF Add
<1>4. (Finite(Round(s)) <=> Finite(s)) /\ (Finite(s) => Round(s) = s)
  BY <1>3, Numbers DEF Round
<1> QED BY <1>2, <1>3, <1>4

LEMMA ExactProducts ==
  \A a, b : Finite(a) /\ Finite(b) => /\ Mul(a, b) = Round(a * b)
                                      /\ (Finite(Mul(a, b)) <=> Finite(a * b))
                                      /\ (Finite(a * b) => Mul(a, b) = a * b)
<1> SUFFICES ASSUME NEW a, NEW b, Finite(a), Finite(b)
             PROVE  /\ Mul(a, b) = Round(a * b)
                    /\ (Finite(Mul(a, b)) <=> Finite(a * b))
                    /\ (Finite(a * b) => Mul(a, b) = a * b)
  OBVIOUS
<1>1. a \in Int /\ b \in Int /\ a # NaN /\ b # NaN
  BY Numbers
<1>2. PICK s : s = a * b
  OBVIOUS
<1>3. s \in Int
  BY <1>1, <1>2, Products
<1>4. Mul(a, b) = Round(s)
  BY <1>1, <1>2 DEF Mul
<1>5. (Finite(Round(s)) <=> Finite(s)) /\ (Finite(s) => Round(s) = s)
  BY <1>3, Numbers DEF Round
<1> QED BY <1>2, <1>4, <1>5

LEMMA RoundedIs ==
  \A s \in Int : /\ (Finite(Round(s)) <=> Finite(s)) /\ (Finite(s) => Round(s) = s)
                 /\ Round(s) \in -Inf .. Inf /\ (Finite(-s) <=> Finite(s))
  BY Numbers DEF Round

(* The shared square is added for each leg and taken away once.            *)
LEMMA SharedSquare ==
  ASSUME NEW X \in 0 .. Inf, NEW A \in 0 .. Inf, NEW d, d = Add(X, Neg(A)),
         NEW R \in {d, Magnitude(d)}, NEW S, S = Add(Add(R, X), Neg(X))
  PROVE  /\ Finite(S) => S = R /\ Finite(X) /\ Finite(A) /\ R \in {X - A, A - X}
         /\ ~Finite(S) => ~Finite(R) \/ (Finite(X) /\ Finite(A) /\ R \in {X - A, A - X} /\ 2 * (X + A) > Huge)
<1>1. Huge \in Nat /\ Huge >= 1 /\ Inf = Huge + 1 /\ NaN = Huge + 2
  BY Numbers
<1>2. \A a : Finite(a) <=> a \in Int /\ -Huge <= a /\ a <= Huge
  BY Numbers
<1>3. CASE X <= Huge /\ A <= Huge
  <2>1. d = X - A
    BY <1>1, <1>3 DEF Add, Neg, Round
  <2>2. R = X - A \/ R = A - X
    BY <1>1, <2>1 DEF Magnitude
  <2>3. R \in Int /\ -Huge <= R /\ R <= Huge
    BY <1>1, <1>3, <2>2
  <2>4. Add(R, X) = IF R + X > Huge THEN Inf ELSE R + X
    BY <1>1, <1>3, <2>2, <2>3 DEF Add, Round
  <2>5. CASE R + X > Huge
    <3>1. Add(R, X) = Inf
      BY <2>4, <2>5
    <3>2. S = Inf
      BY <1>1, <1>3, <3>1 DEF Add, Neg
    <3>3. 2 * (X + A) > Huge
      BY <1>1, <1>3, <2>2, <2>5
    <3> QED BY <1>1, <1>2, <1>3, <2>2, <3>2, <3>3
  <2>6. CASE ~(R + X > Huge)
    <3>1. PICK t : t = R + X
      OBVIOUS
    <3>2. Add(R, X) = t /\ t \in Int /\ t <= Huge /\ t >= -Huge
      BY <1>1, <1>3, <2>2, <2>3, <2>4, <2>6, <3>1
    <3>3. S = t - X
      BY <1>1, <1>3, <2>3, <3>1, <3>2 DEF Add, Neg, Round
    <3> QED BY <1>1, <1>2, <1>3, <2>2, <2>3, <3>1, <3>3
  <2> QED BY <2>5, <2>6
<1>4. CASE ~(X <= Huge /\ A <= Huge)
  <2>1. d \in {Inf, -Inf, NaN}
    BY <1>1, <1>4 DEF Add, Neg, Round
  <2>2. R \in {Inf, -Inf, NaN}
    BY <1>1, <2>1 DEF Magnitude
  <2>3. ~Finite(R)
    BY <1>1, <1>2, <2>2
  <2>4. Add(R, X) \in {Inf, -Inf, NaN}
    BY <1>1, <2>2 DEF Add
  <2>5. S \in {Inf, -Inf, NaN}
    BY <1>1, <2>4 DEF Add, Neg
  <2> QED BY <1>1, <1>2, <2>3, <2>5
<1> QED BY <1>3, <1>4

LEMMA SumsOut ==
  \A a \in Values : \A b : ~Finite(a) /\ Finite(b) => ~Finite(Add(a, b))
  BY Numbers DEF Add, Values

LEMMA Squares ==
  \A a \in Int : a * a \in Int /\ a * a >= 0 /\ a * a = Magnitude(a) * Magnitude(a) /\ Magnitude(a) \in Nat
<1> SUFFICES ASSUME NEW a \in Int
             PROVE  a * a \in Int /\ a * a >= 0
                    /\ (a # NaN => a * a = Magnitude(a) * Magnitude(a) /\ Magnitude(a) \in Nat)
                    /\ (a = NaN => a * a = Magnitude(a) * Magnitude(a) /\ Magnitude(a) \in Nat)
  OBVIOUS
<1>1. a >= 0 => a * a >= 0
  BY Products
<1>2. (-a) * (-a) = a * a /\ (-a >= 0 => (-a) * (-a) >= 0)
  BY Products
<1>3. NaN \in Nat
  BY Numbers
<1> QED BY <1>1, <1>2, <1>3 DEF Magnitude

(* The norm of a finite point is beyond a bound when the sum of its        *)
(* squares is.                                                             *)
LEMMA NormBeyond ==
  ASSUME NEW a, NEW b, Finite(a), Finite(b), NEW t \in Nat, t <= Huge
  PROVE  FiniteNorm(Cached(Point(a, b))) > t <=> a * a + b * b > t
<1>1. PICK p, q : p = a * a /\ q = b * b
  OBVIOUS
<1>2. a \in Int /\ b \in Int
  BY Numbers
<1>3. p \in Nat /\ q \in Nat
  BY <1>1, <1>2, Squares
<1>4. Mul(a, a) = Round(p) /\ Mul(b, b) = Round(q)
  BY <1>1, ExactProducts
<1>5. FiniteNorm(Cached(Point(a, b))) = Add(Round(p), Round(q))
  BY <1>4 DEF FiniteNorm, Cached, Point
<1>6. CASE p <= Huge /\ q <= Huge
  <2>1. Round(p) = p /\ Round(q) = q
    BY <1>3, <1>6, Numbers DEF Round
  <2>2. Add(p, q) = IF p + q > Huge THEN Inf ELSE p + q
    BY <1>3, <1>6, Numbers DEF Add, Round
  <2> QED BY <1>1, <1>3, <1>5, <2>1, <2>2, Numbers
<1>7. CASE ~(p <= Huge /\ q <= Huge)
  <2>1. Round(p) \in 0 .. Inf /\ Round(q) \in 0 .. Inf /\ (Round(p) = Inf \/ Round(q) = Inf)
    BY <1>3, <1>7, Numbers DEF Round
  <2>2. Add(Round(p), Round(q)) = Inf
    BY <2>1, Numbers DEF Add
  <2>3. p + q > t
    BY <1>3, <1>7, Numbers
  <2> QED BY <1>1, <1>5, <2>2, <2>3, Numbers
<1> QED BY <1>6, <1>7

(* A point with a large coordinate escapes.                                *)
LEMMA SquaresGrow ==
  \A a, b \in Nat : a > b => a * a > b * b
<1> SUFFICES ASSUME NEW a \in Nat, NEW b \in Nat, a > b PROVE a * a > b * b
  OBVIOUS
<1>1. PICK d : d = a - b
  OBVIOUS
<1>2. d \in Nat /\ d >= 1 /\ a = b + d
  BY <1>1
<1>3. a * a = b * b + 2 * (b * d) + d * d
  BY <1>2
<1>4. b * d >= 0 /\ b * d \in Int /\ b * b \in Int
  BY <1>2, Products
<1>5. d * d >= 1 /\ d * d \in Int
  <2>1. 1 * d <= d * d
    BY <1>2
  <2> QED BY <1>2, <2>1
<1> QED BY <1>3, <1>4, <1>5

LEMMA LargeSquare ==
  ASSUME NEW a \in Int, NEW b \in Nat, a > b \/ a < -b
  PROVE  a * a > b * b
<1>1. PICK m : m = IF a >= 0 THEN a ELSE -a
  OBVIOUS
<1>2. m \in Nat /\ m > b /\ (m = a \/ m = -a)
  BY <1>1
<1>3. m * m > b * b
  BY <1>2, SquaresGrow
<1>4. (-a) * (-a) = a * a
  OBVIOUS
<1> QED BY <1>2, <1>3, <1>4

(* Whether a point of the plane escapes a radius.                          *)
Beyond(b, Z) == ~Finite(Z.re) \/ ~Finite(Z.im) \/ FiniteNorm(Z) > b * b

LEMMA EscapesBy ==
  ASSUME NEW b \in Nat, b * b <= Huge, NEW x, NEW y, NEW Z, Z = Cached(Point(x, y)),
         ~Finite(x) \/ ~Finite(y) \/ x > b \/ x < -b \/ y > b \/ y < -b
  PROVE  Beyond(b, Z)
<1>1. Z.re = x /\ Z.im = y
  BY DEF Cached, Point
<1>2. ASSUME Finite(x), Finite(y) PROVE FiniteNorm(Z) > b * b
  <2>1. PICK t, p, q : t = b * b /\ p = x * x /\ q = y * y
    OBVIOUS
  <2>2. x \in Int /\ y \in Int
    BY <1>2, Numbers
  <2>3. t \in Nat /\ p \in Nat /\ q \in Nat
    BY <2>1, <2>2, Products, Squares
  <2>4. p > t \/ q > t
    BY <1>2, <2>1, <2>2, LargeSquare
  <2>5. p + q > t
    BY <2>3, <2>4
  <2>6. t <= Huge
    BY <2>1
  <2> QED BY <1>2, <2>1, <2>3, <2>5, <2>6, NormBeyond
<1> QED BY <1>1, <1>2 DEF Beyond

LEMMA NearBy ==
  ASSUME NEW b \in Nat, b * b <= Huge, NEW x, NEW y, ~Beyond(b, Cached(Point(x, y)))
  PROVE  Finite(x) /\ Finite(y) /\ -b <= x /\ x <= b /\ -b <= y /\ y <= b
<1>1. Finite(x) /\ Finite(y)
  BY EscapesBy
<1>2. x \in Int /\ y \in Int
  BY <1>1, Numbers
<1>3. ~(x > b \/ x < -b \/ y > b \/ y < -b)
  BY EscapesBy
<1> QED BY <1>1, <1>2, <1>3

-----------------------------------------------------------------------------
(* What the chosen leg makes of a finite point.                            *)
LEMMA FoldIsSigned ==
  \A f \in Signs : \A a : Finite(a) => Fold(f, a) \in {a, -a} /\ Finite(Fold(f, a))
<1> SUFFICES ASSUME NEW f \in Signs, NEW a, Finite(a) PROVE Fold(f, a) \in {a, -a} /\ Finite(Fold(f, a))
  OBVIOUS
<1>1. a \in Int /\ a # NaN /\ -Huge <= a /\ a <= Huge
  BY Numbers
<1>2. Fold(f, a) = a \/ Fold(f, a) = -a
  BY <1>1 DEF Signs, Fold, Neg, Magnitude
<1>3. Finite(a) /\ Finite(-a)
  BY <1>1, Numbers
<1> QED BY <1>2, <1>3

LEMMA FoldOut ==
  \A f \in Signs, a \in Values : Finite(Fold(f, a)) => Finite(a)
<1> SUFFICES ASSUME NEW f \in Signs, NEW a \in Values, Finite(Fold(f, a)) PROVE Finite(a)
  OBVIOUS
<1>1. a \in Int
  BY Numbers
<1>2. Fold(f, a) = a \/ Fold(f, a) = -a
  BY <1>1 DEF Signs, Fold, Neg, Magnitude
<1> QED BY <1>1, <1>2, Numbers

LEMMA SignsOf ==
  \A v \in Quadratic : /\ variant_step[v][1] \in Signs /\ variant_step[v][2] \in Signs
                       /\ variant_step[v][3] \in {"+", "|"} /\ variant_step[v][4] \in Signs
<1> SUFFICES ASSUME NEW v \in Quadratic
             PROVE  /\ variant_step[v][1] \in Signs /\ variant_step[v][2] \in Signs
                    /\ variant_step[v][3] \in {"+", "|"} /\ variant_step[v][4] \in Signs
  OBVIOUS
<1>1. variant_step[v] \in Folding
  BY TablesAreTyped DEF StepTables
<1>2. variant_step[v][1] \in Signs /\ variant_step[v][2] \in Signs /\ variant_step[v][4] \in Signs
  BY <1>1 DEF Folding
<1>3. v \in {0, 1, 2, 3, 4, 5, 6, 7, 8, 9}
  BY DEF Quadratic
<1>4. variant_step[v][3] \in {"+", "|"}
  BY <1>3 DEF variant_step, Quadratic
<1> QED BY <1>2, <1>4

LEMMA MixedProduct ==
  ASSUME Finite(2), NEW v \in Quadratic, NEW x, NEW a, Finite(x), Finite(a), NEW I, I = ImagIs(v, x, a), Finite(I)
  PROVE  I = 2 * (x * a) \/ I = -(2 * (x * a))
<1>1. PICK u, w : u = Fold(variant_step[v][1], x) /\ w = Fold(variant_step[v][2], a)
  OBVIOUS
<1>2. u \in {x, -x} /\ Finite(u) /\ w \in {a, -a} /\ Finite(w)
  BY <1>1, SignsOf, FoldIsSigned
<1>3. x \in Int /\ a \in Int /\ u \in Int /\ w \in Int
  BY <1>2, Numbers
<1>4. PICK m, r : m = x * a /\ r = u * w
  OBVIOUS
<1>5. m \in Int /\ (r = m \/ r = -m)
  <2>1. x * (-a) = -(x * a) /\ (-x) * a = -(x * a) /\ (-x) * (-a) = x * a
    BY <1>3
  <2> QED BY <1>2, <1>3, <1>4, <2>1, Products
<1>6. Mul(u, w) = Round(r) /\ (Finite(Round(r)) => Round(r) = r /\ Finite(r)) /\ Round(r) \in -Inf .. Inf
  BY <1>2, <1>4, <1>5, ExactProducts, RoundedIs
<1>7. PICK p, t : p = Round(r) /\ t = Mul(2, p)
  OBVIOUS
<1>8. I = Fold(variant_step[v][4], t)
  BY <1>1, <1>6, <1>7 DEF ImagIs
<1>9. p \in Values /\ 2 \in Values /\ t \in Values
  <2>1. p \in Values /\ 2 \in Values
    BY <1>6, <1>7, Numbers DEF Values
  <2> QED BY <1>7, <2>1, ProductsAreValues
<1>10. Finite(t)
  BY <1>8, <1>9, SignsOf, FoldOut
<1>11. Finite(p)
  <2>1. CASE p = Inf
    <3>1. t = Round(2 * Inf)
      BY <1>7, <2>1, Numbers DEF Mul
    <3> QED BY <1>10, <3>1, Numbers DEF Round
  <2>2. CASE p = -Inf
    <3>1. t = Round(2 * (-Inf))
      BY <1>7, <2>2, Numbers DEF Mul
    <3> QED BY <1>10, <3>1, Numbers DEF Round
  <2> QED BY <1>6, <1>7, <2>1, <2>2, Numbers
<1>12. p = r /\ Finite(r)
  BY <1>6, <1>7, <1>11
<1>13. t = 2 * r
  BY <1>7, <1>10, <1>11, <1>12, ExactProducts
<1>14. I = t \/ I = -t
  BY <1>8, <1>10, SignsOf, FoldIsSigned
<1> QED BY <1>4, <1>5, <1>13, <1>14

(* The square of a sum of squares.                                         *)
LEMMA BothTogether ==
  ASSUME NEW x \in Int, NEW a \in Int, NEW F, NEW I,
         F = x * x - a * a \/ F = a * a - x * x, I = 2 * (x * a) \/ I = -(2 * (x * a))
  PROVE  F \in Int /\ I \in Int /\ F * F + I * I = (x * x + a * a) * (x * x + a * a)
<1>1. PICK X, A, m : X = x * x /\ A = a * a /\ m = x * a
  OBVIOUS
<1>2. X \in Int /\ A \in Int /\ m \in Int
  BY <1>1, Products
<1>3. m * m = X * A
  BY <1>1
<1>4. F \in Int /\ I \in Int
  BY <1>1, <1>2
<1>5. F * F = X * X - 2 * (X * A) + A * A
  BY <1>1, <1>2
<1>6. I * I = 4 * (m * m)
  BY <1>1, <1>2
<1>7. (X + A) * (X + A) = X * X + 2 * (X * A) + A * A
  BY <1>2
<1>8. X * X \in Int /\ X * A \in Int /\ A * A \in Int
  BY <1>2, Products
<1> QED BY <1>1, <1>3, <1>4, <1>5, <1>6, <1>7, <1>8

LEMMA OneIsLarge ==
  ASSUME NEW F \in Int, NEW I \in Int, NEW N \in Nat, F * F + I * I = N * N, NEW h \in Nat, 2 * N > h
  PROVE  4 * F > h \/ 4 * F < -h \/ 4 * I > h \/ 4 * I < -h
<1> SUFFICES ASSUME 4 * F <= h, 4 * F >= -h, 4 * I <= h, 4 * I >= -h PROVE FALSE
  OBVIOUS
<1>1. \A a \in Int : 4 * a <= h /\ 4 * a >= -h => 16 * (a * a) <= h * h
  <2> SUFFICES ASSUME NEW a \in Int, 4 * a <= h, 4 * a >= -h, 16 * (a * a) > h * h PROVE FALSE
    OBVIOUS
  <2>1. PICK m : m = IF a >= 0 THEN 4 * a ELSE -(4 * a)
    OBVIOUS
  <2>2. m \in Nat /\ m <= h
    BY <2>1
  <2>3. m * m = 16 * (a * a)
    BY <2>1
  <2>4. h * m <= h * h /\ m * m <= m * h
    BY <2>2, MultipliesInOrder
  <2>5. h * m = m * h
    BY <2>2
  <2> QED BY <2>2, <2>3, <2>4, <2>5
<1>2. PICK p, q, s, k : p = F * F /\ q = I * I /\ s = N * N /\ k = h * h
  OBVIOUS
<1>3. p \in Int /\ q \in Int /\ s \in Int /\ k \in Int /\ p + q = s
  BY <1>2, Products
<1>4. 16 * p <= k /\ 16 * q <= k
  BY <1>1, <1>2
<1>5. 4 * s > k
  <2>1. PICK m : m = 2 * N
    OBVIOUS
  <2>2. m \in Nat /\ m > h /\ m * m > h * h
    BY <2>1, SquaresGrow
  <2>3. m * m = 4 * s
    BY <1>2, <2>1
  <2> QED BY <1>2, <2>2, <2>3
<1>6. k >= 0
  BY <1>2, Products
<1> QED BY <1>3, <1>4, <1>5, <1>6

(* A leg whose axis is zero stays there, and adds the shared square.       *)
LEMMA IdleLeg ==
  ASSUME Finite(2), NEW v \in Quadratic, NEW x, Finite(x), NEW X \in 0 .. Inf
  PROVE  ImagIs(v, x, 0) = 0 /\ RealIs(v, X, Mul(0, 0)) = X
<1>1. Finite(0) /\ 0 \in Values /\ X \in Values
  BY Numbers DEF Values
<1>2. \A f \in Signs : Fold(f, 0) = 0
  BY <1>1, FoldIsSigned
<1>3. \A a : Finite(a) => Mul(a, 0) = 0
  <2> SUFFICES ASSUME NEW a, Finite(a) PROVE Mul(a, 0) = 0
    OBVIOUS
  <2>1. a \in Int /\ a * 0 = 0
    BY Numbers
  <2> QED BY <1>1, <2>1, ExactProducts
<1>4. ImagIs(v, x, 0) = 0
  <2>1. PICK u : u = Fold(variant_step[v][1], x)
    OBVIOUS
  <2>2. Finite(u) /\ Mul(u, 0) = 0 /\ Mul(2, 0) = 0
    BY <1>3, <2>1, SignsOf, FoldIsSigned
  <2> QED BY <1>2, <2>1, <2>2, SignsOf DEF ImagIs
<1>5. Neg(0) = 0 /\ Mul(0, 0) = 0
  <2>1. \A e \in Int : e >= 0 /\ e <= 0 => Neg(e) = e
    BY Numbers DEF Neg
  <2> QED BY <1>1, <1>3, <2>1
<1>6. Add(X, 0) = X
  BY <1>1, NeutralNumbers
<1>7. Fold("+", X) = X /\ Fold("|", X) = X
  BY DEF Fold, Magnitude
<1> QED BY <1>4, <1>5, <1>6, <1>7, SignsOf DEF RealIs

LEMMA SumOfTwo ==
  ASSUME NEW t \in [1 .. 2 -> Values]
  PROVE  SumOver(2, t) = Add(t[1], t[2])
<1>1. PICK s \in [0 .. 2 -> Values] : s[0] = 0 /\ (\A k \in 1 .. 2 : s[k] = Add(s[k - 1], t[k])) /\ SumOver(2, t) = s[2]
  BY SumRecurs
<1>2. s[1] = Add(s[0], t[1]) /\ s[2] = Add(s[1], t[2])
  <2>1. 1 \in 1 .. 2 /\ 2 \in 1 .. 2 /\ 1 - 1 = 0 /\ 2 - 1 = 1
    OBVIOUS
  <2> QED BY <1>1, <2>1
<1>3. t[1] \in Values
  OBVIOUS
<1> QED BY <1>1, <1>2, <1>3, NeutralNumbers

LEMMA SumsCommute ==
  \A a, b \in Values : Add(a, b) = Add(b, a)
<1> SUFFICES ASSUME NEW a \in Values, NEW b \in Values PROVE Add(a, b) = Add(b, a)
  OBVIOUS
<1>1. {a, b} = {b, a} /\ a + b = b + a
  BY Numbers
<1> QED BY <1>1, Zenon DEF Add

(* One step of a slice whose other leg is idle.                            *)
OnAxis(k, w) == w \in Vectors(2) /\ w.axis[3 - k] = 0

LEMMA RightAngleStep ==
  ASSUME Finite(2), NEW legs, IsLegs(2, legs), NEW k \in 1 .. 2, NEW z, OnAxis(k, z), NEW c, OnAxis(k, c),
         Finite(z.x), Finite(z.axis[k]), NEW w, w = TrueSliceStep(legs, z, c),
         NEW X, X = Mul(z.x, z.x), NEW R, R = RealIs(legs[k].variant, X, Mul(z.axis[k], z.axis[k]))
  PROVE  /\ OnAxis(k, w) /\ X \in 0 .. Inf
         /\ w.axis[k] = Add(ImagIs(legs[k].variant, z.x, z.axis[k]), c.axis[k])
         /\ w.x = Add(Add(Add(R, X), Neg(X)), c.x)

<1> DEFINE o == 3 - k
<1>1. o \in 1 .. 2 /\ o # k
  OBVIOUS
<1>2. /\ z \in Vectors(2) /\ z.axis[o] = 0 /\ c \in Vectors(2) /\ c.axis[o] = 0
  BY DEF OnAxis
<1> HIDE DEF o
<1>3. /\ z.x \in Values /\ z.axis[1] \in Values /\ z.axis[2] \in Values /\ c.x \in Values
      /\ c.axis[1] \in Values /\ c.axis[2] \in Values
  <2>1. 2 \in Nat /\ 1 \in 1 .. 2 /\ 2 \in 1 .. 2
    OBVIOUS
  <2> QED BY <1>2, <2>1, VectorParts
<1>4. Len(legs) = 2 /\ \A i \in 1 .. 2 : legs[i].variant \in Quadratic
  BY DEF IsLegs
<1>5. X \in 0 .. Inf /\ X \in Values
  <2>1. PICK n : n = z.x * z.x
    OBVIOUS
  <2>2. n \in Nat
    <3>1. z.x \in Int
      BY Numbers
    <3> QED BY <2>1, <3>1, Squares
  <2>3. X = Round(n)
    BY <2>1, ExactProducts
  <2> QED BY <2>2, <2>3, Numbers DEF Round, Values
<1>6. PICK t, b : /\ t = [i \in 1 .. 2 |-> LegMove(legs[i], z, i).re]
                  /\ b = [i \in 1 .. 2 |-> Add(LegMove(legs[i], z, i).im, c.axis[i])]
  OBVIOUS
<1>7. w = [x |-> Add(Add(SumOver(2, t), Neg(Mul(2 - 1, Mul(z.x, z.x)))), c.x), axis |-> b]
  BY <1>4, <1>6 DEF TrueSliceStep
<1>8. \A i \in 1 .. 2 : /\ t[i] = RealIs(legs[i].variant, X, Mul(z.axis[i], z.axis[i])) /\ t[i] \in Values
                        /\ LegMove(legs[i], z, i).im = ImagIs(legs[i].variant, z.x, z.axis[i])
  BY <1>2, <1>4, <1>6, LegMoveIs
<1>9. t[k] = R /\ t[o] = X /\ LegMove(legs[o], z, o).im = 0
  BY <1>1, <1>2, <1>4, <1>5, <1>8, IdleLeg
<1>10. t \in [1 .. 2 -> Values]
  BY <1>6, <1>8
<1>11. SumOver(2, t) = Add(R, X)
  <2>1. SumOver(2, t) = Add(t[1], t[2])
    BY <1>10, SumOfTwo
  <2>2. (k = 1 /\ o = 2) \/ (k = 2 /\ o = 1)
    BY <1>1
  <2>3. R \in Values /\ t[o] = X /\ t[k] = R
    BY <1>8, <1>9
  <2>4. Add(R, X) = Add(X, R)
    BY <1>5, <2>3, SumsCommute
  <2> QED BY <2>1, <2>2, <2>3, <2>4
<1>12. Mul(2 - 1, Mul(z.x, z.x)) = X
  <2>1. 2 - 1 = 1
    OBVIOUS
  <2> QED BY <1>5, <2>1, NeutralNumbers
<1>13. w.x = Add(Add(Add(R, X), Neg(X)), c.x) /\ w.axis = b
  BY <1>7, <1>11, <1>12
<1>14. b[o] = 0
  <2>1. b[o] = Add(0, c.axis[o])
    BY <1>1, <1>6, <1>9
  <2>2. Add(0, 0) = 0
    BY <1>5, NeutralNumbers, Numbers DEF Values
  <2> QED BY <1>2, <2>1, <2>2
<1>15. b[k] = Add(ImagIs(legs[k].variant, z.x, z.axis[k]), c.axis[k])
  BY <1>6, <1>8
<1>16. w \in Vectors(2)
  <2>1. 2 \in Nat /\ "openmp" \in Copies /\ 2 <= Huge
    BY Numbers DEF Copies
  <2> QED BY <1>2, <2>1, StepsOfSlice
<1> QED BY <1>5, <1>13, <1>14, <1>15, <1>16 DEF OnAxis, o

-----------------------------------------------------------------------------
(* A point of the slice and a point of the map are twins when they have    *)
(* the same coordinates; then they have the same size.                     *)
Twin(k, w, W) == OnAxis(k, w) /\ W = Cached(Point(w.x, w.axis[k]))

LEMMA SameSize ==
  ASSUME NEW k \in 1 .. 2, NEW w, NEW W, Twin(k, w, W), NEW b \in Nat, b * b <= Huge
  PROVE  Gt(TrueSize(w), b * b) <=> Beyond(b, W)
<1> DEFINE o == 3 - k
<1>1. o \in 1 .. 2 /\ o # k /\ w \in Vectors(2) /\ w.axis[o] = 0 /\ W = Cached(Point(w.x, w.axis[k]))
  BY DEF Twin, OnAxis
<1> HIDE DEF o
<1>2. /\ w.x \in Values /\ w.axis[k] \in Values /\ Len(w.axis) = 2 /\ DOMAIN w.axis = 1 .. 2
      /\ \A i \in 1 .. 2 : w.axis[i] \in Values
  <2>1. 2 \in Nat
    OBVIOUS
  <2>2. w \in Vectors(2) /\ k \in 1 .. 2
    BY <1>1
  <2>3. w.x \in Values /\ w.axis \in [1 .. 2 -> Values] /\ Len(w.axis) = 2 /\ DOMAIN w.axis = 1 .. 2
    BY <2>1, <2>2, VectorParts, ZenonT(60)
  <2>4. \A i \in 1 .. 2 : w.axis[i] \in Values
    BY <2>3
  <2> QED BY <2>2, <2>3, <2>4, ZenonT(60)
<1>3. PICK x, a, t : x = w.x /\ a = w.axis[k] /\ t = b * b
  OBVIOUS
<1>4. t \in Nat /\ t <= Huge
  BY <1>3, Products
<1>5. Finite(0) /\ Mul(0, 0) = 0
  <2>1. Finite(0) /\ 0 * 0 = 0
    BY Numbers
  <2> QED BY <2>1, ExactProducts
<1>6. AllFinite(w) <=> Finite(x) /\ Finite(a)
  <2>1. \A i \in 1 .. 2 : i = k \/ i = o
    BY <1>1
  <2> QED BY <1>1, <1>2, <1>3, <1>5, <2>1 DEF AllFinite
<1>7. CASE Finite(x) /\ Finite(a)
  <2>1. PICK s : s = [i \in 1 .. 2 |-> Mul(w.axis[i], w.axis[i])]
    OBVIOUS
  <2>2. s[k] = Mul(a, a) /\ s[o] = 0 /\ s \in [1 .. 2 -> Values]
    BY <1>1, <1>2, <1>3, <1>5, <2>1, ProductsAreValues
  <2>3. SumOver(2, s) = Mul(a, a)
    <3>1. SumOver(2, s) = Add(s[1], s[2])
      BY <2>2, SumOfTwo
    <3>2. (k = 1 /\ o = 2) \/ (k = 2 /\ o = 1)
      BY <1>1
    <3>3. s[k] \in Values
      BY <2>2
    <3> QED BY <2>2, <3>1, <3>2, <3>3, NeutralNumbers
  <2>4. SliceNorm(w) = Add(Mul(x, x), Mul(a, a))
    BY <1>2, <1>3, <2>1, <2>3 DEF SliceNorm
  <2>5. FiniteNorm(W) = Add(Mul(x, x), Mul(a, a)) /\ W.re = x /\ W.im = a
    BY <1>1, <1>3, <1>7 DEF FiniteNorm, Cached, Point
  <2>6. FiniteNorm(W) \in 0 .. Inf
    BY <1>1, NormOfPoint DEF IsPoint
  <2>7. TrueSize(w) = FiniteNorm(W)
    BY <1>6, <1>7, <2>4, <2>5 DEF TrueSize
  <2>8. PICK n : n = FiniteNorm(W)
    OBVIOUS
  <2>9. Gt(n, t) <=> n > t
    BY <1>4, <2>6, <2>8, Numbers DEF Gt
  <2> QED BY <1>3, <1>7, <2>5, <2>7, <2>8, <2>9 DEF Beyond
<1>8. CASE ~(Finite(x) /\ Finite(a))
  <2>1. TrueSize(w) = Inf
    BY <1>6, <1>8 DEF TrueSize
  <2>2. Gt(Inf, t)
    BY <1>4, Numbers DEF Gt
  <2>3. W.re = x /\ W.im = a
    BY <1>1, <1>3 DEF Cached, Point
  <2> QED BY <1>3, <1>8, <2>1, <2>2, <2>3 DEF Beyond
<1> QED BY <1>7, <1>8

LEMMA OutOfSlice ==
  ASSUME NEW w, ~Finite(w.x), NEW b \in Nat, b * b <= Huge
  PROVE  Gt(TrueSize(w), b * b)
<1>1. PICK t : t = b * b
  OBVIOUS
<1>2. t \in Nat /\ t <= Huge
  BY <1>1, Products
<1>3. TrueSize(w) = Inf
  BY DEF TrueSize, AllFinite
<1>4. Gt(Inf, t)
  BY <1>2, Numbers DEF Gt
<1> QED BY <1>1, <1>3, <1>4

(* What the map's step is to the slice's.                                  *)
LEMMA MapStep ==
  ASSUME NEW v, NEW x, NEW a, NEW c, NEW W, W = QuadraticStep(variant_step[v], Cached(Point(x, a)), c)
  PROVE  /\ W.re = Add(RealIs(v, Mul(x, x), Mul(a, a)), c.re) /\ W.im = Add(ImagIs(v, x, a), c.im)
         /\ W = Cached(Point(W.re, W.im))
<1>1. PICK f : f = variant_step[v]
  OBVIOUS
<1>2. PICK re, im : /\ re = Add(Fold(f[3], Add(Mul(x, x), Neg(Mul(a, a)))), c.re)
                    /\ im = Add(Fold(f[4], Mul(2, Mul(Fold(f[1], x), Fold(f[2], a)))), c.im)
  OBVIOUS
<1>3. W = Cached(Point(re, im))
  BY <1>1, <1>2 DEF QuadraticStep, Cached, Point
<1>4. W.re = re /\ W.im = im
  BY <1>3 DEF Cached, Point
<1> QED BY <1>1, <1>2, <1>3, <1>4 DEF RealIs, ImagIs

LEMMA MagnitudeBounds ==
  \A a : Finite(a) => a <= Magnitude(a) /\ -a <= Magnitude(a) /\ Magnitude(a) \in Nat
  BY Numbers DEF Magnitude

(* Overflow in the shared square: the map's point escapes all the same.    *)
LEMMA OverflowEscapes ==
  ASSUME Finite(2), NEW v \in Quadratic, NEW x, NEW a, Finite(x), Finite(a), NEW b \in Nat, b * b <= Huge,
         NEW u, NEW y, Finite(u), Finite(y), 4 * (b + Magnitude(u) + Magnitude(y)) <= Huge,
         NEW X, X = Mul(x, x), NEW A, A = Mul(a, a), Finite(X), Finite(A),
         NEW R, R \in {X - A, A - X}, 2 * (X + A) > Huge, NEW I, I = ImagIs(v, x, a),
         NEW W, W = Cached(Point(Add(R, u), Add(I, y)))
  PROVE  Beyond(b, W)
<1>1. /\ x \in Int /\ a \in Int /\ u \in Int /\ y \in Int /\ X \in Int /\ A \in Int /\ Huge \in Nat
      /\ -Huge <= X /\ X <= Huge /\ -Huge <= A /\ A <= Huge
  BY Numbers
<1>2. X = x * x /\ A = a * a
  BY ExactProducts
<1>3. X >= 0 /\ A >= 0
  BY <1>1, <1>2, Squares
<1>4. Finite(R) /\ R \in Int
  BY <1>1, <1>3, Numbers
<1>5. CASE ~Finite(I)
  <2>1. I \in Values
    <3>1. x \in Values /\ a \in Values /\ 2 \in Values
      BY <1>1, Numbers DEF Values
    <3> QED BY <3>1, SignsOf, FoldsAreValues, ProductsAreValues DEF ImagIs, Signs
  <2>2. ~Finite(Add(I, y))
    BY <1>5, <2>1, SumsOut
  <2> QED BY <2>2, EscapesBy
<1>6. CASE Finite(I)
  <2>1. I = 2 * (x * a) \/ I = -(2 * (x * a))
    BY <1>6, MixedProduct
  <2>2. R = x * x - a * a \/ R = a * a - x * x
    BY <1>2
  <2>3. I \in Int /\ R * R + I * I = (x * x + a * a) * (x * x + a * a)
    <3>1. \A F, J : (F = x * x - a * a \/ F = a * a - x * x) /\ (J = 2 * (x * a) \/ J = -(2 * (x * a)))
                    => F \in Int /\ J \in Int /\ F * F + J * J = (x * x + a * a) * (x * x + a * a)
      BY <1>1, BothTogether
    <3> QED BY <2>1, <2>2, <3>1, Zenon
  <2>4. PICK N : N = X + A
    OBVIOUS
  <2>5. N \in Nat /\ R * R + I * I = N * N /\ 2 * N > Huge
    BY <1>1, <1>2, <1>3, <2>3, <2>4
  <2>6. 4 * R > Huge \/ 4 * R < -Huge \/ 4 * I > Huge \/ 4 * I < -Huge
    BY <1>1, <1>4, <2>3, <2>5, OneIsLarge
  <2>7. u <= Magnitude(u) /\ -u <= Magnitude(u) /\ y <= Magnitude(y) /\ -y <= Magnitude(y)
        /\ Magnitude(u) \in Nat /\ Magnitude(y) \in Nat
    BY MagnitudeBounds
  <2>8. R + u > b \/ R + u < -b \/ I + y > b \/ I + y < -b
    BY <1>1, <1>4, <2>3, <2>6, <2>7
  <2>9. (Finite(R + u) => Add(R, u) = R + u) /\ (~Finite(R + u) => ~Finite(Add(R, u)))
    BY <1>4, ExactSums
  <2>10. (Finite(I + y) => Add(I, y) = I + y) /\ (~Finite(I + y) => ~Finite(Add(I, y)))
    BY <1>6, ExactSums
  <2> QED BY <2>8, <2>9, <2>10, EscapesBy
<1> QED BY <1>5, <1>6

(* The parts of a step: the squares, what the leg makes of them and of the *)
(* product, and the sum before the constant is added.                      *)
Parts(v, k, z, c, w, X, A, R, I, S) ==
  /\ X = Mul(z.x, z.x) /\ A = Mul(z.axis[k], z.axis[k]) /\ R = RealIs(v, X, A) /\ I = ImagIs(v, z.x, z.axis[k])
  /\ R \in Values /\ I \in Values /\ S \in Values
  /\ OnAxis(k, w) /\ w.axis[k] = Add(I, c.axis[k]) /\ w.x = Add(S, c.x)
  /\ Finite(S) => S = R /\ Finite(X) /\ Finite(A) /\ R \in {X - A, A - X}
  /\ ~Finite(S) => ~Finite(R) \/ (Finite(X) /\ Finite(A) /\ R \in {X - A, A - X} /\ 2 * (X + A) > Huge)

LEMMA StepHasParts ==
  ASSUME Finite(2), NEW legs, IsLegs(2, legs), NEW k \in 1 .. 2, NEW z, OnAxis(k, z),
         Finite(z.x), Finite(z.axis[k]), NEW c, OnAxis(k, c), NEW w, w = TrueSliceStep(legs, z, c),
         NEW v, v = legs[k].variant
  PROVE  v \in Quadratic /\ \E X, A, R, I, S : Parts(v, k, z, c, w, X, A, R, I, S)
<1>1. v \in Quadratic
  BY DEF IsLegs
<1>2. PICK x, a : x = z.x /\ a = z.axis[k]
  OBVIOUS
<1>3. PICK X, A : X = Mul(x, x) /\ A = Mul(a, a)
  OBVIOUS
<1>4. PICK R, I : R = RealIs(v, X, A) /\ I = ImagIs(v, x, a)
  OBVIOUS
<1>5. PICK S : S = Add(Add(R, X), Neg(X))
  OBVIOUS
<1>6. OnAxis(k, w) /\ w.axis[k] = Add(I, c.axis[k]) /\ w.x = Add(S, c.x)
  BY <1>2, <1>3, <1>4, <1>5, RightAngleStep
<1>7. X \in 0 .. Inf /\ A \in 0 .. Inf
  <2>1. \A e : Finite(e) => Mul(e, e) \in 0 .. Inf
    <3> SUFFICES ASSUME NEW e, Finite(e) PROVE Mul(e, e) \in 0 .. Inf
      OBVIOUS
    <3>1. PICK n : n = e * e
      OBVIOUS
    <3>2. n \in Nat /\ Mul(e, e) = Round(n)
      <4>1. e \in Int
        BY Numbers
      <4> QED BY <3>1, <4>1, Squares, ExactProducts
    <3> QED BY <3>2, Numbers DEF Round
  <2> QED BY <1>2, <1>3, <2>1
<1>8. R \in {Add(X, Neg(A)), Magnitude(Add(X, Neg(A)))}
  <2>1. variant_step[v][3] = "+" \/ variant_step[v][3] = "|"
    BY <1>1, SignsOf
  <2> QED BY <1>4, <2>1 DEF RealIs, Fold
<1>9. R \in Values /\ S \in Values
  <2>1. X \in Values /\ A \in Values
    BY <1>7, Numbers DEF Values
  <2>2. "+" \in Signs /\ "|" \in Signs
    BY DEF Signs
  <2>3. Neg(A) \in Values /\ Neg(X) \in Values
    BY <2>1, <2>2, FoldsAreValues
  <2>4. Add(X, Neg(A)) \in Values
    BY <2>1, <2>3, SumsAreValues
  <2>5. R \in Values
    BY <1>8, <2>4, NegTwice
  <2> QED BY <1>5, <2>1, <2>3, <2>5, SumsAreValues
<1>10. I \in Values
  <2>1. x \in Values /\ a \in Values /\ 2 \in Values
    BY <1>2, Numbers DEF Values
  <2> QED BY <1>1, <1>4, <2>1, SignsOf, FoldsAreValues, ProductsAreValues DEF ImagIs
<1>11. /\ Finite(S) => S = R /\ Finite(X) /\ Finite(A) /\ R \in {X - A, A - X}
       /\ ~Finite(S) => ~Finite(R) \/ (Finite(X) /\ Finite(A) /\ R \in {X - A, A - X} /\ 2 * (X + A) > Huge)
  BY <1>5, <1>7, <1>8, SharedSquare
<1>12. Parts(v, k, z, c, w, X, A, R, I, S)
  BY <1>2, <1>3, <1>4, <1>6, <1>9, <1>10, <1>11, Zenon DEF Parts
<1> QED BY <1>1, <1>12

LEMMA StepTogether ==
  ASSUME Finite(2), NEW legs, IsLegs(2, legs), NEW k \in 1 .. 2, NEW z, NEW Z, Twin(k, z, Z),
         Finite(z.x), Finite(z.axis[k]), NEW c, OnAxis(k, c), Finite(c.x), Finite(c.axis[k]),
         NEW b \in Nat, b * b <= Huge, 4 * (b + Magnitude(c.x) + Magnitude(c.axis[k])) <= Huge,
         NEW w, w = TrueSliceStep(legs, z, c),
         NEW W, W = QuadraticStep(variant_step[legs[k].variant], Z, Point(c.x, c.axis[k]))
  PROVE  /\ Gt(TrueSize(w), b * b) <=> Beyond(b, W)
         /\ ~Beyond(b, W) => Twin(k, w, W) /\ Finite(w.x) /\ Finite(w.axis[k])
<1>1. OnAxis(k, z) /\ Z = Cached(Point(z.x, z.axis[k]))
  BY DEF Twin
<1>2. PICK v : v = legs[k].variant
  OBVIOUS
<1>3. PICK X, A, R, I, S : v \in Quadratic /\ Parts(v, k, z, c, w, X, A, R, I, S)
  BY <1>1, <1>2, StepHasParts
<1>4. PICK x, a, u, y : x = z.x /\ a = z.axis[k] /\ u = c.x /\ y = c.axis[k]
  OBVIOUS
<1>5. /\ X = Mul(x, x) /\ A = Mul(a, a) /\ R = RealIs(v, X, A) /\ I = ImagIs(v, x, a)
      /\ R \in Values /\ S \in Values
      /\ OnAxis(k, w) /\ w.axis[k] = Add(I, y) /\ w.x = Add(S, u)
  BY <1>3, <1>4 DEF Parts
<1>6. W.re = Add(R, u) /\ W.im = Add(I, y) /\ W = Cached(Point(W.re, W.im))
  <2>1. PICK p : p = Point(u, y)
    OBVIOUS
  <2>2. p.re = u /\ p.im = y
    BY <2>1 DEF Point
  <2>3. W = QuadraticStep(variant_step[v], Cached(Point(x, a)), p)
    BY <1>1, <1>2, <1>4, <2>1
  <2> QED BY <1>5, <2>2, <2>3, MapStep
<1>7. CASE Finite(S)
  <2>1. w.x = W.re /\ w.axis[k] = W.im
    BY <1>3, <1>5, <1>6, <1>7 DEF Parts
  <2>2. Twin(k, w, W)
    BY <1>5, <1>6, <2>1 DEF Twin
  <2>3. ~Beyond(b, W) => Finite(W.re) /\ Finite(W.im)
    BY DEF Beyond
  <2> QED BY <2>1, <2>2, <2>3, SameSize
<1>8. CASE ~Finite(S)
  <2>1. ~Finite(w.x)
    BY <1>4, <1>5, <1>8, SumsOut
  <2>2. Gt(TrueSize(w), b * b)
    BY <2>1, OutOfSlice
  <2>3. CASE ~Finite(R)
    <3>1. ~Finite(W.re)
      BY <1>4, <1>5, <1>6, <2>3, SumsOut
    <3>2. Beyond(b, W)
      BY <1>6, <3>1, EscapesBy
    <3> QED BY <2>2, <3>2
  <2>4. CASE Finite(R)
    <3>1. Finite(x) /\ Finite(a) /\ Finite(u) /\ Finite(y) /\ 4 * (b + Magnitude(u) + Magnitude(y)) <= Huge
      BY <1>4
    <3>2. W = Cached(Point(Add(R, u), Add(I, y)))
      BY <1>6
    <3>3. Finite(X) /\ Finite(A) /\ R \in {X - A, A - X} /\ 2 * (X + A) > Huge
      BY <1>3, <1>8, <2>4 DEF Parts
    <3>4. Beyond(b, W)
      BY <1>3, <1>5, <3>1, <3>2, <3>3, OverflowEscapes
    <3> QED BY <2>2, <3>4
  <2> QED BY <2>3, <2>4
<1> QED BY <1>7, <1>8

-----------------------------------------------------------------------------
(* A pixel outside the radius leaves it at once, on the slice as well.     *)
LEMMA FarSquare ==
  ASSUME NEW x \in Int, NEW a \in Int, NEW F, NEW I,
         F = x * x - a * a \/ F = a * a - x * x, I = 2 * (x * a) \/ I = -(2 * (x * a)),
         NEW t \in Nat, t >= 4, x * x + a * a > t
  PROVE  (F + x) * (F + x) + (I + a) * (I + a) > t
<1>1. PICK N : N = x * x + a * a
  OBVIOUS
<1>2. F \in Int /\ I \in Int /\ F * F + I * I = N * N
  BY <1>1, BothTogether
<1>3. N \in Nat /\ N >= 5 /\ N > t
  <2>1. x * x \in Int /\ a * a \in Int
    BY Products
  <2> QED BY <1>1, <2>1
<1>4. PICK p, q, X, A, P, Q : p = F * x /\ q = I * a /\ X = F * a /\ A = I * x /\ P = p + q /\ Q = X - A
  OBVIOUS
<1>5. p \in Int /\ q \in Int /\ X \in Int /\ A \in Int /\ P \in Int /\ Q \in Int
  BY <1>2, <1>4, Products
<1>6. (N * N) * N = P * P + Q * Q
  <2>1. (F * F + I * I) * (x * x + a * a) = (F * x + I * a) * (F * x + I * a) + (F * a - I * x) * (F * a - I * x)
    BY <1>2
  <2> QED BY <1>1, <1>2, <1>4, <2>1
<1>7. PICK s, r : s = N * N /\ r = s * N
  OBVIOUS
<1>8. s \in Nat /\ r \in Nat /\ s * s = r * N
  BY <1>3, <1>7, Products
<1>9. s + 2 * P >= 0
  <2> SUFFICES ASSUME s + 2 * P < 0 PROVE FALSE
    BY <1>5, <1>8
  <2>1. PICK m : m = -(2 * P)
    OBVIOUS
  <2>2. m \in Nat /\ m > s
    BY <1>5, <1>8, <2>1
  <2>3. m * m > s * s
    BY <1>8, <2>2, SquaresGrow
  <2>4. PICK h, g : h = P * P /\ g = Q * Q
    OBVIOUS
  <2>5. h \in Int /\ g \in Int /\ g >= 0 /\ r = h + g
    BY <1>5, <1>6, <1>7, <2>4, Squares
  <2>6. m * m = 4 * h
    BY <1>5, <2>1, <2>4
  <2>7. r * N >= r * 4
    BY <1>3, <1>8, MultipliesInOrder
  <2>8. r * 4 = 4 * r
    BY <1>8
  <2> QED BY <1>8, <2>3, <2>5, <2>6, <2>7, <2>8
<1>10. (F + x) * (F + x) + (I + a) * (I + a) = (F * F + I * I) + 2 * (F * x + I * a) + (x * x + a * a)
  BY <1>2
<1>11. (F + x) * (F + x) + (I + a) * (I + a) = s + 2 * P + N
  BY <1>1, <1>2, <1>4, <1>7, <1>10
<1> QED BY <1>3, <1>5, <1>8, <1>9, <1>11

LEMMA FarStart ==
  ASSUME Finite(2), NEW legs, IsLegs(2, legs), NEW k \in 1 .. 2, NEW c, OnAxis(k, c), Finite(c.x), Finite(c.axis[k]),
         NEW b \in Nat, b >= 2, b * b <= Huge, Beyond(b, Cached(Point(c.x, c.axis[k]))),
         NEW w, w = TrueSliceStep(legs, c, c)
  PROVE  Gt(TrueSize(w), b * b)
<1>1. PICK v : v = legs[k].variant
  OBVIOUS
<1>2. PICK X, A, R, I, S : v \in Quadratic /\ Parts(v, k, c, c, w, X, A, R, I, S)
  BY <1>1, StepHasParts
<1>3. PICK x, a, t : x = c.x /\ a = c.axis[k] /\ t = b * b
  OBVIOUS
<1>4. /\ X = Mul(x, x) /\ A = Mul(a, a) /\ I = ImagIs(v, x, a) /\ I \in Values /\ S \in Values
      /\ OnAxis(k, w) /\ w.axis[k] = Add(I, a) /\ w.x = Add(S, x)
  BY <1>2, <1>3 DEF Parts
<1>5. x \in Int /\ a \in Int /\ Finite(x) /\ Finite(a)
  BY <1>3, Numbers
<1>6. t \in Nat /\ t >= 4 /\ t <= Huge
  <2>1. 2 * b <= b * b
    BY MultipliesInOrder
  <2> QED BY <1>3, <2>1
<1>7. x * x + a * a > t
  <2>1. PICK Z : Z = Cached(Point(x, a))
    OBVIOUS
  <2>2. Z.re = x /\ Z.im = a /\ FiniteNorm(Z) > t
    BY <1>3, <1>5, <2>1 DEF Beyond, Cached, Point
  <2> QED BY <1>5, <1>6, <2>1, <2>2, NormBeyond
<1>8. CASE ~Finite(S)
  <2>1. ~Finite(w.x)
    BY <1>4, <1>5, <1>8, SumsOut
  <2> QED BY <2>1, OutOfSlice
<1>9. CASE Finite(S)
  <2>1. S = R /\ Finite(R) /\ Finite(X) /\ Finite(A) /\ R \in {X - A, A - X}
    BY <1>2, <1>9 DEF Parts
  <2>2. PICK W : W = Cached(Point(w.x, w.axis[k]))
    OBVIOUS
  <2>3. Twin(k, w, W) /\ W.re = w.x /\ W.im = w.axis[k]
    BY <1>4, <2>2 DEF Twin, Cached, Point
  <2>4. Beyond(b, W)
    <3> SUFFICES ASSUME Finite(w.x), Finite(w.axis[k]) PROVE FiniteNorm(W) > t
      BY <1>3, <2>3 DEF Beyond
    <3>1. Finite(I)
      BY <1>4, <1>5, SumsOut
    <3>2. I = 2 * (x * a) \/ I = -(2 * (x * a))
      BY <1>2, <1>4, <1>5, <3>1, MixedProduct
    <3>3. X = x * x /\ A = a * a
      BY <1>4, <1>5, <2>1, ExactProducts
    <3>4. R = x * x - a * a \/ R = a * a - x * x
      BY <2>1, <3>3
    <3>5. PICK p, q : p = R + x /\ q = I + a
      OBVIOUS
    <3>6. w.x = p /\ w.axis[k] = q
      BY <1>4, <1>5, <2>1, <3>1, <3>5, ExactSums
    <3>7. \A F, J : (F = x * x - a * a \/ F = a * a - x * x) /\ (J = 2 * (x * a) \/ J = -(2 * (x * a)))
                    => (F + x) * (F + x) + (J + a) * (J + a) > t
      BY <1>5, <1>6, <1>7, FarSquare
    <3>8. p * p + q * q > t
      BY <3>2, <3>4, <3>5, <3>7, Zenon
    <3> QED BY <1>6, <2>2, <3>6, <3>8, NormBeyond
  <2> QED BY <2>3, <2>4, SameSize
<1> QED BY <1>8, <1>9

-----------------------------------------------------------------------------
(* The orbit of the map, d points later, goes with the orbit of the slice  *)
(* until one of them leaves.                                               *)
Together(k, b, z, size, Z, d, n) ==
  \A i \in 1 .. n - d : Calm(size, b * b, i - 1) => (Gt(size[i], b * b) <=> Beyond(b, Z[i + d]))

LEMMA OrbitsTogether ==
  ASSUME Finite(2), NEW legs, IsLegs(2, legs), NEW k \in 1 .. 2, NEW c, OnAxis(k, c), Finite(c.x), Finite(c.axis[k]),
         NEW b \in Nat, b * b <= Huge, 4 * (b + Magnitude(c.x) + Magnitude(c.axis[k])) <= Huge,
         NEW n \in Nat, NEW d \in Nat, d <= n, NEW z, NEW size, NEW Z,
         \A i \in 1 .. n : z[i] = TrueSliceStep(legs, z[i - 1], c), \A i \in 0 .. n : size[i] = TrueSize(z[i]),
         \A i \in d + 1 .. n : Z[i] = QuadraticStep(variant_step[legs[k].variant], Z[i - 1], Point(c.x, c.axis[k])),
         Twin(k, z[0], Z[d]), Finite(z[0].x), Finite(z[0].axis[k])
  PROVE  Together(k, b, z, size, Z, d, n)
<1> DEFINE Pair(i) == Twin(k, z[i], Z[i + d]) /\ Finite(z[i].x) /\ Finite(z[i].axis[k])
           T == {i \in 0 .. n - d : Calm(size, b * b, i) => Pair(i)}
<1>1. n - d \in Nat
  OBVIOUS
<1>2. 0 \in T
  <2>1. 0 + d = d /\ 0 \in 0 .. n - d
    OBVIOUS
  <2> QED BY <2>1
<1>3. ASSUME NEW i \in 1 .. n - d, Pair(i - 1)
      PROVE  (Gt(size[i], b * b) <=> Beyond(b, Z[i + d])) /\ (~Beyond(b, Z[i + d]) => Pair(i))
  <2>1. /\ i \in 1 .. n /\ i \in 0 .. n /\ i + d \in d + 1 .. n /\ (i + d) - 1 = (i - 1) + d
    OBVIOUS
  <2>2. PICK p, q, w, W : p = z[i - 1] /\ q = Z[(i - 1) + d] /\ w = z[i] /\ W = Z[i + d]
    OBVIOUS
  <2>3. Twin(k, p, q) /\ Finite(p.x) /\ Finite(p.axis[k])
    BY <1>3, <2>2
  <2>4. w = TrueSliceStep(legs, p, c) /\ size[i] = TrueSize(w)
        /\ W = QuadraticStep(variant_step[legs[k].variant], q, Point(c.x, c.axis[k]))
    BY <2>1, <2>2
  <2>5. /\ Gt(TrueSize(w), b * b) <=> Beyond(b, W)
        /\ ~Beyond(b, W) => Twin(k, w, W) /\ Finite(w.x) /\ Finite(w.axis[k])
    BY <2>3, <2>4, StepTogether
  <2> QED BY <2>2, <2>4, <2>5
<1>4. ASSUME NEW i \in 1 .. n - d, i - 1 \in T PROVE i \in T
  <2>1. i \in 0 .. n - d /\ (\A m \in 1 .. i - 1 : m \in 1 .. i) /\ i \in 1 .. i
    OBVIOUS
  <2> SUFFICES ASSUME Calm(size, b * b, i) PROVE Pair(i)
    BY <2>1
  <2>2. Calm(size, b * b, i - 1) /\ ~Gt(size[i], b * b)
    BY <2>1 DEF Calm
  <2>3. Pair(i - 1)
    BY <1>4, <2>2
  <2> QED BY <1>3, <2>2, <2>3
<1>5. \A i \in 0 .. n - d : i \in T
  <2> HIDE DEF T
  <2> QED BY <1>1, <1>2, <1>4, UpTo
<1>6. ASSUME NEW i \in 1 .. n - d, Calm(size, b * b, i - 1) PROVE Gt(size[i], b * b) <=> Beyond(b, Z[i + d])
  <2>1. i - 1 \in 0 .. n - d
    OBVIOUS
  <2>2. Pair(i - 1)
    BY <1>5, <1>6, <2>1
  <2> QED BY <1>3, <2>2
<1> QED BY <1>6 DEF Together

(* So they leave together, or are both still there in the end.             *)
Still(Z, b, i) == \A m \in 1 .. i : ~Beyond(b, Z[m])

LEMMA LeaveTogether ==
  ASSUME NEW k, NEW b \in Nat, NEW n \in Nat, NEW d \in Nat, d <= n, NEW z, NEW size, NEW Z,
         Together(k, b, z, size, Z, d, n), Still(Z, b, d)
  PROVE  /\ Calm(size, b * b, n) => Still(Z, b, n)
         /\ \A e \in 1 .. n : Calm(size, b * b, e - 1) /\ Gt(size[e], b * b) =>
              IF e + d <= n THEN Still(Z, b, e + d - 1) /\ Beyond(b, Z[e + d]) ELSE Still(Z, b, n)
<1>1. ASSUME NEW e \in 0 .. n, Calm(size, b * b, e), NEW m \in 1 .. n, m <= e + d PROVE ~Beyond(b, Z[m])
  <2>1. CASE m <= d
    BY <2>1 DEF Still
  <2>2. CASE m > d
    <3>1. PICK i : i = m - d
      OBVIOUS
    <3>2. i \in 1 .. n - d /\ i \in 1 .. e /\ i + d = m /\ \A l \in 1 .. i - 1 : l \in 1 .. e
      BY <1>1, <2>2, <3>1
    <3>3. Calm(size, b * b, i - 1) /\ ~Gt(size[i], b * b)
      BY <1>1, <3>2 DEF Calm
    <3> QED BY <3>2, <3>3 DEF Together
  <2> QED BY <2>1, <2>2
<1>2. Calm(size, b * b, n) => Still(Z, b, n)
  BY <1>1 DEF Still
<1>3. ASSUME NEW e \in 1 .. n, Calm(size, b * b, e - 1), Gt(size[e], b * b)
      PROVE  IF e + d <= n THEN Still(Z, b, e + d - 1) /\ Beyond(b, Z[e + d]) ELSE Still(Z, b, n)
  <2>1. e - 1 \in 0 .. n
    OBVIOUS
  <2>2. \A m \in 1 .. n : m <= e + d - 1 => ~Beyond(b, Z[m])
    BY <1>1, <1>3, <2>1
  <2>3. CASE e + d <= n
    <3>1. e \in 1 .. n - d
      BY <2>3
    <3>2. Beyond(b, Z[e + d])
      BY <1>3, <3>1 DEF Together
    <3>3. Still(Z, b, e + d - 1)
      BY <2>2, <2>3 DEF Still
    <3> QED BY <2>3, <3>2, <3>3
  <2>4. CASE ~(e + d <= n)
    BY <2>2, <2>4 DEF Still
  <2> QED BY <2>3, <2>4
<1> QED BY <1>2, <1>3

-----------------------------------------------------------------------------
(* The plain map of a right angle.  s is the sign of its one axis; when it *)
(* is negative the map is mirrored.                                        *)
Mirrored(j) == j.direct \in {"FromFlipY", "ToFlipY"}
MapLeg(j) == IF j.direct \in {"To", "ToFlipY"} THEN 2 ELSE 1
Sign(j) == IF Mirrored(j) THEN -1 ELSE 1

LEMMA RightAnglesAre ==
  ASSUME NEW j, IsRightAngle(j)
  PROVE  /\ MapLeg(j) \in 1 .. 2 /\ j.legs[MapLeg(j)].dir = Sign(j) /\ j.legs[3 - MapLeg(j)].dir = 0
         /\ j.bail >= 1 /\ 12 * j.bail <= Huge
         /\ 4 * (j.bail + Magnitude(j.jc.re) + Magnitude(j.jc.im)) <= Huge
<1>1. \A k \in 1 .. 2 : j.legs[k].dir = RightAngles[j.direct][k]
  BY DEF IsRightAngle
<1>2. j.legs[1].dir = RightAngles[j.direct][1] /\ j.legs[2].dir = RightAngles[j.direct][2]
  <2>1. 1 \in 1 .. 2 /\ 2 \in 1 .. 2
    OBVIOUS
  <2> QED BY <1>1, <2>1
<1>3. j.direct \in {"From", "To", "ToFlipY", "FromFlipY"}
  BY DEF IsRightAngle, RightAngles
<1>4. /\ RightAngles["From"] = <<1, 0>> /\ RightAngles["To"] = <<0, 1>>
      /\ RightAngles["ToFlipY"] = <<0, -1>> /\ RightAngles["FromFlipY"] = <<-1, 0>>
  BY DEF RightAngles
<1>5. 3 - 1 = 2 /\ 3 - 2 = 1
  OBVIOUS
<1>6. CASE j.direct = "From"
  BY <1>2, <1>4, <1>5, <1>6 DEF MapLeg, Sign, Mirrored, IsRightAngle
<1>7. CASE j.direct = "To"
  BY <1>2, <1>4, <1>5, <1>7 DEF MapLeg, Sign, Mirrored, IsRightAngle
<1>8. CASE j.direct = "ToFlipY"
  BY <1>2, <1>4, <1>5, <1>8 DEF MapLeg, Sign, Mirrored, IsRightAngle
<1>9. CASE j.direct = "FromFlipY"
  BY <1>2, <1>4, <1>5, <1>9 DEF MapLeg, Sign, Mirrored, IsRightAngle
<1> QED BY <1>3, <1>6, <1>7, <1>8, <1>9

SameMap(m, j) ==
  /\ m.plane = "map" /\ m.variant = j.legs[MapLeg(j)].variant /\ m.julia = j.julia
  /\ m.width = j.width /\ m.height = j.height /\ m.from = j.from /\ m.to = j.to
  /\ m.iters = j.iters /\ m.bail = j.bail /\ m.cap = j.cap
  /\ m.jc.re = j.jc.re /\ m.centre.re = j.centre.re
  /\ ~Mirrored(j) => m.jc.im = j.jc.im /\ m.centre.im = j.centre.im /\ m.turned = j.turned
  /\ Mirrored(j) => m.jc.im = Neg(j.jc.im) /\ m.centre.im = Neg(j.centre.im) /\ m.turned = -j.turned

LEMMA DirectJobIs ==
  ASSUME NEW j, IsSlice(j), NEW m, m = DirectJob(j)
  PROVE  SameMap(m, j)
<1>1. JobFields \subseteq DOMAIN j
  BY DEF IsSlice
<1>2. PICK v : v = j.legs[MapLeg(j)].variant
  OBVIOUS
<1>3. PICK p : p = [j EXCEPT !.plane = "map", !.variant = v]
  OBVIOUS
<1>4. /\ p.plane = "map" /\ p.variant = v /\ p.julia = j.julia /\ p.jc = j.jc /\ p.centre = j.centre /\ p.turned = j.turned
      /\ p.width = j.width /\ p.height = j.height /\ p.from = j.from /\ p.to = j.to
      /\ p.iters = j.iters /\ p.bail = j.bail /\ p.cap = j.cap /\ DOMAIN p = DOMAIN j
  BY <1>1, <1>3 DEF JobFields
<1>5. CASE ~Mirrored(j)
  <2>1. m = p
    BY <1>2, <1>3, <1>5 DEF DirectJob, MapLeg, Mirrored
  <2> QED BY <1>2, <1>4, <1>5, <2>1 DEF SameMap
<1>6. CASE Mirrored(j)
  <2>1. PICK c, g, r : c = Point(j.centre.re, Neg(j.centre.im)) /\ g = Point(j.jc.re, Neg(j.jc.im)) /\ r = -j.turned
    OBVIOUS
  <2>2. m = [p EXCEPT !.centre = c, !.jc = g, !.turned = r]
    BY <1>2, <1>3, <1>4, <1>6, <2>1 DEF DirectJob, MapLeg, Mirrored
  <2>3. /\ m.plane = "map" /\ m.variant = v /\ m.julia = j.julia /\ m.jc = g /\ m.centre = c /\ m.turned = r
        /\ m.width = j.width /\ m.height = j.height /\ m.from = j.from /\ m.to = j.to
        /\ m.iters = j.iters /\ m.bail = j.bail /\ m.cap = j.cap
    BY <1>1, <1>4, <2>2 DEF JobFields
  <2>4. c.re = j.centre.re /\ c.im = Neg(j.centre.im) /\ g.re = j.jc.re /\ g.im = Neg(j.jc.im)
    BY <2>1 DEF Point
  <2> QED BY <1>2, <1>6, <2>1, <2>3, <2>4 DEF SameMap
<1> QED BY <1>5, <1>6

LEMMA NegOfFinite ==
  \A a : Finite(a) => Neg(a) = -a /\ Finite(Neg(a)) /\ Finite(-a)
  BY Numbers DEF Neg

LEMMA DirectRequest ==
  ASSUME NEW j, IsRequest(j), IsSlice(j), j.plane = "slice", IsRightAngle(j), NEW m, SameMap(m, j)
  PROVE  IsRequest(m) /\ m.variant \in Quadratic
<1>1. m.variant \in Quadratic
  <2>1. IsLegs(Len(j.legs), j.legs) /\ Len(j.legs) = 2
    BY SliceRequests, SliceJobs DEF IsRightAngle
  <2> QED BY <2>1, RightAnglesAre DEF IsLegs, SameMap
<1>2. PICK reach : reach = j.width + j.height + j.from + LnRadius
  OBVIOUS
<1>3. \A a \in {j.centre.re, j.centre.im} : a \in Int /\ -Huge <= a - reach /\ a + reach <= Huge
  BY <1>2 DEF IsRequest
<1>4. reach \in Int /\ reach >= 0 /\ Huge \in Int
  BY <1>2, Requests, Numbers DEF LnRadius
<1>5. Finite(j.centre.im) /\ Finite(j.jc.im) /\ Finite(j.jc.re)
  <2>1. j.centre.im \in Int /\ -Huge <= j.centre.im - reach /\ j.centre.im + reach <= Huge
    BY <1>3
  <2>2. Finite(j.centre.im)
    BY <1>4, <2>1, Numbers
  <2> QED BY <2>2 DEF IsRequest
<1>6. \A a \in {m.centre.re, m.centre.im} : a \in Int /\ -Huge <= a - reach /\ a + reach <= Huge
  <2>1. m.centre.re = j.centre.re /\ (m.centre.im = j.centre.im \/ m.centre.im = -j.centre.im)
    BY <1>5, NegOfFinite DEF SameMap
  <2> QED BY <1>3, <1>4, <2>1
<1>7. Finite(m.jc.re) /\ Finite(m.jc.im)
  BY <1>5, NegOfFinite DEF SameMap
<1>8. m.turned \in {-1, 0, 1}
  <2>1. j.turned \in {-1, 0, 1}
    BY Requests
  <2>2. m.turned = j.turned \/ m.turned = -j.turned
    BY DEF SameMap
  <2>3. \A t \in {-1, 0, 1} : -t \in {-1, 0, 1}
    OBVIOUS
  <2> QED BY <2>1, <2>2, <2>3
<1>9. reach = m.width + m.height + m.from + LnRadius
  BY <1>2 DEF SameMap
<1>10. /\ m.julia \in BOOLEAN /\ {m.width, m.height, m.from, m.to, m.iters, m.bail, m.cap} \subseteq Nat
       /\ m.bail * m.bail <= Huge /\ (m.plane = "ln" => m.width <= 4) /\ m.from <= m.to /\ m.to <= m.width
  <2>1. m.plane # "ln"
    BY DEF SameMap
  <2>2. /\ j.julia \in BOOLEAN /\ {j.width, j.height, j.from, j.to, j.iters, j.bail, j.cap} \subseteq Nat
        /\ j.bail * j.bail <= Huge /\ j.from <= j.to /\ j.to <= j.width
    BY DEF IsRequest
  <2> QED BY <2>1, <2>2 DEF SameMap
<1> QED BY <1>1, <1>6, <1>7, <1>8, <1>9, <1>10 DEF IsRequest

LEMMA Opposites ==
  \A a, b \in Int : b = -a => a + b = 0 /\ (a = 0 => b = 0) /\ (a + 1 = 0 => b = 1)
  OBVIOUS

LEMMA DirectPixel ==
  ASSUME NEW j, IsRequest(j), IsSlice(j), j.plane = "slice", IsRightAngle(j), NEW m, SameMap(m, j),
         NEW x \in 0 .. j.width - 1, NEW y \in 0 .. j.height - 1, NEW r, r = flip_field_output_y(j, y),
         NEW q, q = TruePixel(j, x, y), NEW p, p = TruePixel(m, x, r)
  PROVE  /\ r \in 0 .. j.height - 1 /\ RowPixel(m, x, r) = p /\ Finite(q.re) /\ Finite(q.im)
         /\ p.re = q.re /\ p.im = IF Mirrored(j) THEN Neg(q.im) ELSE q.im
<1>1. IsRequest(m) /\ m.plane = "map" /\ m.width = j.width /\ m.height = j.height
  BY DirectRequest DEF SameMap
<1>2. j.width \in Nat /\ j.height \in Nat /\ j.turned \in {-1, 0, 1} /\ j.centre.re \in Int /\ j.centre.im \in Int
  BY Requests
<1>3. r = IF Mirrored(j) THEN j.height - 1 - y ELSE y
  BY DEF flip_field_output_y, Mirrored
<1>4. r \in 0 .. j.height - 1
  BY <1>2, <1>3
<1>5. RowPixel(m, x, r) = p
  <2>1. x \in Int /\ r \in Int /\ m.plane # "ln"
    BY <1>1, <1>2, <1>4
  <2> QED BY <1>1, <2>1, MapGridsAgree
<1>6. Finite(q.re) /\ Finite(q.im)
  BY FinitePixels
<1>7. PICK dx, dy, e : dx = 2 * x + 1 - j.width /\ dy = j.height - (2 * y + 1) /\ e = j.height - (2 * r + 1)
  OBVIOUS
<1>8. q = IF j.turned = 0 THEN Point(j.centre.re + dx, j.centre.im + dy)
          ELSE Point(j.centre.re - j.turned * dy, j.centre.im + j.turned * dx)
  BY <1>7 DEF TruePixel
<1>9. p = IF m.turned = 0 THEN Point(m.centre.re + dx, m.centre.im + e)
          ELSE Point(m.centre.re - m.turned * e, m.centre.im + m.turned * dx)
  BY <1>1, <1>7 DEF TruePixel
<1>10. CASE ~Mirrored(j)
  <2>1. e = dy /\ m.turned = j.turned /\ m.centre.re = j.centre.re /\ m.centre.im = j.centre.im
    BY <1>3, <1>7, <1>10 DEF SameMap
  <2> QED BY <1>4, <1>5, <1>6, <1>8, <1>9, <1>10, <2>1 DEF Point
<1>11. CASE Mirrored(j)
  <2>1. e = -dy /\ dy \in Int /\ dx \in Int /\ e \in Int
    BY <1>2, <1>3, <1>7, <1>11
  <2>2. PICK reach : reach = j.width + j.height + j.from + LnRadius
    OBVIOUS
  <2>3. Finite(j.centre.im)
    <3>1. PICK a : a = j.centre.im
      OBVIOUS
    <3>2. a \in Int /\ -Huge <= a - reach /\ a + reach <= Huge
      BY <2>2, <3>1 DEF IsRequest
    <3>3. reach \in Int /\ reach >= 0
      BY <2>2, Requests DEF LnRadius
    <3> QED BY <3>1, <3>2, <3>3, Numbers
  <2>4. m.turned = -j.turned /\ m.centre.re = j.centre.re /\ m.centre.im = -j.centre.im
    BY <1>11, <2>3, NegOfFinite DEF SameMap
  <2>5. Neg(q.im) = -q.im
    BY <1>6, NegOfFinite
  <2>6. CASE j.turned = 0
    <3>1. m.turned = 0
      <4>1. PICK a, b : a = j.turned /\ b = m.turned
        OBVIOUS
      <4>2. a \in Int /\ b = -a
        BY <1>2, <2>4, <4>1
      <4>3. b \in Int
        BY <4>2
      <4> QED BY <2>6, <4>1, <4>2, <4>3, Opposites, Zenon
    <3>2. p.re = j.centre.re + dx /\ p.im = -j.centre.im + e /\ q.re = j.centre.re + dx /\ q.im = j.centre.im + dy
      <4>1. p = Point(m.centre.re + dx, m.centre.im + e) /\ q = Point(j.centre.re + dx, j.centre.im + dy)
        BY <1>8, <1>9, <2>6, <3>1, Zenon
      <4>2. p.re = m.centre.re + dx /\ p.im = m.centre.im + e /\ q.re = j.centre.re + dx /\ q.im = j.centre.im + dy
        <5>1. PICK X, Y, V, W : X = m.centre.re + dx /\ Y = m.centre.im + e /\ V = j.centre.re + dx /\ W = j.centre.im + dy
          OBVIOUS
        <5>2. p = Point(X, Y) /\ q = Point(V, W)
          BY <4>1, <5>1
        <5>3. p.re = X /\ p.im = Y /\ q.re = V /\ q.im = W
          BY <5>2 DEF Point
        <5> QED BY <5>1, <5>3
      <4> QED BY <2>4, <4>2, Zenon
    <3>3. p.im = -q.im
      BY <1>2, <2>1, <3>2
    <3> QED BY <1>4, <1>5, <1>6, <1>11, <2>5, <3>2, <3>3
  <2>7. CASE j.turned # 0
    <3>1. j.turned = 1 \/ j.turned = -1
      BY <1>2, <2>7
    <3>2. m.turned # 0
      BY <2>4, <3>1
    <3>3. /\ p.re = j.centre.re - m.turned * e /\ p.im = -j.centre.im + m.turned * dx
          /\ q.re = j.centre.re - j.turned * dy /\ q.im = j.centre.im + j.turned * dx
      BY <1>8, <1>9, <2>4, <2>7, <3>2 DEF Point
    <3>4. p.re = q.re /\ p.im = -q.im
      <4>1. CASE j.turned = 1
        <5>1. m.turned = -1
          BY <2>4, <4>1
        <5> QED BY <1>2, <2>1, <3>3, <4>1, <5>1
      <4>2. CASE j.turned = -1
        <5>1. m.turned = 1
          <6>1. PICK a, b : a = j.turned /\ b = m.turned
            OBVIOUS
          <6>2. a \in Int /\ b = -a
            BY <1>2, <2>4, <6>1
          <6>3. b \in Int /\ a + 1 = 0
            BY <4>2, <6>1, <6>2
          <6> QED BY <6>1, <6>2, <6>3, Opposites, Zenon
        <5> QED BY <1>2, <2>1, <3>3, <4>2, <5>1
      <4> QED BY <3>1, <4>1, <4>2
    <3> QED BY <1>4, <1>5, <1>6, <1>11, <2>5, <3>4
  <2> QED BY <2>6, <2>7
<1> QED BY <1>10, <1>11

-----------------------------------------------------------------------------
(* A slice at a right angle and its map count the same steps. *)

LEMMA FirstOut ==
  ASSUME NEW size, NEW t, NEW n \in Nat
  PROVE  Calm(size, t, n) \/ (\E e \in 1 .. n : Calm(size, t, e - 1) /\ Gt(size[e], t))
<1>1. PICK outs : outs = {e \in 1 .. n : Gt(size[e], t)}
  OBVIOUS
<1>2. outs \in SUBSET Nat
  BY <1>1
<1>3. CASE outs = {}
  BY <1>1, <1>3 DEF Calm
<1>4. CASE outs # {}
  <2>1. PICK e \in outs : \A f \in outs : e <= f
    BY <1>2, <1>4, LeastNumber
  <2>2. e \in 1 .. n /\ Gt(size[e], t) /\ e - 1 \in Nat
    BY <1>1, <2>1
  <2>3. ASSUME NEW f \in 1 .. e - 1  PROVE ~Gt(size[f], t)
    <3>1. f \in 1 .. n /\ ~(e <= f)
      BY <2>2, <2>3
    <3> QED BY <1>1, <2>1, <3>1
  <2>4. Calm(size, t, e - 1)
    BY <2>3 DEF Calm
  <2> QED BY <2>2, <2>4
<1> QED BY <1>3, <1>4

SliceCounts(j, size, a) ==
  \/ Calm(size, j.bail * j.bail, j.iters) /\ a = j.iters
  \/ \E e \in 1 .. j.iters : Calm(size, j.bail * j.bail, e - 1) /\ Gt(size[e], j.bail * j.bail) /\ a = e - 1

LEMMA SliceCounted ==
  ASSUME NEW j, NEW z, NEW size, j.iters \in Nat
  PROVE  SliceCounts(j, size, ToldOrbit(j, z, size).iter)
<1>1. PICK t : t = j.bail * j.bail
  OBVIOUS
<1>2. CASE Calm(size, t, j.iters)
  <2>1. ToldOrbit(j, z, size) = Told(j, z, size, FALSE, j.iters)
    BY <1>1, <1>2, ToldOfCalm
  <2>2. Told(j, z, size, FALSE, j.iters).iter = j.iters
    BY ToldIs DEF TellsCalm
  <2> QED BY <1>1, <1>2, <2>1, <2>2 DEF SliceCounts
<1>3. CASE \E e \in 1 .. j.iters : Calm(size, t, e - 1) /\ Gt(size[e], t)
  <2>1. PICK e \in 1 .. j.iters : Calm(size, t, e - 1) /\ Gt(size[e], t)
    BY <1>3
  <2>2. ToldOrbit(j, z, size) = Told(j, z, size, TRUE, e)
    BY <1>1, <2>1, ToldOfLeft
  <2>3. Told(j, z, size, TRUE, e).iter = e - 1
    <3>1. PICK told : told = Told(j, z, size, TRUE, e)
      OBVIOUS
    <3>2. TellsLeft(j, z, size, e, told)
      BY <3>1, ToldIs, Zenon
    <3>3. told.iter = e - 1
      BY <3>2, Zenon DEF TellsLeft
    <3> QED BY <3>1, <3>3
  <2> QED BY <1>1, <2>1, <2>2, <2>3 DEF SliceCounts
<1> QED BY <1>2, <1>3, FirstOut

MapCounts(b, n, Z, a) ==
  /\ Still(Z, b, n) => a = n
  /\ \A e \in 1 .. n : Still(Z, b, e - 1) /\ Beyond(b, Z[e]) => a = e - 1

LEMMA MapCounted ==
  ASSUME NEW m, m.variant \in Quadratic, m.iters \in Nat, NEW x, NEW y, NEW Z, Z = Orbit(m, TruePixel(m, x, y))
  PROVE  MapCounts(m.bail, m.iters, Z, Reference(m, x, y).iter)
<1>1. \A i : Escapes(m, Z[i]) <=> Beyond(m.bail, Z[i])
  BY DEF Escapes, Beyond
<1>2. \A i : Quiet(m, Z, i) <=> Still(Z, m.bail, i)
  BY <1>1 DEF Quiet, Still
<1>3. ASSUME Still(Z, m.bail, m.iters)  PROVE Reference(m, x, y).iter = m.iters
  <2>1. Quiet(m, Z, m.iters)
    BY <1>2, <1>3
  <2>2. PICK r, lo, hi : /\ r = Reference(m, x, y) /\ lo = Least(Norms(Z, m.iters) \cup {Inf})
                         /\ hi = Greatest(Norms(Z, m.iters) \cup {0})
    OBVIOUS
  <2>3. r = [iter |-> m.iters, escaped |-> FALSE, norm |-> 0, min |-> lo, max |-> hi]
    BY <2>1, <2>2, ReferenceOfQuiet
  <2>4. r.iter = m.iters
    BY <2>3
  <2> QED BY <2>2, <2>4
<1>4. ASSUME NEW e \in 1 .. m.iters, Still(Z, m.bail, e - 1), Beyond(m.bail, Z[e])
      PROVE  Reference(m, x, y).iter = e - 1
  <2>1. Quiet(m, Z, e - 1) /\ Escapes(m, Z[e])
    BY <1>1, <1>2, <1>4
  <2>2. PICK r, n2, lo, hi : /\ r = Reference(m, x, y) /\ n2 = FiniteNorm(Z[e])
                             /\ lo = Least(Norms(Z, e) \cup {Inf}) /\ hi = Greatest(Norms(Z, e) \cup {0})
    OBVIOUS
  <2>3. r = [iter |-> e - 1, escaped |-> TRUE, norm |-> n2, min |-> lo, max |-> hi]
    BY <2>1, <2>2, ReferenceOfEscape, SMTT(30)
  <2>4. r.iter = e - 1
    BY <2>3
  <2> QED BY <2>2, <2>4
<1> QED BY <1>3, <1>4 DEF MapCounts

CountTogether(k, j, z, size, Z, d, a, s) ==
  /\ j.bail \in Nat /\ j.iters \in Nat /\ d \in {0, 1} /\ d <= j.iters
  /\ Together(k, j.bail, z, size, Z, d, j.iters) /\ Still(Z, j.bail, d)
  /\ MapCounts(j.bail, j.iters, Z, a) /\ SliceCounts(j, size, s)

LEMMA CountsMeet ==
  ASSUME NEW k, NEW j, NEW z, NEW size, NEW Z, NEW d, NEW a, NEW s, CountTogether(k, j, z, size, Z, d, a, s)
  PROVE  (d = 0 => a = s) /\ (d = 1 => a \in {s, s + 1})
<1>1. PICK b, n, t : b = j.bail /\ n = j.iters /\ t = j.bail * j.bail
  OBVIOUS
<1>2. b \in Nat /\ n \in Nat /\ t = b * b /\ d \in Nat /\ d \in {0, 1} /\ d <= n
  BY <1>1 DEF CountTogether
<1>m. MapCounts(b, n, Z, a) /\ SliceCounts(j, size, s) /\ Together(k, b, z, size, Z, d, n) /\ Still(Z, b, d)
  BY <1>1 DEF CountTogether
<1>3. /\ Calm(size, b * b, n) => Still(Z, b, n)
      /\ \A e \in 1 .. n : Calm(size, b * b, e - 1) /\ Gt(size[e], b * b) =>
           IF e + d <= n THEN Still(Z, b, e + d - 1) /\ Beyond(b, Z[e + d]) ELSE Still(Z, b, n)
  BY <1>2, <1>m, LeaveTogether
<1>4. CASE Calm(size, t, n) /\ s = n
  <2>1. a = n
    BY <1>2, <1>3, <1>4, <1>m DEF MapCounts
  <2> QED BY <1>4, <2>1
<1>5. CASE \E e \in 1 .. n : Calm(size, t, e - 1) /\ Gt(size[e], t) /\ s = e - 1
  <2>1. PICK e \in 1 .. n : Calm(size, t, e - 1) /\ Gt(size[e], t) /\ s = e - 1
    BY <1>5
  <2>2. CASE e + d <= n
    <3>1. Still(Z, b, e + d - 1) /\ Beyond(b, Z[e + d])
      BY <1>2, <1>3, <2>1, <2>2
    <3>2. e + d \in 1 .. n
      BY <1>2, <2>1, <2>2
    <3>3. PICK f : f = e + d
      OBVIOUS
    <3>4. f \in 1 .. n /\ Still(Z, b, f - 1) /\ Beyond(b, Z[f])
      <4>1. f \in 1 .. n
        BY <3>2, <3>3
      <4>2. f - 1 = e + d - 1
        BY <1>2, <2>1, <3>3
      <4>3. Still(Z, b, f - 1)
        BY <3>1, <4>2
      <4>4. Beyond(b, Z[f])
        BY <3>1, <3>3
      <4> QED BY <4>1, <4>3, <4>4
    <3>5. a = f - 1
      BY <1>m, <3>4 DEF MapCounts
    <3> QED BY <1>2, <2>1, <3>3, <3>5
  <2>3. CASE ~(e + d <= n)
    <3>1. Still(Z, b, n)
      BY <1>2, <1>3, <2>1, <2>3
    <3>2. a = n
      BY <1>m, <3>1 DEF MapCounts
    <3>3. d = 1 /\ e = n
      BY <1>2, <2>1, <2>3
    <3> QED BY <1>2, <2>1, <3>2, <3>3
  <2> QED BY <2>2, <2>3
<1> QED BY <1>1, <1>4, <1>5, <1>m DEF SliceCounts

(* A slice at a right angle embeds a point on one axis, mirrored or not. *)

LEMMA SignedProducts ==
  \A a : Finite(a) => Mul(a, 1) = a /\ Mul(a, -1) = Neg(a) /\ Mul(a, 0) = 0
<1> SUFFICES ASSUME NEW a, Finite(a)  PROVE Mul(a, 1) = a /\ Mul(a, -1) = Neg(a) /\ Mul(a, 0) = 0
  OBVIOUS
<1>1. a \in Int /\ -Huge <= a /\ a <= Huge /\ Finite(1) /\ Finite(-1) /\ Finite(0)
  BY Numbers
<1>2. a * 1 = a /\ a * 0 = 0 /\ a * (-1) = -a
  BY <1>1
<1>3. Finite(a * 1) /\ Finite(a * 0) /\ Finite(a * (-1))
  BY <1>1, <1>2, Numbers
<1>4. Neg(a) = -a
  BY NegOfFinite
<1> QED BY <1>1, <1>2, <1>3, <1>4, ExactProducts

LEMMA RightAngleEmbeds ==
  ASSUME NEW j, IsRightAngle(j), IsLegs(2, j.legs), NEW k, k = MapLeg(j),
         NEW q, Finite(q.re), Finite(q.im), NEW y, y = (IF Mirrored(j) THEN Neg(q.im) ELSE q.im),
         NEW w, w = Embed(j.legs, q)
  PROVE  k \in 1 .. 2 /\ OnAxis(k, w) /\ w.x = q.re /\ w.axis[k] = y /\ Finite(w.x) /\ Finite(w.axis[k])
<1>1. k \in 1 .. 2 /\ j.legs[k].dir = Sign(j) /\ j.legs[3 - k].dir = 0
  BY RightAnglesAre
<1>2. Finite(1) /\ Finite(-1) /\ Finite(0)
  BY Numbers
<1>3. \A i \in 1 .. 2 : i = k \/ i = 3 - k
  BY <1>1
<1>4. Finite(Sign(j))
  BY <1>2 DEF Sign
<1>5. \A i \in 1 .. 2 : Finite(j.legs[i].dir)
  BY <1>1, <1>2, <1>3, <1>4
<1>6. w \in Vectors(2)
  BY <1>5, EmbedIs
<1>7. w.x = q.re /\ \A i \in 1 .. 2 : w.axis[i] = Mul(q.im, j.legs[i].dir)
  BY DEF Embed, IsLegs
<1>8. 3 - k \in 1 .. 2
  BY <1>1
<1>9. w.axis[3 - k] = 0
  BY <1>1, <1>7, <1>8, SignedProducts
<1>10. w.axis[k] = y
  BY <1>1, <1>7, SignedProducts DEF Sign
<1>11. Finite(y)
  BY NegOfFinite
<1> QED BY <1>1, <1>6, <1>7, <1>9, <1>10, <1>11 DEF OnAxis

FollowsMap(j, k, c, Z, a) ==
  /\ \A i \in 1 .. j.iters : Z[i] = QuadraticStep(variant_step[j.legs[k].variant], Z[i - 1], Point(c.x, c.axis[k]))
  /\ MapCounts(j.bail, j.iters, Z, a)

FollowsSlice(j, c, z, size, s) ==
  /\ j.iters \in Nat /\ j.bail \in Nat /\ j.bail * j.bail <= Huge /\ IsLegs(2, j.legs)
  /\ \A i \in 1 .. j.iters : z[i] = TrueSliceStep(j.legs, z[i - 1], c)
  /\ \A i \in 0 .. j.iters : size[i] = TrueSize(z[i])
  /\ SliceCounts(j, size, s)

LEMMA JuliaCounts ==
  ASSUME Finite(2), NEW j, NEW k \in 1 .. 2, NEW c, OnAxis(k, c), Finite(c.x), Finite(c.axis[k]),
         4 * (j.bail + Magnitude(c.x) + Magnitude(c.axis[k])) <= Huge,
         NEW z, NEW size, NEW s, FollowsSlice(j, c, z, size, s),
         OnAxis(k, z[0]), Finite(z[0].x), Finite(z[0].axis[k]),
         NEW Z, Z[0] = Cached(Point(z[0].x, z[0].axis[k])), NEW a, FollowsMap(j, k, c, Z, a)
  PROVE  a = s
<1>1. PICK b, n, legs : b = j.bail /\ n = j.iters /\ legs = j.legs
  OBVIOUS
<1>2. b \in Nat /\ n \in Nat /\ b * b <= Huge /\ IsLegs(2, legs) /\ 4 * (b + Magnitude(c.x) + Magnitude(c.axis[k])) <= Huge
  BY <1>1 DEF FollowsSlice
<1>3. /\ \A i \in 1 .. n : z[i] = TrueSliceStep(legs, z[i - 1], c)
      /\ \A i \in 0 .. n : size[i] = TrueSize(z[i])
      /\ \A i \in 0 + 1 .. n : Z[i] = QuadraticStep(variant_step[legs[k].variant], Z[i - 1], Point(c.x, c.axis[k]))
  BY <1>1 DEF FollowsSlice, FollowsMap
<1>4. Twin(k, z[0], Z[0])
  BY DEF Twin
<1>5. 0 \in Nat /\ 0 <= n
  BY <1>2
<1>6. Together(k, b, z, size, Z, 0, n)
  BY <1>2, <1>3, <1>4, <1>5, OrbitsTogether
<1>7. Still(Z, b, 0)
  BY DEF Still
<1>8. j.bail \in Nat /\ j.iters \in Nat /\ 0 <= j.iters /\ Together(k, j.bail, z, size, Z, 0, j.iters) /\ Still(Z, j.bail, 0)
  BY <1>1, <1>2, <1>5, <1>6, <1>7
<1>9. MapCounts(j.bail, j.iters, Z, a) /\ SliceCounts(j, size, s)
  BY DEF FollowsSlice, FollowsMap
<1>10. 0 \in {0, 1}
  OBVIOUS
<1>11. CountTogether(k, j, z, size, Z, 0, a, s)
  BY <1>8, <1>9, <1>10 DEF CountTogether
<1> QED BY <1>11, CountsMeet

LEMMA FirstOfMap ==
  ASSUME Finite(2), NEW v \in Quadratic, NEW x, NEW y, Finite(x), Finite(y),
         NEW W, W = QuadraticStep(variant_step[v], Cached(Point(0, 0)), Point(x, y))
  PROVE  W = Cached(Point(x, y))
<1>1. Finite(0) /\ Mul(0, 0) = 0 /\ 0 \in 0 .. Inf
  BY SignedProducts, Numbers
<1>2. ImagIs(v, 0, 0) = 0 /\ RealIs(v, 0, Mul(0, 0)) = 0
  BY <1>1, IdleLeg
<1>3. \A e : Finite(e) => Add(0, e) = e
  <2>1. \A e : Finite(e) => 0 + e = e
    BY Numbers
  <2> QED BY <1>1, <2>1, ExactSums
<1>4. Point(x, y).re = x /\ Point(x, y).im = y
  BY DEF Point
<1>5. PICK c : c = Point(x, y)
  OBVIOUS
<1>6. /\ W.re = Add(RealIs(v, Mul(0, 0), Mul(0, 0)), c.re) /\ W.im = Add(ImagIs(v, 0, 0), c.im)
      /\ W = Cached(Point(W.re, W.im))
  BY <1>5, MapStep
<1>7. W.re = x /\ W.im = y
  BY <1>1, <1>2, <1>3, <1>4, <1>5, <1>6
<1> QED BY <1>6, <1>7

LEMMA FirstMeet ==
  ASSUME NEW j, j.iters \in Nat, j.iters >= 1, NEW size, Gt(size[1], j.bail * j.bail), NEW s, SliceCounts(j, size, s)
  PROVE  s = 0
<1>1. PICK n, t : n = j.iters /\ t = j.bail * j.bail
  OBVIOUS
<1>2. 1 \in 1 .. n
  BY <1>1
<1>3. ~Calm(size, t, n)
  BY <1>1, <1>2 DEF Calm
<1>4. PICK e \in 1 .. n : Calm(size, t, e - 1) /\ s = e - 1
  BY <1>1, <1>3 DEF SliceCounts
<1>5. ~(1 \in 1 .. e - 1)
  BY <1>1, <1>4 DEF Calm
<1> QED BY <1>1, <1>4, <1>5

LEMMA PlainCounts ==
  ASSUME Finite(2), NEW j, j.bail >= 2, 12 * j.bail <= Huge,
         NEW k \in 1 .. 2, NEW c, OnAxis(k, c), Finite(c.x), Finite(c.axis[k]),
         NEW z, NEW size, NEW s, FollowsSlice(j, c, z, size, s), z[0] = c,
         NEW Z, Z[0] = Cached(Point(0, 0)), NEW a, FollowsMap(j, k, c, Z, a)
  PROVE  a \in {s, s + 1}
<1>1. PICK b, n, legs, v : b = j.bail /\ n = j.iters /\ legs = j.legs /\ v = legs[k].variant
  OBVIOUS
<1>2. b \in Nat /\ b >= 2 /\ 12 * b <= Huge /\ n \in Nat /\ b * b <= Huge /\ IsLegs(2, legs)
  BY <1>1 DEF FollowsSlice
<1>3. /\ \A i \in 1 .. n : z[i] = TrueSliceStep(legs, z[i - 1], c)
      /\ \A i \in 0 .. n : size[i] = TrueSize(z[i])
      /\ \A i \in 1 .. n : Z[i] = QuadraticStep(variant_step[v], Z[i - 1], Point(c.x, c.axis[k]))
  BY <1>1 DEF FollowsSlice, FollowsMap
<1>4. MapCounts(j.bail, j.iters, Z, a) /\ SliceCounts(j, size, s)
  BY DEF FollowsSlice, FollowsMap
<1>5. Still(Z, b, 0)
  BY DEF Still
<1>6. CASE n = 0
  <2>1. a = 0
    BY <1>1, <1>4, <1>5, <1>6 DEF MapCounts
  <2>2. s = 0
    BY <1>1, <1>4, <1>6 DEF SliceCounts
  <2> QED BY <2>1, <2>2
<1>7. CASE n # 0
  <2>1. 1 \in 1 .. n /\ 1 - 1 = 0 /\ n >= 1
    BY <1>2, <1>7
  <2>2. z[1] = TrueSliceStep(legs, c, c) /\ size[1] = TrueSize(z[1])
    BY <1>3, <2>1
  <2>3. v \in Quadratic
    BY <1>1, <1>2 DEF IsLegs
  <2>4. Z[1] = Cached(Point(c.x, c.axis[k]))
    BY <1>3, <2>1, <2>3, FirstOfMap
  <2>5. CASE Beyond(b, Z[1])
    <3>1. a = 0
      BY <1>1, <1>4, <1>5, <2>1, <2>5 DEF MapCounts
    <3>2. Beyond(b, Cached(Point(c.x, c.axis[k])))
      BY <2>4, <2>5
    <3>3. Gt(size[1], b * b)
      BY <1>2, <2>2, <3>2, FarStart
    <3>4. s = 0
      BY <1>1, <1>2, <1>4, <2>1, <3>3, FirstMeet
    <3> QED BY <3>1, <3>4
  <2>6. CASE ~Beyond(b, Z[1])
    <3>1. PICK x, y : x = c.x /\ y = c.axis[k]
      OBVIOUS
    <3>2. x \in Int /\ y \in Int /\ -b <= x /\ x <= b /\ -b <= y /\ y <= b
      BY <1>2, <2>4, <2>6, <3>1, NearBy, Numbers
    <3>3. Magnitude(x) \in Int /\ Magnitude(x) <= b /\ Magnitude(y) \in Int /\ Magnitude(y) <= b
      BY <1>2, <3>2 DEF Magnitude
    <3>4. 4 * (b + Magnitude(c.x) + Magnitude(c.axis[k])) <= Huge
      <4>1. PICK g, h : g = Magnitude(x) /\ h = Magnitude(y)
        OBVIOUS
      <4>2. 4 * (b + g + h) <= Huge
        BY <1>2, <3>3, <4>1, Numbers
      <4> QED BY <3>1, <4>1, <4>2
    <3>5. Twin(k, z[0], Z[1])
      BY <2>4 DEF Twin
    <3>6. \A i \in 1 + 1 .. n : Z[i] = QuadraticStep(variant_step[legs[k].variant], Z[i - 1], Point(c.x, c.axis[k]))
      <4>1. \A i \in 1 + 1 .. n : i \in 1 .. n
        BY <1>2
      <4> QED BY <1>1, <1>3, <4>1
    <3>7. 1 \in Nat /\ 1 <= n /\ Finite(z[0].x) /\ Finite(z[0].axis[k])
      BY <2>1
    <3>8. Together(k, b, z, size, Z, 1, n)
      BY <1>2, <1>3, <3>4, <3>5, <3>6, <3>7, OrbitsTogether
    <3>9. Still(Z, b, 1)
      <4>1. \A i \in 1 .. 1 : i = 1
        OBVIOUS
      <4> QED BY <2>6, <4>1 DEF Still
    <3>10. j.bail \in Nat /\ j.iters \in Nat /\ 1 <= j.iters /\ Together(k, j.bail, z, size, Z, 1, j.iters) /\ Still(Z, j.bail, 1)
      BY <1>1, <1>2, <3>7, <3>8, <3>9
    <3>11. 1 \in {0, 1}
      OBVIOUS
    <3>12. CountTogether(k, j, z, size, Z, 1, a, s)
      BY <1>4, <3>10, <3>11 DEF CountTogether
    <3> QED BY <3>12, CountsMeet
  <2> QED BY <2>5, <2>6
<1> QED BY <1>6, <1>7

LEMMA DirectOrbit ==
  ASSUME NEW j, NEW m, SameMap(m, j), m.variant \in Quadratic, m.iters \in Nat, NEW x, NEW r,
         NEW p, p = TruePixel(m, x, r), NEW k, k = MapLeg(j),
         NEW c, c.x = Param(m, p).re, c.axis[k] = Param(m, p).im,
         NEW Z, Z = Orbit(m, p), NEW a, a = Reference(m, x, r).iter
  PROVE  FollowsMap(j, k, c, Z, a) /\ Z[0] = Cached(Start(m, p))
<1>1. m.variant = j.legs[k].variant /\ m.iters = j.iters /\ m.bail = j.bail
  BY DEF SameMap
<1>2. MapCounts(m.bail, m.iters, Z, a)
  BY MapCounted
<1>3. Z[0] = Cached(Start(m, p)) /\ \A i \in 1 .. m.iters : Z[i] = TrueStep(m, Z[i - 1], Param(m, p))
  BY OrbitPoints
<1>4. \A u : TrueStep(m, u, Param(m, p)) = QuadraticStep(variant_step[m.variant], u, Point(c.x, c.axis[k]))
  <2>1. \A f, u, e : QuadraticStep(f, u, e) = QuadraticStep(f, u, Point(e.re, e.im))
    BY DEF QuadraticStep, Point
  <2>2. \A u : TrueStep(m, u, Param(m, p)) = QuadraticStep(variant_step[m.variant], u, Param(m, p))
    BY DEF TrueStep
  <2> QED BY <2>1, <2>2
<1> QED BY <1>1, <1>2, <1>3, <1>4 DEF FollowsMap

LEMMA DirectSlice ==
  ASSUME NEW j, IsRequest(j), IsSlice(j), j.plane = "slice", IsRightAngle(j),
         NEW x \in 0 .. j.width - 1, NEW y \in 0 .. j.height - 1, NEW q, q = TruePixel(j, x, y)
  PROVE  \E z, size : /\ FollowsSlice(j, ConstantOf(j, q), z, size, PixelReference(j, x, y).iter)
                      /\ z[0] = Embed(j.legs, q)
<1>1. PICK z, size : PointOrbit(j, q, z, size)
  BY PixelsHaveOrbits
<1>2. PixelReference(j, x, y) = ToldOrbit(j, z, size)
  BY <1>1, PixelsHaveOrbits DEF PointOrbit
<1>3. Len(j.legs) = 2
  BY DEF IsRightAngle
<1>4. IsOrbit(2, j, ConstantOf(j, q), z, size) /\ z[0] = Embed(j.legs, q)
  <2>1. FirstOf(j, q) = Embed(j.legs, q)
    BY DEF FirstOf
  <2> QED BY <1>1, <1>3, <2>1 DEF PointOrbit
<1>5. SliceCounts(j, size, PixelReference(j, x, y).iter)
  BY <1>2, SliceCounted, Requests
<1>6. j.iters \in Nat /\ j.bail \in Nat /\ j.bail * j.bail <= Huge
  BY Requests
<1>7. FollowsSlice(j, ConstantOf(j, q), z, size, PixelReference(j, x, y).iter)
  BY <1>4, <1>5, <1>6 DEF FollowsSlice, IsOrbit, IsSliceJob
<1> QED BY <1>4, <1>7

LEMMA DirectCounts ==
  ASSUME NEW j, IsRequest(j), IsSlice(j), j.plane = "slice", IsRightAngle(j),
         NEW x \in 0 .. j.width - 1, NEW y \in 0 .. j.height - 1,
         NEW a, a = render_direct_slice_field(j, x, y).iter, NEW s, s = PixelReference(j, x, y).iter
  PROVE  IF j.julia THEN a = s ELSE j.bail >= 2 => a \in {s, s + 1}
<1>1. PICK m, r, q, k : m = DirectJob(j) /\ r = flip_field_output_y(j, y) /\ q = TruePixel(j, x, y) /\ k = MapLeg(j)
  OBVIOUS
<1>2. SameMap(m, j)
  BY <1>1, DirectJobIs
<1>3. IsRequest(m) /\ m.variant \in Quadratic
  BY <1>2, DirectRequest
<1>4. PICK p : p = TruePixel(m, x, r)
  OBVIOUS
<1>5. /\ RowPixel(m, x, r) = p /\ Finite(q.re) /\ Finite(q.im)
      /\ p.re = q.re /\ p.im = IF Mirrored(j) THEN Neg(q.im) ELSE q.im
  BY <1>1, <1>2, <1>4, DirectPixel
<1>6. a = Reference(m, x, r).iter
  <2>1. render_direct_slice_field(j, x, y) = iterate_masked(m, Start(m, p), Param(m, p))
    BY <1>1, <1>5 DEF render_direct_slice_field
  <2>2. Matches(iterate_masked(m, Start(m, p), Param(m, p)), Reference(m, x, r))
    BY <1>3, <1>4, MaskedMatches
  <2> QED BY <2>1, <2>2 DEF Matches
<1>7. PICK z, size : FollowsSlice(j, ConstantOf(j, q), z, size, s) /\ z[0] = Embed(j.legs, q)
  BY <1>1, DirectSlice
<1>8. IsLegs(2, j.legs)
  BY <1>7 DEF FollowsSlice
<1>9. j.bail >= 1 /\ 12 * j.bail <= Huge /\ 4 * (j.bail + Magnitude(j.jc.re) + Magnitude(j.jc.im)) <= Huge
  BY RightAnglesAre
<1>10. Finite(2)
  <2>1. j.bail \in Nat
    BY Requests
  <2> QED BY <1>9, <2>1, Numbers
<1>11. /\ k \in 1 .. 2 /\ OnAxis(k, z[0]) /\ z[0].x = p.re /\ z[0].axis[k] = p.im
       /\ Finite(z[0].x) /\ Finite(z[0].axis[k])
  BY <1>1, <1>5, <1>7, <1>8, RightAngleEmbeds
<1>12. PICK Z : Z = Orbit(m, p)
  OBVIOUS
<1>13. m.iters \in Nat
  BY <1>3, Requests
<1>14. CASE j.julia
  <2>1. PICK c : c = Embed(j.legs, j.jc)
    OBVIOUS
  <2>2. ConstantOf(j, q) = c
    BY <1>14, <2>1 DEF ConstantOf
  <2>3. m.jc.re = j.jc.re /\ m.jc.im = IF Mirrored(j) THEN Neg(j.jc.im) ELSE j.jc.im
    BY <1>2 DEF SameMap
  <2>4. Finite(j.jc.re) /\ Finite(j.jc.im)
    BY DEF IsRequest
  <2>5. OnAxis(k, c) /\ c.x = m.jc.re /\ c.axis[k] = m.jc.im /\ Finite(c.x) /\ Finite(c.axis[k])
    BY <1>1, <1>8, <2>1, <2>3, <2>4, RightAngleEmbeds
  <2>6. Param(m, p) = m.jc /\ Start(m, p) = p
    BY <1>2, <1>14 DEF Param, Start, SameMap
  <2>7. FollowsMap(j, k, c, Z, a) /\ Z[0] = Cached(p)
    BY <1>1, <1>2, <1>3, <1>4, <1>6, <1>12, <1>13, <2>5, <2>6, DirectOrbit
  <2>8. Z[0] = Cached(Point(z[0].x, z[0].axis[k]))
    BY <1>11, <2>7 DEF Cached, Point
  <2>9. 4 * (j.bail + Magnitude(c.x) + Magnitude(c.axis[k])) <= Huge
    <3>1. \A e : Finite(e) => Magnitude(Neg(e)) = Magnitude(e)
      <4>1. SUFFICES ASSUME NEW e, Finite(e)  PROVE Magnitude(Neg(e)) = Magnitude(e)
        OBVIOUS
      <4>2. e \in Int /\ e # NaN /\ -e # NaN /\ -e \in Int /\ Neg(e) = -e
        BY <4>1, NegOfFinite, Numbers
      <4> QED BY <4>2 DEF Magnitude
    <3>2. Magnitude(c.axis[k]) = Magnitude(j.jc.im) /\ Magnitude(c.x) = Magnitude(j.jc.re)
      BY <2>3, <2>4, <2>5, <3>1
    <3> QED BY <1>9, <3>2
  <2>10. a = s
    BY <1>7, <1>10, <1>11, <2>2, <2>5, <2>7, <2>8, <2>9, JuliaCounts
  <2> QED BY <1>14, <2>10
<1>15. CASE ~j.julia /\ j.bail >= 2
  <2>1. PICK c : c = z[0]
    OBVIOUS
  <2>2. ConstantOf(j, q) = c
    BY <1>7, <1>15, <2>1 DEF ConstantOf, FirstOf
  <2>3. Param(m, p) = p /\ Start(m, p) = Point(0, 0)
    BY <1>2, <1>15 DEF Param, Start, SameMap
  <2>4. FollowsMap(j, k, c, Z, a) /\ Z[0] = Cached(Point(0, 0))
    BY <1>1, <1>2, <1>3, <1>4, <1>6, <1>11, <1>12, <1>13, <2>1, <2>3, DirectOrbit
  <2>5. a \in {s, s + 1}
    BY <1>7, <1>9, <1>10, <1>11, <1>15, <2>1, <2>2, <2>4, PlainCounts
  <2> QED BY <1>15, <2>5
<1> QED BY <1>14, <1>15

LEMMA RenderDirectSliceFits ==
  ASSUME job \in Jobs, RenderDirectSlice PROVE SlicesAgree' /\ job' = job
<1>1. job.plane = "slice" /\ job.direct # "None"
  BY DEF RenderDirectSlice, SliceFresh
<1>2. IsRequest(job) /\ IsSlice(job)
  BY <1>1, SlicesAreRequests
<1>3. IsRightAngle(job)
  BY <1>1, <1>2 DEF IsSlice
<1>4. PICK y \in 0 .. job.height - 1 : Wrote("direct", y, [x \in Line |-> render_direct_slice_field(job, x, y)])
  BY DEF RenderDirectSlice
<1>5. PICK a : a = [x \in Line |-> render_direct_slice_field(job, x, y)]
  OBVIOUS
<1>6. ASSUME NEW x \in DOMAIN a
      PROVE  IF job.julia THEN a[x].iter = PixelReference(job, x, y).iter
             ELSE job.bail >= 2 => a[x].iter \in {PixelReference(job, x, y).iter, PixelReference(job, x, y).iter + 1}
  <2>1. x \in 0 .. job.width - 1 /\ a[x].iter = render_direct_slice_field(job, x, y).iter
    BY <1>5, <1>6 DEF Line
  <2> QED BY <1>1, <1>2, <1>3, <1>4, <2>1, DirectCounts
<1>7. Wrote("direct", y, a)
  BY <1>4, <1>5
<1>8. image' = [kernel |-> "direct", y |-> y, pixels |-> a] /\ job' = job
  BY <1>7 DEF Wrote
<1>9. image'.y = y /\ image'.pixels = a /\ image'.kernel = "direct"
  BY <1>8
<1>10. SliceCopiesAgree'
  BY <1>9 DEF SliceCopiesAgree
<1>11. RightAnglesFit'
  BY <1>6, <1>8, <1>9 DEF RightAnglesFit
<1> QED BY <1>8, <1>10, <1>11 DEF SlicesAgree

SlicesInv == job \in Jobs /\ SlicesAgree

LEMMA CopiesAreNotDirect ==
  ASSUME RenderVolume \/ RenderSliceOpenMP \/ RenderSliceAvx2 \/ RenderSliceCuda
  PROVE  RightAnglesFit'
<1>1. image'.kernel \in {"openmp", "extra", "scalar", "avx2", "cuda"}
  <2>1. \A kernel, y, pixels : Wrote(kernel, y, pixels) => image'.kernel = kernel
    BY DEF Wrote
  <2>2. CASE RenderVolume
    BY <2>1, <2>2 DEF RenderVolume
  <2>3. CASE RenderSliceOpenMP
    BY <2>1, <2>3 DEF RenderSliceOpenMP
  <2>4. CASE RenderSliceAvx2
    BY <2>1, <2>4 DEF RenderSliceAvx2
  <2>5. CASE RenderSliceCuda
    BY <2>1, <2>5 DEF RenderSliceCuda
  <2> QED BY <2>2, <2>3, <2>4, <2>5
<1> QED BY <1>1 DEF RightAnglesFit

LEMMA MapsAreNotSlices ==
  ASSUME Next PROVE job' = job /\ job.plane \in {"map", "ln"}
BY DEF Next, RenderMapRow, RenderMapThreads, RenderMapScalar, RenderCancellable, RenderPairwise,
       RenderLnRow, RenderLnThreads, RenderLnScalar, WroteCounts, Wrote

LEMMA SlicesInvIsInductive ==
  ASSUME SlicesInv, [Next \/ SliceNext]_vars PROVE SlicesInv'
<1>1. CASE Next
  <2>1. job' = job /\ job'.plane \notin {"slice", "volume"}
    BY <1>1, MapsAreNotSlices
  <2> QED BY <2>1 DEF SlicesInv, SlicesAgree, SliceCopiesAgree, RightAnglesFit
<1>2. CASE RenderVolume \/ RenderSliceOpenMP \/ RenderSliceAvx2 \/ RenderSliceCuda
  <2>1. SliceCopiesAgree' /\ job' = job
    BY <1>2, RenderVolumeAgrees, RenderSliceOpenMPAgrees, RenderSliceAvx2Agrees, RenderSliceCudaAgrees DEF SlicesInv
  <2> QED BY <1>2, <2>1, CopiesAreNotDirect DEF SlicesInv, SlicesAgree
<1>3. CASE RenderDirectSlice
  BY <1>3, RenderDirectSliceFits DEF SlicesInv
<1>4. CASE UNCHANGED vars
  BY <1>4 DEF SlicesInv, SlicesAgree, SliceCopiesAgree, RightAnglesFit, vars
<1> QED BY <1>1, <1>2, <1>3, <1>4 DEF SliceNext

(* Every engine that draws a slice or a volume answers, pixel by pixel, as *)
(* the orbit of the embedded point does, in any tiling and any group of    *)
(* lanes; and the plain map that stands in for a slice at a right angle,   *)
(* mirrored or turned, counts the same steps for a Julia set and at most   *)
(* one more otherwise, from a bailout of 2 on.  For every request, size of *)
(* picture, number of legs and width of the numbers that the jobs may have *)
(* (SlicesAssumption).                                                     *)
THEOREM SlicesKeepAgreeing == SliceSpec => []SlicesAgree
<1>1. Init => SlicesInv
  BY DEF Init, Nothing, SlicesInv, SlicesAgree, SliceCopiesAgree, RightAnglesFit
<1>2. SlicesInv /\ [Next \/ SliceNext]_vars => SlicesInv'
  BY SlicesInvIsInductive
<1>3. SlicesInv => SlicesAgree
  BY DEF SlicesInv
<1> QED BY <1>1, <1>2, <1>3, PTL DEF SliceSpec
=============================================================================
