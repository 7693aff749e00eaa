--------------------------- MODULE RoutingProofs ---------------------------
(***************************************************************************)
(* For every number of members and every radix: what each member computes  *)
(* from its rank alone fits together to one tree, radix or binomial; a     *)
(* message stays on the tree and meets nobody twice, and an xcast meets    *)
(* everyone once, whichever links are lost meanwhile.                      *)
(***************************************************************************)
EXTENDS Routing, WellFoundedInduction, TLAPS

-----------------------------------------------------------------------------
(* Induction, as the least counterexample. *)

\* A set of naturals has a least element,
LEMMA Least ==
    ASSUME NEW S \in SUBSET Nat, S # {} PROVE \E m \in S : \A k \in S : m <= k
<1> DEFINE R == {ss \in Nat \X Nat : ss[1] < ss[2]}
<1>1. IsWellFoundedOn(R, Nat)
  BY NatLessThanWellFounded DEF OpToRel
<1>2. PICK m \in S : \A k \in S : ~(<<k, m>> \in R)
  BY <1>1, WFMin
<1>3. \A k \in S : ~(k < m)
  BY <1>2
<1> QED
  BY <1>3

\* and one that is bounded a greatest.
LEMMA Greatest ==
    ASSUME NEW n \in Nat, NEW S \in SUBSET (0..n), S # {}
    PROVE  \E m \in S : \A k \in S : k <= m
<1> DEFINE T == {n - k : k \in S}
<1>1. T \in SUBSET Nat /\ T # {}
  <2>1. PICK k : k \in S
    OBVIOUS
  <2>2. n - k \in T
    BY <2>1
  <2>3. \A j \in S : n - j \in Nat
    OBVIOUS
  <2> QED
    BY <2>2, <2>3
<1>2. PICK m \in T : \A k \in T : m <= k
  <2> HIDE DEF T
  <2> QED
    BY <1>1, Least
<1>3. PICK k \in S : m = n - k
  BY <1>2
<1>4. \A j \in S : m <= n - j
  BY <1>2
<1> QED
  BY <1>3, <1>4

\* From n to n + 1.
LEMMA Induct ==
    ASSUME NEW S, 0 \in S, \A n \in Nat : n \in S => n + 1 \in S
    PROVE  \A n \in Nat : n \in S
<1> DEFINE Bad == {n \in Nat : n \notin S}
<1> SUFFICES ASSUME Bad # {} PROVE FALSE
  OBVIOUS
<1>1. PICK m \in Bad : \A k \in Bad : m <= k
  <2> Bad \in SUBSET Nat
    OBVIOUS
  <2> HIDE DEF Bad
  <2> QED
    BY Least
<1>2. m \in Nat /\ m # 0 /\ m - 1 \in Nat
  OBVIOUS
<1>3. m - 1 \in S
  BY <1>1, <1>2
<1>4. (m - 1) + 1 = m
  BY <1>2
<1> QED
  BY <1>2, <1>3, <1>4

\* From all that are less.
LEMMA StrongUp ==
    ASSUME NEW S, \A n \in Nat : (\A m \in Nat : m < n => m \in S) => n \in S
    PROVE  \A n \in Nat : n \in S
<1> DEFINE Bad == {n \in Nat : n \notin S}
<1> SUFFICES ASSUME Bad # {} PROVE FALSE
  OBVIOUS
<1>1. PICK m \in Bad : \A k \in Bad : m <= k
  <2> Bad \in SUBSET Nat
    OBVIOUS
  <2> HIDE DEF Bad
  <2> QED
    BY Least
<1>2. \A k \in Nat : k < m => k \in S
  BY <1>1
<1> QED
  BY <1>2

\* Over the ranks, from all that are greater.
LEMMA StrongDown ==
    ASSUME NEW n \in Nat, NEW S,
           \A r \in Ranks(n) : (\A c \in Ranks(n) : r < c => c \in S) => r \in S
    PROVE  \A r \in Ranks(n) : r \in S
<1> DEFINE Bad == {r \in Ranks(n) : r \notin S}
<1> SUFFICES ASSUME Bad # {} PROVE FALSE
  OBVIOUS
<1>1. PICK m \in Bad : \A k \in Bad : k <= m
  <2> Bad \in SUBSET (0..n)
    BY DEF Ranks
  <2> HIDE DEF Bad
  <2> QED
    BY Greatest
<1>2. \A c \in Ranks(n) : m < c => c \in S
  BY <1>1 DEF Ranks
<1> QED
  BY <1>2

\* A function that is defined step by step exists.
Stepwise(f, first, Step, n) ==
    /\ f[0] = first
    /\ \A i \in 0..(n - 1) : f[i + 1] = Step[f[i]]

\* It does up to any bound;
LEMMA StepsExist ==
    ASSUME NEW D, NEW first \in D, NEW Step \in [D -> D]
    PROVE  \A n \in Nat : \E f \in [0..n -> D] : Stepwise(f, first, Step, n)
<1> DEFINE S == {n \in Nat : \E f \in [0..n -> D] : Stepwise(f, first, Step, n)}
<1>1. 0 \in S
  <2> DEFINE f == [i \in 0..0 |-> first]
  <2>1. f \in [0..0 -> D] /\ Stepwise(f, first, Step, 0)
    BY DEF Stepwise
  <2> QED
    BY <2>1
<1>2. \A n \in Nat : n \in S => n + 1 \in S
  <2> SUFFICES ASSUME NEW n \in Nat, n \in S PROVE n + 1 \in S
    OBVIOUS
  <2>1. PICK f \in [0..n -> D] : Stepwise(f, first, Step, n)
    OBVIOUS
  <2> DEFINE g == [i \in 0..(n + 1) |-> IF i = n + 1 THEN Step[f[n]] ELSE f[i]]
  <2>2. g \in [0..(n + 1) -> D]
    OBVIOUS
  <2>3. g[0] = first
    BY <2>1 DEF Stepwise
  <2>4. ASSUME NEW i \in 0..((n + 1) - 1) PROVE g[i + 1] = Step[g[i]]
    <3>1. CASE i = n
      BY <3>1
    <3>2. CASE i # n
      BY <3>2, <2>1 DEF Stepwise
    <3> QED
      BY <3>1, <3>2
  <2>5. Stepwise(g, first, Step, n + 1)
    <3> HIDE DEF g
    <3> QED
      BY <2>3, <2>4 DEF Stepwise
  <2> QED
    BY <2>2, <2>5
<1>3. \A n \in Nat : n \in S
  <2> HIDE DEF S
  <2> QED
    BY <1>1, <1>2, Induct
<1> QED
  BY <1>3

\* those for two bounds agree where both are defined;
LEMMA StepsAgree ==
    ASSUME NEW first, NEW Step, NEW n \in Nat, NEW k \in 0..n, NEW f, NEW g,
           Stepwise(f, first, Step, n), Stepwise(g, first, Step, k)
    PROVE  f[k] = g[k]
<1> DEFINE S == {i \in Nat : i <= k => f[i] = g[i]}
<1>1. 0 \in S
  BY DEF Stepwise
<1>2. \A i \in Nat : i \in S => i + 1 \in S
  BY DEF Stepwise
<1>3. \A i \in Nat : i \in S
  <2> HIDE DEF S
  <2> QED
    BY <1>1, <1>2, Induct
<1> QED
  BY <1>3

\* so it does without a bound.
LEMMA StepsForever ==
    ASSUME NEW D, NEW first \in D, NEW Step \in [D -> D]
    PROVE  \E f \in [Nat -> D] : \A n \in Nat : Stepwise(f, first, Step, n)
<1> DEFINE Of(n) == CHOOSE f \in [0..n -> D] : Stepwise(f, first, Step, n)
           F == [n \in Nat |-> Of(n)[n]]
<1>1. \A n \in Nat : Of(n) \in [0..n -> D] /\ Stepwise(Of(n), first, Step, n)
  BY StepsExist
<1> HIDE DEF Of
<1>2. F \in [Nat -> D]
  BY <1>1
<1>3. F[0] = first
  BY <1>1 DEF Stepwise
<1>4. ASSUME NEW i \in Nat PROVE F[i + 1] = Step[F[i]]
  <2>1. Stepwise(Of(i + 1), first, Step, i + 1) /\ Stepwise(Of(i), first, Step, i)
    BY <1>1
  <2>2. Of(i + 1)[i] = Of(i)[i]
    BY <2>1, StepsAgree
  <2>3. Of(i + 1)[i + 1] = Step[Of(i + 1)[i]]
    BY <2>1 DEF Stepwise
  <2> QED
    BY <2>2, <2>3
<1>5. \A n \in Nat : Stepwise(F, first, Step, n)
  <2> HIDE DEF F
  <2> QED
    BY <1>3, <1>4 DEF Stepwise
<1> QED
  BY <1>2, <1>5

-----------------------------------------------------------------------------
(* Powers of two. *)

\* The recursive function Bit is what its definition says.
LEMMA BitIs == Bit \in [Nat -> Nat] /\ Bit[0] = 1 /\ \A i \in Nat : Bit[i + 1] = 2 * Bit[i]
<1> DEFINE Step == [x \in Nat |-> 2 * x]
           one == 1
           IsBit(F) == F = [i \in Nat |-> IF i = 0 THEN 1 ELSE 2 * F[i - 1]]
<1>1. PICK F \in [Nat -> Nat] : \A n \in Nat : Stepwise(F, one, Step, n)
  <2>1. one \in Nat /\ Step \in [Nat -> Nat]
    OBVIOUS
  <2> HIDE DEF one, Step
  <2> QED
    BY <2>1, StepsForever
<1>2. F[0] = 1 /\ \A i \in Nat : F[i + 1] = 2 * F[i]
  <2>1. F[0] = 1
    BY <1>1 DEF Stepwise
  <2>2. ASSUME NEW i \in Nat PROVE F[i + 1] = 2 * F[i]
    <3>1. Stepwise(F, one, Step, i + 1)
      BY <1>1
    <3>2. F[i + 1] = Step[F[i]]
      BY <3>1 DEF Stepwise
    <3> QED
      BY <3>2
  <2> QED
    BY <2>1, <2>2
<1>3. IsBit(F)
  <2>1. ASSUME NEW i \in Nat PROVE F[i] = IF i = 0 THEN 1 ELSE 2 * F[i - 1]
    <3>1. i # 0 => i - 1 \in Nat /\ (i - 1) + 1 = i
      OBVIOUS
    <3> QED
      BY <3>1, <1>2
  <2> QED
    BY <2>1
<1>4. IsBit(Bit)
  <2>1. Bit = CHOOSE G : IsBit(G)
    BY DEF Bit
  <2> HIDE DEF IsBit
  <2> QED
    BY <2>1, <1>3
<1>5. \A i \in Nat : Bit[i] = IF i = 0 THEN 1 ELSE 2 * Bit[i - 1]
  BY <1>4
<1>6. Bit[0] = 1 /\ \A i \in Nat : Bit[i + 1] = 2 * Bit[i]
  <2> SUFFICES ASSUME NEW i \in Nat PROVE Bit[i + 1] = 2 * Bit[i]
    BY <1>5
  <2>1. i + 1 \in Nat /\ i + 1 # 0 /\ (i + 1) - 1 = i
    OBVIOUS
  <2> QED
    BY <2>1, <1>5
<1>7. \A i \in Nat : Bit[i] \in Nat
  <2> DEFINE S == {i \in Nat : Bit[i] \in Nat}
  <2>1. 0 \in S /\ \A i \in Nat : i \in S => i + 1 \in S
    BY <1>6
  <2> HIDE DEF S
  <2>2. \A i \in Nat : i \in S
    BY <2>1, Induct
  <2> QED
    BY <2>2 DEF S
<1>8. Bit = [i \in Nat |-> IF i = 0 THEN 1 ELSE 2 * Bit[i - 1]]
  BY <1>4
<1>9. \E G : Bit = [i \in Nat |-> G[i]]
  <2>1. Bit = [i \in Nat |-> [j \in Nat |-> IF j = 0 THEN 1 ELSE 2 * Bit[j - 1]][i]]
    BY <1>8
  <2> QED
    BY <2>1
<1>10. Bit \in [Nat -> Nat]
  BY <1>7, <1>9
<1> QED
  BY <1>6, <1>10

\* Powers of two grow.
LEMMA BitFacts ==
    /\ \A i \in Nat : Bit[i] \in Nat /\ Bit[i] > i
    /\ \A i, j \in Nat : i <= j => Bit[i] <= Bit[j]
<1>1. \A i \in Nat : Bit[i] \in Nat
  BY BitIs
<1>2. \A i \in Nat : Bit[i] > i
  <2> DEFINE S == {i \in Nat : Bit[i] > i}
  <2>1. 0 \in S
    BY BitIs
  <2>2. \A i \in Nat : i \in S => i + 1 \in S
    BY BitIs, <1>1
  <2> HIDE DEF S
  <2>3. \A i \in Nat : i \in S
    BY <2>1, <2>2, Induct
  <2> QED
    BY <2>3 DEF S
<1>3. ASSUME NEW i \in Nat PROVE \A d \in Nat : Bit[i] <= Bit[i + d]
  <2> DEFINE S == {d \in Nat : Bit[i] <= Bit[i + d]}
  <2>1. 0 \in S
    BY <1>1
  <2>2. ASSUME NEW d \in Nat, d \in S PROVE d + 1 \in S
    <3>1. Bit[i + (d + 1)] = 2 * Bit[i + d]
      <4>1. i + (d + 1) = (i + d) + 1
        OBVIOUS
      <4> QED
        BY <4>1, BitIs
    <3>2. Bit[i + d] \in Nat /\ Bit[i] \in Nat /\ Bit[i] <= Bit[i + d]
      BY <1>1, <2>2
    <3>3. \A x, y \in Nat : x <= y => x <= 2 * y
      OBVIOUS
    <3> QED
      BY <3>1, <3>2, <3>3
  <2> HIDE DEF S
  <2>3. \A d \in Nat : d \in S
    BY <2>1, <2>2, Induct
  <2> QED
    BY <2>3 DEF S
<1>4. ASSUME NEW i \in Nat, NEW j \in Nat, i <= j PROVE Bit[i] <= Bit[j]
  <2>1. j - i \in Nat /\ i + (j - i) = j
    BY <1>4
  <2> QED
    BY <2>1, <1>3
<1> QED
  BY <1>1, <1>2, <1>4

\* A number is at least its highest bit and less than the next.
LEMMA TopBit ==
    ASSUME NEW v \in Nat \ {0} PROVE \E j \in Nat : Bit[j] <= v /\ v < Bit[j + 1]
<1> DEFINE S == {k \in Nat : v < Bit[k]}
<1>1. S \in SUBSET Nat /\ S # {}
  <2>1. v \in S
    BY BitFacts
  <2> QED
    BY <2>1
<1>2. PICK k \in S : \A i \in S : k <= i
  <2> HIDE DEF S
  <2> QED
    BY <1>1, Least
<1>3. k \in Nat /\ k # 0
  BY BitIs
<1>4. k - 1 \in Nat /\ (k - 1) + 1 = k /\ k - 1 \notin S
  BY <1>2, <1>3
<1>5. Bit[k - 1] <= v
  BY <1>4, BitFacts
<1> QED
  BY <1>2, <1>4, <1>5

\* There is only one such bit.
LEMMA OneBit ==
    ASSUME NEW i \in Nat, NEW j \in Nat, NEW v \in Nat,
           Bit[i] <= v, v < Bit[i + 1], Bit[j] <= v, v < Bit[j + 1]
    PROVE  i = j
<1>1. ~(i < j)
  <2>1. i < j => Bit[i + 1] <= Bit[j]
    BY BitFacts
  <2> QED
    BY <2>1, BitFacts
<1>2. ~(j < i)
  <2>1. j < i => Bit[j + 1] <= Bit[i]
    BY BitFacts
  <2> QED
    BY <2>1, BitFacts
<1> QED
  BY <1>1, <1>2

-----------------------------------------------------------------------------
(* The binomial tree. *)

\* scon_hibit and the bits of a value: those from i on are clear just when the
\* value is less than 2^i.
LEMMA Hibit ==
    ASSUME NEW v \in Nat, NEW start \in Nat, v < Bit[start]
    PROVE  /\ scon_hibit(v, start) \in -1..(start - 1)
           /\ \A i \in 0..(start - 1) : scon_hibit(v, start) < i <=> v < Bit[i]
<1> DEFINE Bits == {i \in 0..(start - 1) : (v \div Bit[i]) % 2 = 1}
           h == scon_hibit(v, start)
<1>0. \A i \in Nat : Bit[i] \in Nat \ {0}
  BY BitFacts
<1>1. \A x \in Nat, y \in Nat \ {0} : x < y => (x \div y) % 2 = 0
  <2>1. \A x \in Nat, y \in Nat \ {0} : x < y => x \div y = 0
    OBVIOUS
  <2> QED
    BY <2>1
<1>2. \A x \in Nat, y \in Nat \ {0} : y <= x /\ x < 2 * y => (x \div y) % 2 = 1
  <2>1. \A x \in Nat, y \in Nat \ {0} : y <= x /\ x < 2 * y => x \div y = 1
    OBVIOUS
  <2> QED
    BY <2>1
<1>3. \A i \in 0..(start - 1) : v < Bit[i] => \A j \in Bits : j < i
  <2> SUFFICES ASSUME NEW i \in 0..(start - 1), v < Bit[i], NEW j \in Bits, j >= i
               PROVE FALSE
    OBVIOUS
  <2>1. Bit[i] <= Bit[j] /\ Bit[i] \in Nat /\ Bit[j] \in Nat \ {0}
    BY BitFacts, <1>0
  <2>2. v < Bit[j]
    BY <2>1
  <2> QED
    BY <2>1, <2>2, <1>1
<1>4. \A i \in 0..(start - 1) : v >= Bit[i] => \E j \in Bits : j >= i
  <2> SUFFICES ASSUME NEW i \in 0..(start - 1), v >= Bit[i] PROVE \E j \in Bits : j >= i
    OBVIOUS
  <2>1. v \in Nat \ {0}
    BY <1>0
  <2>2. PICK j \in Nat : Bit[j] <= v /\ v < Bit[j + 1]
    BY <2>1, TopBit
  <2>3. j < start
    <3>1. j >= start => Bit[start] <= Bit[j]
      BY BitFacts
    <3> QED
      BY <3>1, <2>2, <1>0
  <2>4. j >= i
    <3>1. j < i => Bit[j + 1] <= Bit[i]
      BY BitFacts
    <3>2. Bit[i] \in Nat /\ Bit[j + 1] \in Nat
      BY <1>0
    <3> QED
      BY <3>1, <3>2, <2>2
  <2>5. (v \div Bit[j]) % 2 = 1
    BY <2>2, <1>0, <1>2, BitIs
  <2> QED
    BY <2>3, <2>4, <2>5
<1>5. h = IF Bits = {} THEN -1 ELSE CHOOSE i \in Bits : \A j \in Bits : j <= i
  BY DEF scon_hibit
<1>6. Bits # {} => h \in Bits /\ \A j \in Bits : j <= h
  <2> SUFFICES ASSUME Bits # {} PROVE h \in Bits /\ \A j \in Bits : j <= h
    OBVIOUS
  <2>1. Bits \in SUBSET (0..start)
    OBVIOUS
  <2> HIDE DEF Bits
  <2>2. \E i \in Bits : \A j \in Bits : j <= i
    BY <2>1, Greatest
  <2> HIDE DEF h
  <2> QED
    BY <2>2, <1>5
<1>7. Bits \subseteq 0..(start - 1)
  OBVIOUS
<1> HIDE DEF Bits
<1>8. CASE Bits = {}
  <2>1. h = -1
    BY <1>8, <1>5
  <2>2. \A i \in 0..(start - 1) : v < Bit[i]
    BY <1>8, <1>4, <1>0
  <2> QED
    BY <2>1, <2>2
<1>9. CASE Bits # {}
  <2>1. h \in Bits /\ \A j \in Bits : j <= h
    BY <1>9, <1>6
  <2> HIDE DEF h
  <2>2. h \in 0..(start - 1)
    BY <2>1, <1>7
  <2>3. ASSUME NEW i \in 0..(start - 1) PROVE h < i <=> v < Bit[i]
    <3>1. v < Bit[i] => h < i
      BY <1>3, <2>1
    <3>2. v >= Bit[i] => h >= i
      <4>1. v >= Bit[i] => \E j \in Bits : j >= i
        BY <1>4
      <4> QED
        BY <4>1, <2>1, <2>2, <1>7
    <3>3. Bit[i] \in Nat
      BY <1>0
    <3> QED
      BY <3>1, <3>2, <3>3, <2>2
  <2>4. h \in -1..(start - 1)
    BY <2>2
  <2> QED
    BY <2>3, <2>4 DEF h
<1> QED
  BY <1>8, <1>9

\* The cube that scon_cube_dim finds has enough corners.
LEMMA CubeDim ==
    ASSUME NEW n \in Nat
    PROVE  scon_cube_dim(n) \in 0..n /\ Bit[scon_cube_dim(n)] >= n
<1> DEFINE Enough(d) == Bit[d] >= n /\ \A e \in 0..(d - 1) : Bit[e] < n
           S == {d \in Nat : Bit[d] >= n}
<1>1. n \in S
  BY BitFacts
<1>2. PICK m \in S : \A k \in S : m <= k
  <2>1. S \in SUBSET Nat /\ S # {}
    BY <1>1
  <2> HIDE DEF S
  <2> QED
    BY <2>1, Least
<1>3. m \in 0..n
  BY <1>1, <1>2
<1>4. Enough(m)
  BY <1>2, BitFacts
<1>5. scon_cube_dim(n) = CHOOSE d \in 0..n : Enough(d)
  BY DEF scon_cube_dim
<1>6. scon_cube_dim(n) \in 0..n /\ Enough(scon_cube_dim(n))
  <2> HIDE DEF Enough
  <2> QED
    BY <1>3, <1>4, <1>5
<1> QED
  BY <1>6

\* The children of p are the ranks that p gives with a bit above its highest.
LEMMA BinomChildren ==
    ASSUME NEW n \in Nat, NEW p \in Ranks(n)
    PROVE  \A c : c \in binom_children(n, p) <=>
              c \in Ranks(n) /\ \E i \in Nat : p < Bit[i] /\ c = p + Bit[i]
<1> DEFINE dim == scon_cube_dim(n)
           h == scon_hibit(p, dim)
<1>1. dim \in Nat /\ Bit[dim] >= n /\ Bit[dim] \in Nat
  BY CubeDim, BitFacts
<1>2. p \in Nat /\ p < n
  BY DEF Ranks
<1>3. h \in -1..(dim - 1) /\ \A i \in 0..(dim - 1) : h < i <=> p < Bit[i]
  <2>1. p < Bit[dim]
    BY <1>1, <1>2
  <2> HIDE DEF dim
  <2> QED
    BY <1>1, <1>2, <2>1, Hibit
<1>4. \A c : c \in binom_children(n, p) <=>
         c \in Ranks(n) /\ \E i \in (h + 1)..(dim - 1) : c = p + Bit[i]
  BY DEF binom_children
<1> HIDE DEF dim, h
<1> TAKE c
<1>5. ASSUME c \in binom_children(n, p)
      PROVE  c \in Ranks(n) /\ \E i \in Nat : p < Bit[i] /\ c = p + Bit[i]
  <2>1. PICK i \in (h + 1)..(dim - 1) : c = p + Bit[i]
    BY <1>4, <1>5
  <2>2. i \in 0..(dim - 1) /\ h < i
    BY <1>1, <1>3
  <2> QED
    BY <2>1, <2>2, <1>3, <1>4, <1>5
<1>6. ASSUME c \in Ranks(n), NEW i \in Nat, p < Bit[i], c = p + Bit[i]
      PROVE  c \in binom_children(n, p)
  <2>1. Bit[i] < Bit[dim]
    BY <1>1, <1>2, <1>6, BitFacts DEF Ranks
  <2>2. i < dim
    <3>1. dim <= i => Bit[dim] <= Bit[i]
      BY <1>1, BitFacts
    <3>2. Bit[i] \in Nat
      BY BitFacts
    <3> QED
      BY <1>1, <2>1, <3>1, <3>2
  <2>3. h < i
    BY <2>2, <1>1, <1>3, <1>6
  <2>4. i \in (h + 1)..(dim - 1)
    BY <1>1, <1>3, <2>2, <2>3
  <2> QED
    BY <2>4, <1>4, <1>6
<1> QED
  BY <1>5, <1>6

\* The one rank that c is a child of: c without its highest bit.
LEMMA BinomUp ==
    ASSUME NEW n \in Nat, NEW c \in Ranks(n) \ {0}
    PROVE  \E p \in Ranks(n) :
              /\ p < c
              /\ \A q \in Ranks(n) : c \in binom_children(n, q) <=> q = p
<1>1. c \in Nat \ {0} /\ c < n
  BY DEF Ranks
<1>2. PICK j \in Nat : Bit[j] <= c /\ c < Bit[j + 1]
  BY <1>1, TopBit
<1>3. Bit[j] \in Nat \ {0} /\ Bit[j + 1] = 2 * Bit[j]
  <2>1. Bit[j] \in Nat /\ Bit[j] > j
    BY BitFacts
  <2> QED
    BY <2>1, BitIs
<1> DEFINE p == c - Bit[j]
<1>4. p \in Nat /\ p < c /\ p < n /\ p < Bit[j] /\ c = p + Bit[j]
  BY <1>1, <1>2, <1>3
<1>5. p \in Ranks(n)
  BY <1>1, <1>4 DEF Ranks
<1>6. c \in binom_children(n, p)
  BY <1>4, <1>5, BinomChildren
<1>7. ASSUME NEW q \in Ranks(n), c \in binom_children(n, q) PROVE q = p
  <2>1. PICK i \in Nat : q < Bit[i] /\ c = q + Bit[i]
    BY <1>7, BinomChildren
  <2>2. q \in Nat
    BY DEF Ranks
  <2>3. Bit[i] \in Nat /\ Bit[i + 1] = 2 * Bit[i]
    BY BitFacts, BitIs
  <2>4. Bit[i] <= c /\ c < Bit[i + 1]
    BY <2>1, <2>2, <2>3
  <2>5. i = j
    BY <1>1, <1>2, <2>4, OneBit
  <2> QED
    BY <2>1, <2>2, <2>3, <2>5
<1> QED
  BY <1>4, <1>5, <1>6, <1>7

-----------------------------------------------------------------------------
(* Trees, of any kind. U gives the parents, K the children. *)

IsTree(n, K, U) ==
    /\ \A c \in Ranks(n) \ {0} : U[c] \in Ranks(n) /\ U[c] < c
    /\ \A p \in Ranks(n) : K[p] = {c \in Ranks(n) \ {0} : U[c] = p}

\* Whoever is below r, as `relatives` computes it.
IsBelow(B, n, K) == B = [r \in Ranks(n) |-> UNION {{c} \cup B[c] : c \in K[r]}]

\* A function that solves the equation of `relatives` exists.
LEMMA BelowExists ==
    ASSUME NEW n \in Nat, NEW K, NEW U, IsTree(n, K, U)
    PROVE  \E B : IsBelow(B, n, K)
<1> DEFINE Down(k) == (n - k)..(n - 1)
           Upto(B, k) == B = [r \in Down(k) |-> UNION {{c} \cup B[c] : c \in K[r]}]
           S == {k \in Nat : k <= n => \E B : Upto(B, k)}
<1>1. 0 \in S
  <2> DEFINE B == [r \in Down(0) |-> {}]
  <2>1. Upto(B, 0)
    <3>1. Down(0) = {}
      OBVIOUS
    <3> HIDE DEF Down
    <3> QED
      BY <3>1
  <2> QED
    BY <2>1
<1>2. ASSUME NEW k \in Nat, k \in S, k + 1 <= n PROVE \E B : Upto(B, k + 1)
  <2>1. PICK B : Upto(B, k)
    BY <1>2
  <2> DEFINE r0 == n - (k + 1)
             G == [r \in Down(k + 1) |-> IF r = r0 THEN UNION {{c} \cup B[c] : c \in K[r]} ELSE B[r]]
  <2>2. r0 \in Ranks(n) /\ Down(k + 1) = Down(k) \cup {r0} /\ r0 \notin Down(k)
    BY <1>2 DEF Ranks
  <2>3. \A r \in Down(k + 1) : r \in Ranks(n) /\ K[r] \subseteq Down(k)
    <3>1. SUFFICES ASSUME NEW r \in Down(k + 1), NEW c \in K[r]
                   PROVE  r \in Ranks(n) /\ c \in Down(k)
      BY <1>2 DEF Ranks
    <3>2. r \in Ranks(n) /\ r \in Nat /\ r >= n - (k + 1)
      BY <1>2 DEF Ranks
    <3>3. c \in Ranks(n) \ {0} /\ U[c] = r
      BY <3>2 DEF IsTree
    <3>4. r < c
      BY <3>3 DEF IsTree
    <3> QED
      BY <3>2, <3>3, <3>4 DEF Ranks
  <2>4. \A r \in Down(k) : G[r] = B[r]
    BY <2>2
  <2>5. G[r0] = UNION {{c} \cup B[c] : c \in K[r0]}
    BY <2>2
  <2>6. \A r \in Down(k) : B[r] = UNION {{c} \cup B[c] : c \in K[r]}
    BY <2>1
  <2> DEFINE Sub(F, r) == UNION {{c} \cup F[c] : c \in K[r]}
  <2>7. \A r \in Down(k + 1) : Sub(G, r) = Sub(B, r)
    <3> SUFFICES ASSUME NEW r \in Down(k + 1) PROVE Sub(G, r) = Sub(B, r)
      OBVIOUS
    <3>1. \A c \in K[r] : G[c] = B[c]
      BY <2>3, <2>4
    <3> HIDE DEF G, Down
    <3> QED
      BY <3>1
  <2>8. \A r \in Down(k + 1) : G[r] = Sub(G, r)
    <3> HIDE DEF G, Down
    <3>1. \A r \in Down(k + 1) : G[r] = Sub(B, r)
      BY <2>2, <2>4, <2>5, <2>6
    <3> QED
      BY <3>1, <2>7
  <2>9. Upto(G, k + 1)
    <3>1. \A r \in Down(k + 1) : G[r] = UNION {{c} \cup G[c] : c \in K[r]}
      BY <2>8
    <3>2. G = [r \in Down(k + 1) |-> G[r]]
      OBVIOUS
    <3> HIDE DEF G, Down
    <3> QED
      BY <3>1, <3>2
  <2> QED
    BY <2>9
<1>3. \A k \in Nat : k \in S => k + 1 \in S
  <2> SUFFICES ASSUME NEW k \in Nat, k \in S PROVE k + 1 \in S
    OBVIOUS
  <2>1. k + 1 <= n => \E B : Upto(B, k + 1)
    BY <1>2
  <2> HIDE DEF Upto
  <2> QED
    BY <2>1
<1>4. n \in S
  <2> HIDE DEF S
  <2> QED
    BY <1>1, <1>3, Induct
<1>5. PICK B : Upto(B, n)
  BY <1>4
<1>6. Down(n) = Ranks(n)
  BY DEF Ranks
<1>7. IsBelow(B, n, K)
  <2> HIDE DEF Down
  <2> QED
    BY <1>5, <1>6 DEF IsBelow
<1> QED
  BY <1>7

\* What is at or below r.
At(B, r) == {r} \cup B[r]

\* A branch is the branches of the children.
LEMMA BelowIs ==
    ASSUME NEW n, NEW K, NEW B, IsBelow(B, n, K), NEW r \in Ranks(n)
    PROVE  B[r] = UNION {At(B, c) : c \in K[r]}
BY DEF IsBelow, At

\* Members of a branch are in it with their parents, above its top in rank.
LEMMA BelowUp ==
    ASSUME NEW n \in Nat, NEW K, NEW U, NEW B, IsTree(n, K, U), IsBelow(B, n, K)
    PROVE  \A p \in Ranks(n) : \A x \in B[p] :
              x \in Ranks(n) \ {0} /\ p < x /\ U[x] \in At(B, p)
<1> DEFINE Good(p) == \A x \in B[p] : x \in Ranks(n) \ {0} /\ p < x /\ U[x] \in At(B, p)
           S == {p \in Ranks(n) : Good(p)}
<1>1. ASSUME NEW p \in Ranks(n), \A c \in Ranks(n) : p < c => c \in S
      PROVE  Good(p)
  <2> SUFFICES ASSUME NEW x \in B[p]
               PROVE  x \in Ranks(n) \ {0} /\ p < x /\ U[x] \in At(B, p)
    OBVIOUS
  <2>1. PICK c \in K[p] : x \in At(B, c)
    BY BelowIs
  <2>2. c \in Ranks(n) \ {0} /\ U[c] = p /\ p < c
    BY DEF IsTree
  <2>3. At(B, c) \subseteq B[p]
    BY BelowIs
  <2>4. CASE x = c
    BY <2>2, <2>4 DEF At
  <2>5. CASE x \in B[c]
    <3>1. x \in Ranks(n) \ {0} /\ c < x /\ U[x] \in At(B, c)
      BY <1>1, <2>2, <2>5
    <3> QED
      BY <3>1, <2>2, <2>3 DEF At, Ranks
  <2> QED
    BY <2>1, <2>4, <2>5 DEF At
<1>2. \A p \in Ranks(n) : (\A c \in Ranks(n) : p < c => c \in S) => p \in S
  BY <1>1
<1>3. \A p \in Ranks(n) : p \in S
  <2> HIDE DEF S
  <2> QED
    BY <1>2, StrongDown
<1> QED
  BY <1>3

\* The branches of two children are apart.
LEMMA BranchesApart ==
    ASSUME NEW n \in Nat, NEW K, NEW U, NEW B, IsTree(n, K, U), IsBelow(B, n, K),
           NEW p \in Ranks(n), NEW c \in K[p], NEW d \in K[p], c # d
    PROVE  At(B, c) \cap At(B, d) = {}
<1> DEFINE Both == At(B, c) \cap At(B, d)
<1>1. /\ c \in Ranks(n) /\ U[c] = p /\ p < c
      /\ d \in Ranks(n) /\ U[d] = p /\ p < d
  BY DEF IsTree
<1> SUFFICES ASSUME Both # {} PROVE FALSE
  OBVIOUS
<1>2. Both \in SUBSET Nat
  <2>1. At(B, c) \subseteq Ranks(n)
    <3>1. \A x \in B[c] : x \in Ranks(n)
      BY <1>1, BelowUp
    <3> QED
      BY <3>1, <1>1 DEF At
  <2> QED
    BY <2>1 DEF Ranks
<1>3. PICK x \in Both : \A y \in Both : x <= y
  <2> HIDE DEF Both
  <2> QED
    BY <1>2, Least
<1>4. p \notin At(B, c) /\ p \notin At(B, d)
  BY SMTT(60), <1>1, BelowUp DEF At, Ranks
<1>5. x # c /\ x # d
  <2>1. ASSUME x = c PROVE FALSE
    <3>1. c \in B[d]
      BY <2>1 DEF At
    <3>2. U[c] \in At(B, d)
      BY <3>1, <1>1, BelowUp
    <3> QED
      BY <3>2, <1>1, <1>4
  <2>2. ASSUME x = d PROVE FALSE
    <3>1. d \in B[c]
      BY <2>2 DEF At
    <3>2. U[d] \in At(B, c)
      BY <3>1, <1>1, BelowUp
    <3> QED
      BY <3>2, <1>1, <1>4
  <2> QED
    BY <2>1, <2>2
<1>6. x \in B[c] /\ x \in B[d]
  BY <1>5 DEF At
<1>7. U[x] \in Both /\ x \in Ranks(n) \ {0}
  BY <1>1, <1>6, BelowUp
<1>8. U[x] < x /\ U[x] \in Ranks(n)
  BY <1>7 DEF IsTree
<1> QED
  BY <1>3, <1>7, <1>8 DEF Ranks

\* The children of a member are in every branch that it is in.
LEMMA BelowDown ==
    ASSUME NEW n \in Nat, NEW K, NEW U, NEW B, IsTree(n, K, U), IsBelow(B, n, K)
    PROVE  \A p \in Ranks(n) : \A x \in Ranks(n) \ {0} : U[x] \in At(B, p) => x \in B[p]
<1> DEFINE Good(p) == \A x \in Ranks(n) \ {0} : U[x] \in At(B, p) => x \in B[p]
           S == {p \in Ranks(n) : Good(p)}
<1>1. ASSUME NEW p \in Ranks(n), \A c \in Ranks(n) : p < c => c \in S
      PROVE  Good(p)
  <2> SUFFICES ASSUME NEW x \in Ranks(n) \ {0}, U[x] \in At(B, p) PROVE x \in B[p]
    OBVIOUS
  <2>1. CASE U[x] = p
    <3>1. x \in K[p]
      BY <2>1 DEF IsTree
    <3> QED
      BY <3>1, BelowIs DEF At
  <2>2. CASE U[x] \in B[p]
    <3>1. PICK c \in K[p] : U[x] \in At(B, c)
      BY <2>2, BelowIs
    <3>2. c \in Ranks(n) /\ p < c
      BY DEF IsTree
    <3>3. x \in B[c]
      BY <1>1, <3>1, <3>2
    <3> QED
      BY <3>3, BelowIs DEF At
  <2> QED
    BY <2>1, <2>2 DEF At
<1>2. \A p \in Ranks(n) : (\A c \in Ranks(n) : p < c => c \in S) => p \in S
  BY <1>1
<1>3. \A p \in Ranks(n) : p \in S
  <2> HIDE DEF S
  <2> QED
    BY <1>2, StrongDown
<1> QED
  BY <1>3

\* Everyone is below rank 0.
LEMMA AllBelowRoot ==
    ASSUME NEW n \in Nat \ {0}, NEW K, NEW U, NEW B, IsTree(n, K, U), IsBelow(B, n, K)
    PROVE  B[0] = Ranks(n) \ {0}
<1>0. 0 \in Ranks(n)
  BY DEF Ranks
<1> DEFINE S == {x \in Nat : x \in Ranks(n) => x \in At(B, 0)}
<1>1. ASSUME NEW x \in Nat, \A y \in Nat : y < x => y \in S PROVE x \in S
  <2> SUFFICES ASSUME x \in Ranks(n), x # 0 PROVE x \in At(B, 0)
    BY DEF At
  <2>1. U[x] \in Ranks(n) /\ U[x] < x
    BY DEF IsTree
  <2>2. U[x] \in At(B, 0)
    BY <2>1, <1>1 DEF Ranks
  <2> QED
    BY <2>2, <1>0, BelowDown DEF At
<1>2. \A x \in Nat : x \in S
  <2> HIDE DEF S
  <2> QED
    BY <1>1, StrongUp
<1>3. \A x \in Ranks(n) \ {0} : x \in B[0]
  BY <1>2 DEF Ranks, At
<1> QED
  BY <1>0, <1>3, BelowUp

-----------------------------------------------------------------------------
(* The radix tree. *)

Counts == [Sum : Nat, NInLevel : Nat]
FirstLevel == [Sum |-> 1, NInLevel |-> 1]
Start(l) == l.Sum - l.NInLevel     \* the first rank of a level
Has(l, r) == Start(l) <= r /\ r < l.Sum
Larger(l, R) == [Sum |-> l.Sum + l.NInLevel * R, NInLevel |-> l.NInLevel * R]

\* The levels, from the root's on.
IsLevels(G, R) ==
    /\ G \in [Nat -> Counts]
    /\ G[0] = FirstLevel
    /\ \A j \in Nat : G[j + 1] = Larger(G[j], R)

\* Products of naturals.
LEMMA ProductInNat == \A x, y \in Nat : x * y \in Nat /\ (x > 0 /\ y > 0 => x * y >= x)
  <1>1. \A x, y \in Nat : x * y \in Nat
    OBVIOUS
  <1>2. ASSUME NEW x \in Nat, NEW y \in Nat, x > 0, y > 0 PROVE x * y >= x
    <2>1. x * y = x + x * (y - 1)
      OBVIOUS
    <2>2. x * (y - 1) \in Nat
      BY <1>1, <1>2
    <2> QED
      BY <2>1, <2>2
  <1> QED
    BY <1>1, <1>2

\* The numbers of the next level.
LEMMA LargerIs ==
    ASSUME NEW R \in Nat, NEW l \in Counts
    PROVE  /\ Larger(l, R) \in Counts
           /\ Larger(l, R).Sum = l.Sum + l.NInLevel * R
           /\ Larger(l, R).NInLevel = l.NInLevel * R
           /\ Start(Larger(l, R)) = l.Sum
<1>1. l.NInLevel * R \in Nat /\ l.Sum \in Nat /\ l.NInLevel \in Nat
  BY ProductInNat DEF Counts
<1> QED
  BY <1>1 DEF Larger, Counts, Start

\* There is a sequence of levels.
LEMMA LevelsExist == ASSUME NEW R \in Nat PROVE \E G : IsLevels(G, R)
<1> DEFINE Step == [l \in Counts |-> Larger(l, R)]
<1>1. Step \in [Counts -> Counts] /\ FirstLevel \in Counts
  <2>1. FirstLevel \in Counts
    BY DEF FirstLevel, Counts
  <2> QED
    BY <2>1, LargerIs
<1>2. PICK G \in [Nat -> Counts] : \A n \in Nat : Stepwise(G, FirstLevel, Step, n)
  <2> HIDE DEF Step
  <2> QED
    BY <1>1, StepsForever
<1>3. G[0] = FirstLevel
  BY <1>2 DEF Stepwise
<1>4. ASSUME NEW j \in Nat PROVE G[j + 1] = Larger(G[j], R)
  <2>1. Stepwise(G, FirstLevel, Step, j + 1)
    BY <1>2
  <2>2. G[j + 1] = Step[G[j]]
    BY <2>1 DEF Stepwise
  <2> QED
    BY <2>2
<1> QED
  BY <1>3, <1>4 DEF IsLevels

\* The levels follow each other without a gap.
LEMMA LevelFacts ==
    ASSUME NEW R \in Nat \ {0}, NEW G, IsLevels(G, R)
    PROVE  /\ \A j \in Nat : /\ G[j].Sum \in Nat /\ G[j].NInLevel \in Nat
                             /\ G[j].NInLevel > 0 /\ G[j].Sum >= G[j].NInLevel
                             /\ G[j].Sum > j /\ Start(G[j + 1]) = G[j].Sum
           /\ \A i, j \in Nat : i < j => G[i].Sum <= Start(G[j])
<1> DEFINE Good(j) == /\ G[j].NInLevel > 0 /\ G[j].Sum >= G[j].NInLevel
                      /\ G[j].Sum > j
           S == {j \in Nat : Good(j)}
<1>1. \A j \in Nat : G[j] \in Counts /\ G[j].Sum \in Nat /\ G[j].NInLevel \in Nat
  BY DEF IsLevels, Counts
<1>2. 0 \in S
  BY DEF IsLevels, FirstLevel
<1>3. ASSUME NEW j \in Nat, j \in S PROVE j + 1 \in S
  <2>1. /\ G[j + 1].Sum = G[j].Sum + G[j].NInLevel * R
        /\ G[j + 1].NInLevel = G[j].NInLevel * R
    BY <1>1, LargerIs DEF IsLevels
  <2>2. G[j].NInLevel * R \in Nat /\ G[j].NInLevel * R >= G[j].NInLevel
    BY <1>1, <1>3, ProductInNat
  <2>3. G[j].NInLevel > 0 /\ G[j].Sum > j /\ G[j].Sum \in Nat /\ G[j].NInLevel \in Nat
    BY <1>1, <1>3
  <2>4. Good(j + 1)
    BY <2>1, <2>2, <2>3
  <2> QED
    BY <2>4
<1>4. \A j \in Nat : j \in S
  <2> HIDE DEF S
  <2> QED
    BY <1>2, <1>3, Induct
<1>5. \A j \in Nat : Start(G[j + 1]) = G[j].Sum
  BY <1>1, LargerIs DEF IsLevels
<1>6. ASSUME NEW i \in Nat PROVE \A d \in Nat : G[i].Sum <= Start(G[(i + 1) + d])
  <2> DEFINE T == {d \in Nat : G[i].Sum <= Start(G[(i + 1) + d])}
  <2>1. 0 \in T
    BY <1>1, <1>5
  <2>2. ASSUME NEW d \in Nat, d \in T PROVE d + 1 \in T
    <3> DEFINE k == (i + 1) + d
    <3>1. k \in Nat /\ (i + 1) + (d + 1) = k + 1
      OBVIOUS
    <3>2. Start(G[k + 1]) = G[k].Sum
      BY <1>5, <3>1
    <3>3. Start(G[k]) <= G[k].Sum
      BY <1>1, <3>1 DEF Start
    <3>4. G[i].Sum <= Start(G[k])
      BY <2>2
    <3>5. G[i].Sum \in Nat /\ G[k].Sum \in Nat /\ Start(G[k]) \in Int
      BY <1>1, <3>1 DEF Start
    <3> HIDE DEF k
    <3>6. G[i].Sum <= Start(G[k + 1])
      BY <3>2, <3>3, <3>4, <3>5
    <3> QED
      BY <3>1, <3>6
  <2> HIDE DEF T
  <2>3. \A d \in Nat : d \in T
    BY <2>1, <2>2, Induct
  <2> QED
    BY <2>3 DEF T
<1>7. ASSUME NEW i \in Nat, NEW j \in Nat, i < j PROVE G[i].Sum <= Start(G[j])
  <2>1. j - (i + 1) \in Nat /\ (i + 1) + (j - (i + 1)) = j
    BY <1>7
  <2> QED
    BY <2>1, <1>6
<1> QED
  BY <1>1, <1>4, <1>5, <1>7

\* The loop of radix_tree stops at the level that has the rank.
LEMMA LevelIs ==
    ASSUME NEW R \in Nat \ {0}, NEW G, IsLevels(G, R), NEW r \in Nat
    PROVE  \E j \in Nat : Level(R, r) = G[j] /\ Has(G[j], r)
<1> DEFINE Step == [l \in Counts |-> Round(R, r, l)]
           IsAfter(F) == F = [k \in Nat |-> IF k = 0 THEN [Sum |-> 1, NInLevel |-> 1]
                                            ELSE Round(R, r, F[k - 1])]
           A == CHOOSE F : IsAfter(F)
<1>0. \A l \in Counts : Round(R, r, l) = IF l.Sum < r + 1 THEN Larger(l, R) ELSE l
  BY DEF Round, Larger
<1>1. Step \in [Counts -> Counts] /\ FirstLevel \in Counts
  <2>1. FirstLevel \in Counts
    BY DEF FirstLevel, Counts
  <2>2. \A l \in Counts : Round(R, r, l) \in Counts
    BY <1>0, LargerIs
  <2> QED
    BY <2>1, <2>2
<1>2. PICK F \in [Nat -> Counts] : \A n \in Nat : Stepwise(F, FirstLevel, Step, n)
  <2> HIDE DEF Step
  <2> QED
    BY <1>1, StepsForever
<1>3. F[0] = FirstLevel
  BY <1>2 DEF Stepwise
<1>4. ASSUME NEW k \in Nat PROVE F[k + 1] = Round(R, r, F[k])
  <2>1. Stepwise(F, FirstLevel, Step, k + 1)
    BY <1>2
  <2>2. F[k + 1] = Step[F[k]]
    BY <2>1 DEF Stepwise
  <2> QED
    BY <2>2
<1>5. IsAfter(F)
  <2>1. ASSUME NEW k \in Nat
        PROVE  F[k] = IF k = 0 THEN [Sum |-> 1, NInLevel |-> 1] ELSE Round(R, r, F[k - 1])
    <3>1. k # 0 => k - 1 \in Nat /\ (k - 1) + 1 = k
      OBVIOUS
    <3> QED
      BY <3>1, <1>3, <1>4 DEF FirstLevel
  <2> HIDE DEF Step
  <2> QED
    BY <2>1
<1>6. IsAfter(A)
  <2> HIDE DEF IsAfter
  <2> QED
    BY <1>5
<1>7. Level(R, r) = A[r]
  BY DEF Level
<1> HIDE DEF A
<1>8. \A k \in Nat : A[k] = IF k = 0 THEN FirstLevel ELSE Round(R, r, A[k - 1])
  BY <1>6 DEF FirstLevel
<1> HIDE DEF IsAfter
<1> DEFINE Good(k) == \E j \in Nat : /\ A[k] = G[j] /\ Start(G[j]) <= r
                                     /\ j = k \/ r < G[j].Sum
           S == {k \in Nat : Good(k)}
<1>9. 0 \in S
  <2>1. A[0] = G[0] /\ Start(G[0]) = 0
    BY <1>8 DEF IsLevels, FirstLevel, Start
  <2> QED
    BY <2>1
<1>10. ASSUME NEW k \in Nat, k \in S PROVE k + 1 \in S
  <2>1. PICK j \in Nat : A[k] = G[j] /\ Start(G[j]) <= r /\ (j = k \/ r < G[j].Sum)
    BY <1>10
  <2>2. A[k + 1] = Round(R, r, G[j])
    BY <2>1, <1>8
  <2>3. G[j] \in Counts /\ G[j].Sum \in Nat
    BY DEF IsLevels, Counts
  <2>4. CASE G[j].Sum < r + 1
    <3>1. A[k + 1] = G[j + 1]
      BY <2>2, <2>3, <2>4, <1>0 DEF IsLevels
    <3>2. Start(G[j + 1]) <= r
      BY <2>3, <2>4, LevelFacts
    <3>3. j = k
      BY <2>1, <2>3, <2>4
    <3> QED
      BY <3>1, <3>2, <3>3
  <2>5. CASE ~(G[j].Sum < r + 1)
    <3>1. A[k + 1] = G[j] /\ r < G[j].Sum
      BY <2>2, <2>3, <2>5, <1>0
    <3>2. Good(k + 1)
      BY <3>1, <2>1
    <3> QED
      BY <3>2
  <2> QED
    BY <2>4, <2>5
<1>11. r \in S
  <2> HIDE DEF S
  <2> QED
    BY <1>9, <1>10, Induct
<1>12. PICK j \in Nat : A[r] = G[j] /\ Start(G[j]) <= r /\ (j = r \/ r < G[j].Sum)
  BY <1>11
<1>13. r < G[j].Sum
  BY <1>12, LevelFacts
<1> QED
  BY <1>7, <1>12, <1>13 DEF Has

\* No rank is on two levels.
LEMMA LevelOf ==
    ASSUME NEW R \in Nat \ {0}, NEW G, IsLevels(G, R), NEW r \in Nat,
           NEW j \in Nat, Has(G[j], r)
    PROVE  Level(R, r) = G[j]
<1>1. PICK i \in Nat : Level(R, r) = G[i] /\ Has(G[i], r)
  BY LevelIs
<1>2. /\ G[i].Sum \in Nat /\ G[j].Sum \in Nat
      /\ Start(G[i]) \in Int /\ Start(G[j]) \in Int
  BY LevelFacts DEF Start
<1>3. ~(i < j)
  <2>1. i < j => G[i].Sum <= Start(G[j])
    BY LevelFacts
  <2> QED
    BY <2>1, <1>1, <1>2 DEF Has
<1>4. ~(j < i)
  <2>1. j < i => G[j].Sum <= Start(G[i])
    BY LevelFacts
  <2> QED
    BY <2>1, <1>1, <1>2 DEF Has
<1>5. i = j
  BY <1>3, <1>4
<1> QED
  BY <1>1, <1>5

\* Quotient and rest.
LEMMA DivMod ==
    /\ \A a \in Nat, w \in Nat \ {0} :
          a % w \in 0..(w - 1) /\ a \div w \in Nat /\ a = w * (a \div w) + (a % w)
    /\ \A w \in Nat \ {0}, k \in Nat : \A m \in 0..(w - 1) : (w * k + m) % w = m
    /\ \A w \in Nat \ {0}, k \in Nat \ {0} : (w * k) \div k = w
<1>1. \A a \in Nat, w \in Nat \ {0} :
          a % w \in 0..(w - 1) /\ a \div w \in Nat /\ a = w * (a \div w) + (a % w)
  <2>1. \A a \in Nat, w \in Nat \ {0} : a % w \in 0..(w - 1)
    OBVIOUS
  <2>2. \A a \in Nat, w \in Nat \ {0} : a \div w \in Nat
    OBVIOUS
  <2>3. \A a \in Nat, w \in Nat \ {0} : a = w * (a \div w) + (a % w)
    OBVIOUS
  <2> QED
    BY <2>1, <2>2, <2>3
<1>2. \A w \in Nat \ {0}, x, y \in Int : w * x - w * y = w * (x - y)
  OBVIOUS
<1>3. \A w \in Nat \ {0}, z \in Int : w * z < w /\ -w < w * z => z = 0
  <2> SUFFICES ASSUME NEW w \in Nat \ {0}, NEW z \in Int, w * z < w, -w < w * z, z # 0
               PROVE FALSE
    OBVIOUS
  <2>1. CASE z > 0
    <3>1. w * z >= w
      BY <2>1, ProductInNat
    <3>2. w * z \in Int
      OBVIOUS
    <3> QED
      BY <3>1, <3>2
  <2>2. CASE z < 0
    <3>1. w * (-z) >= w
      BY <2>2, ProductInNat
    <3>2. w * (-z) = -(w * z) /\ w * z \in Int
      OBVIOUS
    <3> QED
      BY <3>1, <3>2
  <2> QED
    BY <2>1, <2>2
<1>4. ASSUME NEW w \in Nat \ {0}, NEW k \in Nat, NEW m \in 0..(w - 1)
      PROVE  (w * k + m) % w = m
  <2> DEFINE a == w * k + m
             q == a \div w
             s == a % w
  <2>1. w * k \in Nat
    BY ProductInNat
  <2>2. a \in Nat
    BY <2>1
  <2>3. s \in 0..(w - 1) /\ q \in Nat /\ a = w * q + s
    BY <2>2, <1>1
  <2> HIDE DEF q, s
  <2>4. w * q \in Nat
    BY <2>3, ProductInNat
  <2>5. w * k - w * q = s - m
    BY <2>1, <2>3, <2>4
  <2>6. w * k - w * q = w * (k - q)
    BY <1>2, <2>3
  <2>7. w * (k - q) < w /\ -w < w * (k - q)
    BY <2>3, <2>5, <2>6
  <2>8. k - q = 0
    BY <1>3, <2>3, <2>7
  <2>9. s = m
    BY <2>3, <2>5, <2>8
  <2> QED
    BY <2>9 DEF s
<1>5. ASSUME NEW w \in Nat \ {0}, NEW k \in Nat \ {0} PROVE (w * k) \div k = w
  <2> DEFINE a == w * k
             q == a \div k
  <2>1. a \in Nat
    BY ProductInNat
  <2>2. a % k \in 0..(k - 1) /\ q \in Nat /\ a = k * q + (a % k)
    BY <2>1, <1>1
  <2>3. a = k * w
    OBVIOUS
  <2> HIDE DEF a, q
  <2>4. k * w - k * q = k * (w - q)
    BY <1>2, <2>2
  <2>5. k * w \in Nat /\ k * q \in Nat
    BY <2>2, ProductInNat
  <2>6. k * (w - q) < k /\ -k < k * (w - q)
    BY <2>2, <2>3, <2>4, <2>5
  <2>7. w - q = 0
    BY <1>3, <2>2, <2>6
  <2> QED
    BY <2>2, <2>7 DEF q, a
<1> QED
  BY <1>1, <1>4, <1>5

\* The level above that of c has its parent, and c is one of its children there.
LEMMA RadixUp ==
    ASSUME NEW R \in Nat \ {0}, NEW n \in Nat, NEW c \in Ranks(n) \ {0}
    PROVE  LET p == radix_parent(R, c)
           IN p \in Ranks(n) /\ p < c /\ c \in radix_children(R, n, p)
<1>0. c \in Nat \ {0} /\ c < n
  BY DEF Ranks
<1>1. PICK G : IsLevels(G, R)
  BY LevelsExist
<1>2. PICK j \in Nat : Level(R, c) = G[j] /\ Has(G[j], c)
  BY <1>0, <1>1, LevelIs
<1>3. j # 0
  <2>1. G[0].Sum = 1
    BY <1>1 DEF IsLevels, FirstLevel
  <2> QED
    BY <2>1, <1>0, <1>2 DEF Has
<1> DEFINE i == j - 1
           S == G[i].Sum
           W == G[i].NInLevel
<1>4. i \in Nat /\ i + 1 = j
  BY <1>3
<1>5. S \in Nat /\ W \in Nat \ {0} /\ S >= W /\ Start(G[i]) = S - W
  BY <1>1, <1>4, LevelFacts DEF Start
<1>6. G[j].Sum = S + W * R /\ G[j].NInLevel = W * R /\ Start(G[j]) = S
  <2>1. G[j] = Larger(G[i], R) /\ G[i] \in Counts
    BY <1>1, <1>4 DEF IsLevels
  <2> HIDE DEF i
  <2> QED
    BY <2>1, LargerIs
<1>7. W * R \in Nat
  BY <1>5, ProductInNat
<1>8. S <= c /\ c < S + W * R
  BY <1>2, <1>6 DEF Has
<1>9. (W * R) \div R = W
  BY <1>5, DivMod
<1> DEFINE a == c - S
           m == a % W
           q == a \div W
           p == m + (S - W)
<1>10. radix_parent(R, c) = p
  <2>1. (S + W * R) - W * R = S
    BY <1>5, <1>7
  <2> QED
    BY <1>0, <1>2, <1>6, <1>9, <2>1 DEF radix_parent
<1>11. a \in Nat /\ a < W * R
  BY <1>0, <1>5, <1>7, <1>8
<1>12. m \in 0..(W - 1) /\ q \in Nat /\ a = W * q + m
  BY <1>5, <1>11, DivMod
<1> HIDE DEF m, q
<1>13. p \in Nat /\ p < c /\ p < n /\ Has(G[i], p)
  <2>1. p < S /\ S - W <= p /\ p \in Nat
    BY <1>5, <1>12
  <2> QED
    BY <2>1, <1>0, <1>5, <1>8 DEF Has
<1>14. Level(R, p) = G[i]
  <2> HIDE DEF p, i
  <2> QED
    BY <1>1, <1>4, <1>13, LevelOf
<1>15. c = p + (q + 1) * W
  <2>0. \A x \in Nat, y \in Nat : (x + 1) * y = y * x + y
    OBVIOUS
  <2>1. (q + 1) * W = W * q + W
    BY <2>0, <1>5, <1>12
  <2>2. W * q \in Nat
    BY <1>5, <1>12, ProductInNat
  <2>3. c = S + a
    BY <1>0, <1>5
  <2> QED
    BY <2>1, <2>2, <2>3, <1>5, <1>12
<1>16. q < R
  <2> SUFFICES ASSUME q >= R PROVE FALSE
    BY <1>12
  <2>1. W * q = W * R + W * (q - R)
    BY <1>5, <1>12
  <2>2. W * (q - R) \in Nat
    BY <1>5, <1>12, ProductInNat
  <2> HIDE DEF a, W
  <2> QED
    BY <2>1, <2>2, <1>5, <1>7, <1>11, <1>12
<1>17. q + 1 \in 1..R
  BY <1>12, <1>16
<1>18. c \in radix_children(R, n, p)
  <2> HIDE DEF p, q, W
  <2>1. c \in {p + k * W : k \in 1..R}
    BY <1>15, <1>17
  <2>2. Level(R, p).NInLevel = W
    BY <1>14 DEF W
  <2> QED
    BY <2>1, <2>2 DEF radix_children
<1> QED
  BY <1>10, <1>13, <1>18 DEF Ranks

\* A child's parent is who has it as a child.
LEMMA RadixDown ==
    ASSUME NEW R \in Nat \ {0}, NEW n \in Nat, NEW p \in Ranks(n),
           NEW c \in radix_children(R, n, p)
    PROVE  c \in Ranks(n) \ {0} /\ radix_parent(R, c) = p
<1>0. p \in Nat /\ p < n
  BY DEF Ranks
<1>1. PICK G : IsLevels(G, R)
  BY LevelsExist
<1>2. PICK i \in Nat : Level(R, p) = G[i] /\ Has(G[i], p)
  BY <1>0, <1>1, LevelIs
<1> DEFINE S == G[i].Sum
           W == G[i].NInLevel
           j == i + 1
<1>5. S \in Nat /\ W \in Nat \ {0} /\ S >= W /\ Start(G[i]) = S - W
  BY <1>1, LevelFacts DEF Start
<1>6. G[j].Sum = S + W * R /\ G[j].NInLevel = W * R /\ Start(G[j]) = S
  <2>1. G[i + 1] = Larger(G[i], R) /\ G[i] \in Counts
    BY <1>1 DEF IsLevels
  <2> QED
    BY <2>1, LargerIs
<1>7. W * R \in Nat
  BY <1>5, ProductInNat
<1>8. S - W <= p /\ p < S
  BY <1>2, <1>5 DEF Has
<1>9. (W * R) \div R = W
  BY <1>5, DivMod
<1>10. PICK k \in 1..R : c = p + k * W
  BY <1>2 DEF radix_children
<1>11. c \in Ranks(n)
  BY DEF radix_children
<1> DEFINE m == p - (S - W)
<1>12. m \in 0..(W - 1)
  BY <1>0, <1>5, <1>8
<1>13. k * W = W + W * (k - 1) /\ W * (k - 1) \in Nat
  <2>1. k - 1 \in Nat
    OBVIOUS
  <2> QED
    BY <2>1, <1>5, ProductInNat
<1>14. c - S = W * (k - 1) + m
  BY <1>0, <1>5, <1>10, <1>13
<1>15. c \in Nat /\ S <= c /\ c < S + W * R
  <2>1. W * R = W * k + W * (R - k)
    BY <1>5
  <2>2. W * (R - k) \in Nat /\ W * k \in Nat /\ W * k = k * W
    BY <1>5, ProductInNat
  <2>3. \A s, w, x, y, z \in Nat : \A l \in 0..(w - 1) :
           /\ y = w + x => s + (x + l) \in Nat /\ s <= s + (x + l)
           /\ y = w + x => s + (x + l) < s + (y + z)
    OBVIOUS
  <2>4. c = S + (W * (k - 1) + m)
    BY <1>0, <1>5, <1>10, <1>13
  <2> HIDE DEF W, S, m
  <2> QED
    BY <2>1, <2>2, <2>3, <2>4, <1>5, <1>12, <1>13
<1>16. c \in Nat \ {0}
  BY <1>5, <1>15
<1>17. Has(G[j], c)
  BY <1>6, <1>15 DEF Has
<1>18. Level(R, c) = G[j]
  <2> HIDE DEF j
  <2>1. j \in Nat
    BY DEF j
  <2> QED
    BY <2>1, <1>1, <1>16, <1>17, LevelOf
<1>19. (c - S) % W = m
  <2>1. k - 1 \in Nat
    OBVIOUS
  <2> HIDE DEF W, S, m
  <2>2. (W * (k - 1) + m) % W = m
    BY <2>1, <1>5, <1>12, DivMod
  <2> QED
    BY <2>2, <1>14
<1>20. radix_parent(R, c) = m + (S - W)
  <2>1. (S + W * R) - W * R = S
    BY <1>5, <1>7
  <2> QED
    BY <1>16, <1>18, <1>6, <1>9, <1>19, <2>1 DEF radix_parent
<1> QED
  BY <1>0, <1>5, <1>11, <1>16, <1>20

-----------------------------------------------------------------------------
(* What the members compute is one tree. *)

BinomKids(n) == [p \in Ranks(n) |-> binom_children(n, p)]
BinomUps(n) == [c \in Ranks(n) |-> CHOOSE p \in Ranks(n) : c \in binom_children(n, p)]

\* The children that binomial_tree computes make a tree.
LEMMA BinomIsTree == ASSUME NEW n \in Nat PROVE IsTree(n, BinomKids(n), BinomUps(n))
<1> DEFINE K == BinomKids(n)
           U == BinomUps(n)
<1>1. ASSUME NEW c \in Ranks(n) \ {0}
      PROVE  U[c] \in Ranks(n) /\ U[c] < c /\ \A q \in Ranks(n) : c \in K[q] <=> q = U[c]
  <2>1. PICK p \in Ranks(n) :
           p < c /\ \A q \in Ranks(n) : c \in binom_children(n, q) <=> q = p
    BY BinomUp
  <2>2. U[c] = CHOOSE q \in Ranks(n) : c \in binom_children(n, q)
    BY DEF BinomUps
  <2>3. U[c] = p
    BY <2>1, <2>2
  <2>4. \A q \in Ranks(n) : K[q] = binom_children(n, q)
    BY DEF BinomKids
  <2> QED
    BY <2>1, <2>3, <2>4
<1>2. ASSUME NEW p \in Ranks(n) PROVE K[p] = {c \in Ranks(n) \ {0} : U[c] = p}
  <2>1. K[p] \subseteq Ranks(n) \ {0}
    <3> SUFFICES ASSUME NEW c \in K[p] PROVE c \in Ranks(n) /\ c # 0
      OBVIOUS
    <3>1. c \in binom_children(n, p)
      BY DEF BinomKids
    <3>2. c \in Ranks(n) /\ \E i \in Nat : p < Bit[i] /\ c = p + Bit[i]
      BY <3>1, BinomChildren
    <3>3. p \in Nat /\ \A i \in Nat : Bit[i] \in Nat /\ Bit[i] > 0
      BY BitFacts DEF Ranks
    <3> QED
      BY <3>2, <3>3
  <2> QED
    BY <1>1, <2>1
<1> QED
  BY <1>1, <1>2 DEF IsTree

\* The search of binomial_tree from rank 0 finds the rank that has us as a child.
LEMMA BinomParent ==
    ASSUME NEW n \in Nat \ {0}, NEW me \in Ranks(n) \ {0}
    PROVE  binom_parent(n, me) = BinomUps(n)[me]
<1> DEFINE K == BinomKids(n)
           U == BinomUps(n)
           u == U[me]
           hits(F, r) == {c \in binom_children(n, r) : F[c] >= 0}
           Body(F, r) == IF me \in binom_children(n, r) THEN r
                         ELSE IF hits(F, r) = {} THEN -1
                         ELSE F[CHOOSE c \in hits(F, r) : \A d \in hits(F, r) : c <= d]
           IsSearch(F) == F = [r \in Ranks(n) |-> Body(F, r)]
<1>1. IsTree(n, K, U)
  BY BinomIsTree
<1>2. PICK B : IsBelow(B, n, K)
  <2> HIDE DEF K, U
  <2> QED
    BY <1>1, BelowExists
<1>3. u \in Ranks(n) /\ u \in Nat
  BY <1>1 DEF IsTree, Ranks
<1>4. \A r \in Ranks(n) : K[r] = binom_children(n, r) /\ K[r] \subseteq Ranks(n)
  <2>1. \A r \in Ranks(n) : K[r] = binom_children(n, r)
    BY DEF BinomKids
  <2>2. \A r \in Ranks(n) : K[r] \subseteq Ranks(n)
    BY <1>1 DEF IsTree
  <2> QED
    BY <2>1, <2>2
<1>5. \A r \in Ranks(n) : me \in K[r] => r = u
  BY <1>1 DEF IsTree
<1>6. \A r \in Ranks(n) : B[r] = UNION {At(B, c) : c \in K[r]}
  <2> HIDE DEF K
  <2> QED
    BY <1>2, BelowIs
<1>7. me \in B[0]
  <2> HIDE DEF K, U
  <2> QED
    BY <1>1, <1>2, AllBelowRoot
<1>8. \A r \in Ranks(n) : \A c \in K[r] : c \in Nat /\ r < c
  BY <1>1 DEF IsTree, Ranks
<1> HIDE DEF K, U
<1> DEFINE Is(F, r) == F[r] = IF me \in B[r] THEN u ELSE -1
<1>9. ASSUME NEW F, NEW r \in Ranks(n), \A c \in K[r] : Is(F, c)
      PROVE  Body(F, r) = IF me \in B[r] THEN u ELSE -1
  <2>1. CASE me \in K[r]
    <3>1. me \in B[r]
      BY <2>1, <1>6 DEF At
    <3> QED
      BY <2>1, <3>1, <1>4, <1>5
  <2>2. CASE me \notin K[r]
    <3> DEFINE H == hits(F, r)
    <3>1. H = {c \in K[r] : me \in B[c]}
      BY <1>3, <1>4, <1>9
    <3>2. me \in B[r] <=> H # {}
      BY <2>2, <3>1, <1>6 DEF At
    <3>3. me \notin binom_children(n, r)
      BY <2>2, <1>4
    <3>4. H = {} => Body(F, r) = -1
      BY <3>3
    <3>5. ASSUME H # {} PROVE Body(F, r) = u
      <4> DEFINE m == CHOOSE c \in H : \A d \in H : c <= d
      <4>1. H \in SUBSET Nat
        BY <3>1, <1>8
      <4> HIDE DEF H
      <4>2. m \in H
        <5>1. \E c \in H : \A d \in H : c <= d
          BY <4>1, <3>5, Least
        <5> QED
          BY <5>1
      <4>3. F[m] = u
        <5> HIDE DEF m
        <5> QED
          BY <4>2, <3>1, <1>9
      <4>4. Body(F, r) = F[m]
        BY <3>3, <3>5 DEF H
      <4> QED
        BY <4>3, <4>4
    <3> QED
      BY <3>2, <3>4, <3>5
  <2> QED
    BY <2>1, <2>2
<1> HIDE DEF Body
<1> DEFINE E == [r \in Ranks(n) |-> IF me \in B[r] THEN u ELSE -1]
<1>10. IsSearch(E)
  <2>1. \A r \in Ranks(n) : Is(E, r)
    OBVIOUS
  <2>2. \A r \in Ranks(n) : E[r] = Body(E, r)
    <3> HIDE DEF E
    <3> SUFFICES ASSUME NEW r \in Ranks(n) PROVE E[r] = Body(E, r)
      OBVIOUS
    <3>1. \A c \in K[r] : Is(E, c)
      BY <2>1, <1>4
    <3>2. Body(E, r) = IF me \in B[r] THEN u ELSE -1
      BY <3>1, <1>9
    <3> QED
      BY <3>2, <2>1
  <2>3. E = [r \in Ranks(n) |-> E[r]]
    OBVIOUS
  <2> HIDE DEF E
  <2> QED
    BY <2>2, <2>3
<1> DEFINE Search == CHOOSE F : IsSearch(F)
<1>11. IsSearch(Search)
  <2> HIDE DEF IsSearch, E
  <2> QED
    BY <1>10
<1>12. binom_parent(n, me) = Search[0]
  <2>1. me # 0
    OBVIOUS
  <2> QED
    BY <2>1 DEF binom_parent, Body
<1> HIDE DEF Search
<1>13. \A r \in Ranks(n) : Search[r] = Body(Search, r)
  BY <1>11
<1> HIDE DEF IsSearch, E
<1>14. \A r \in Ranks(n) : Is(Search, r)
  <2> DEFINE S == {r \in Ranks(n) : Is(Search, r)}
  <2>1. ASSUME NEW r \in Ranks(n), \A c \in Ranks(n) : r < c => c \in S
        PROVE  r \in S
    <3>1. \A c \in K[r] : Is(Search, c)
      BY <2>1, <1>4, <1>8
    <3>2. Body(Search, r) = IF me \in B[r] THEN u ELSE -1
      BY <3>1, <1>9
    <3> QED
      BY <3>2, <1>13
  <2>2. \A r \in Ranks(n) : r \in S
    <3> HIDE DEF S
    <3> QED
      BY <2>1, StrongDown
  <2> QED
    BY <2>2
<1>15. 0 \in Ranks(n)
  BY DEF Ranks
<1> QED
  BY <1>7, <1>12, <1>14, <1>15 DEF U

-----------------------------------------------------------------------------
IsTopology(t) ==
    /\ t \in [tree : {"radix", "binom"}, radix : Nat, n : Nat \ {0}]
    /\ t.tree = "radix" => t.radix > 0
Kids(t) == [p \in Ranks(t.n) |-> children(t, p)]
Ups(t) == [c \in Ranks(t.n) |-> parent(t, c)]

\* Parents and children of either topology fit together to a tree.
LEMMA TopologyIsTree ==
    ASSUME NEW t, IsTopology(t)
    PROVE  IsTree(t.n, Kids(t), Ups(t)) /\ parent(t, 0) \in {Invalid, 0}
<1>1. t.n \in Nat \ {0} /\ 0 \in Ranks(t.n)
  BY DEF IsTopology, Ranks
<1>2. CASE t.tree = "radix"
  <2>1. t.radix \in Nat \ {0}
    BY <1>2 DEF IsTopology
  <2>2. \A p \in Ranks(t.n) : Kids(t)[p] = radix_children(t.radix, t.n, p)
    BY <1>2 DEF Kids, children
  <2>3. \A c \in Ranks(t.n) : Ups(t)[c] = radix_parent(t.radix, c)
    BY <1>2 DEF Ups, parent
  <2>4. \A c \in Ranks(t.n) \ {0} :
           /\ Ups(t)[c] \in Ranks(t.n) /\ Ups(t)[c] < c
           /\ c \in Kids(t)[Ups(t)[c]]
    BY <1>1, <2>1, <2>2, <2>3, RadixUp
  <2>5. \A p \in Ranks(t.n) : \A c \in Kids(t)[p] :
           c \in Ranks(t.n) \ {0} /\ Ups(t)[c] = p
    BY <1>1, <2>1, <2>2, <2>3, RadixDown
  <2>6. parent(t, 0) = Invalid
    BY <1>2 DEF parent, radix_parent
  <2>7. IsTree(t.n, Kids(t), Ups(t))
    BY <2>4, <2>5 DEF IsTree
  <2> QED
    BY <2>6, <2>7
<1>3. CASE t.tree # "radix"
  <2>1. Kids(t) = BinomKids(t.n)
    BY <1>3 DEF Kids, children, BinomKids
  <2>2. \A c \in Ranks(t.n) \ {0} : Ups(t)[c] = BinomUps(t.n)[c]
    BY <1>1, <1>3, BinomParent DEF Ups, parent
  <2>3. IsTree(t.n, BinomKids(t.n), BinomUps(t.n))
    BY <1>1, BinomIsTree
  <2>4. parent(t, 0) = 0
    BY <1>3 DEF parent, binom_parent
  <2>5. IsTree(t.n, Kids(t), Ups(t))
    BY <2>1, <2>2, <2>3 DEF IsTree
  <2> QED
    BY <2>4, <2>5
<1> QED
  BY <1>2, <1>3

\* `relatives` is what is below.
LEMMA RelativesAreBelow ==
    ASSUME NEW t, IsTopology(t)
    PROVE  \E B : IsBelow(B, t.n, Kids(t)) /\ \A r \in Ranks(t.n) : relatives(t, r) = B[r]
<1> DEFINE IsB(F) == F = [r \in Ranks(t.n) |-> UNION {{c} \cup F[c] : c \in children(t, r)}]
           B == CHOOSE F : IsB(F)
<1>1. t.n \in Nat
  BY DEF IsTopology
<1>2. \A F : IsBelow(F, t.n, Kids(t)) <=> IsB(F)
  BY DEF IsBelow, Kids
<1>3. \E F : IsBelow(F, t.n, Kids(t))
  BY <1>1, TopologyIsTree, BelowExists
<1>4. IsB(B)
  <2> HIDE DEF IsB
  <2> QED
    BY <1>2, <1>3
<1>5. \A r \in Ranks(t.n) : relatives(t, r) = B[r]
  BY DEF relatives
<1> QED
  BY <1>2, <1>4, <1>5

-----------------------------------------------------------------------------
(* The inductive invariant. *)

\* What was computed when the topology was updated stays.
Computed ==
    /\ topo \in Topologies
    /\ myparent_id = [p \in Member |-> parent(topo, p)]
    /\ below = [c \in NonRoot |-> relatives(topo, c)]

Links ==
    /\ my_peers \in [Member -> SUBSET Member]
    /\ \A p \in Member : my_peers[p] \subseteq children(topo, p)

Subtree(p) == {p} \cup Branch(p)

\* The message has been going up, out of branches where the target is not; or
\* it is going down to the target, and has not been below.
Climbing == \A p \in visited :
    /\ p \in Branch(at) /\ target \notin Subtree(p)
    /\ myparent_id[p] \in visited \cup {at}
Descending == target \in Subtree(at) /\ visited \cap Subtree(at) = {}

OnItsWay ==
    /\ target \in Member \cup {Everyone}
    /\ at \in Member \cup {Invalid}
    /\ visited \subseteq Member
    /\ target = Everyone => at = Invalid
    /\ (target # Everyone /\ \A p \in visited : Intact(p, target)) =>
          at \in Member /\ (Climbing \/ Descending)

\* The xcast has come to a member, and only then it is sent to its children.
Relayed ==
    /\ sent \subseteq Member
    /\ copies \in [Member -> {0, 1}]
    /\ target # Everyone => sent = {}
    /\ target = Everyone =>
          /\ 0 \in sent \/ copies[0] = 1
          /\ \A p \in sent : copies[p] = 0
          /\ \A p \in NonRoot : p \in sent \/ copies[p] = 1 => copies[myparent_id[p]] = 1
          /\ \A c \in NonRoot \ Lost : copies[myparent_id[c]] = 1 => c \in sent \/ copies[c] = 1

IInv == Computed /\ Links /\ OnItsWay /\ Relayed

-----------------------------------------------------------------------------
(* The tree of a state. *)

TreeFacts ==
    /\ topo.n \in Nat \ {0} /\ 0 \in Member
    /\ \A c \in NonRoot : myparent_id[c] \in Member /\ myparent_id[c] < c
    /\ \A p \in Member : myparent_id[p] \in Member \cup {Invalid}
    /\ \A p \in Member : children(topo, p) = {c \in NonRoot : myparent_id[c] = p}
    /\ \A p \in Member : Branch(p) = UNION {Subtree(c) : c \in children(topo, p)}
    /\ \A p \in Member : p \notin Branch(p) /\ Branch(p) \subseteq NonRoot
    /\ \A p \in Member : \A r \in Branch(p) : myparent_id[r] \in Subtree(p)
    /\ \A p \in Member : \A x \in NonRoot : myparent_id[x] \in Subtree(p) => x \in Branch(p)
    /\ \A p \in Member : \A c, d \in children(topo, p) :
          c # d => Subtree(c) \cap Subtree(d) = {}
    /\ \A c \in NonRoot : Branch(c) = below[c]
    /\ Branch(0) = NonRoot

\* It is there in every state.
LEMMA ComputedIsTree == ASSUME RoutingAssumption, Computed PROVE TreeFacts
<1> DEFINE n == topo.n
           K == Kids(topo)
           U == Ups(topo)
<1>1. IsTopology(topo)
  BY DEF RoutingAssumption, Computed, IsTopology
<1>2. n \in Nat \ {0} /\ n \in Nat /\ 0 \in Ranks(n)
  BY <1>1 DEF IsTopology, Ranks
<1>3. IsTree(n, K, U) /\ parent(topo, 0) \in {Invalid, 0}
  BY <1>1, TopologyIsTree
<1>4. PICK B : IsBelow(B, n, K) /\ \A r \in Ranks(n) : relatives(topo, r) = B[r]
  BY <1>1, RelativesAreBelow
<1>5. Member = Ranks(n) /\ NonRoot = Ranks(n) \ {0}
  BY DEF Member, NonRoot
<1>6. \A p \in Member : myparent_id[p] = U[p] /\ children(topo, p) = K[p]
  BY <1>5 DEF Computed, Ups, Kids
<1>7. \A c \in NonRoot : below[c] = B[c]
  BY <1>4, <1>5 DEF Computed
<1> HIDE DEF K, U, n
<1>8. \A p \in Member : Branch(p) = B[p]
  <2>1. B[0] = Ranks(n) \ {0}
    BY <1>2, <1>3, <1>4, AllBelowRoot
  <2> QED
    BY <2>1, <1>5, <1>7 DEF Branch
<1>9. \A p \in Member : Subtree(p) = At(B, p)
  BY <1>8 DEF Subtree, At
<1>10. \A p \in Member : \A x \in B[p] :
          x \in Ranks(n) \ {0} /\ p < x /\ U[x] \in At(B, p)
  BY <1>2, <1>3, <1>4, <1>5, BelowUp
<1>11. \A p \in Member : \A x \in Ranks(n) \ {0} : U[x] \in At(B, p) => x \in B[p]
  BY <1>2, <1>3, <1>4, <1>5, BelowDown
<1>12. \A c \in NonRoot : myparent_id[c] \in Member /\ myparent_id[c] < c
  BY <1>3, <1>5, <1>6 DEF IsTree
<1>13. \A p \in Member : myparent_id[p] \in Member \cup {Invalid}
  <2>1. myparent_id[0] \in {Invalid, 0}
    BY <1>2, <1>3, <1>5 DEF Computed
  <2> QED
    BY <2>1, <1>2, <1>5, <1>12
<1>14. \A p \in Member : children(topo, p) = {c \in NonRoot : myparent_id[c] = p}
  <2>1. \A p \in Member : K[p] = {c \in NonRoot : U[c] = p}
    BY <1>3, <1>5 DEF IsTree
  <2>2. NonRoot \subseteq Member
    BY <1>5
  <2> QED
    BY <2>1, <2>2, <1>6
<1>15. \A p \in Member : Branch(p) = UNION {Subtree(c) : c \in children(topo, p)}
  <2> SUFFICES ASSUME NEW p \in Member
               PROVE  Branch(p) = UNION {Subtree(c) : c \in children(topo, p)}
    OBVIOUS
  <2>1. B[p] = UNION {At(B, c) : c \in K[p]}
    BY <1>4, <1>5, BelowIs
  <2>2. K[p] \subseteq Member
    BY <1>5, <1>6, <1>14
  <2>3. \A c \in K[p] : At(B, c) = Subtree(c)
    BY <2>2, <1>9
  <2>4. UNION {At(B, c) : c \in K[p]} = UNION {Subtree(c) : c \in K[p]}
    BY <2>3
  <2> QED
    BY <2>1, <2>4, <1>6, <1>8
<1>16. \A p \in Member : p \notin Branch(p) /\ Branch(p) \subseteq NonRoot
  <2>1. \A p \in Member : p \in Nat
    BY <1>2, <1>5 DEF Ranks
  <2> QED
    BY <2>1, <1>5, <1>8, <1>10
<1>17. \A p \in Member : \A r \in Branch(p) : myparent_id[r] \in Subtree(p)
  BY <1>5, <1>6, <1>8, <1>9, <1>10
<1>18. \A p \in Member : \A x \in NonRoot : myparent_id[x] \in Subtree(p) => x \in Branch(p)
  BY <1>5, <1>6, <1>8, <1>9, <1>11
<1>19. \A p \in Member : \A c, d \in children(topo, p) :
          c # d => Subtree(c) \cap Subtree(d) = {}
  <2> SUFFICES ASSUME NEW p \in Member, NEW c \in K[p], NEW d \in K[p], c # d
               PROVE  Subtree(c) \cap Subtree(d) = {}
    BY <1>6
  <2>1. At(B, c) \cap At(B, d) = {}
    BY <1>2, <1>3, <1>4, <1>5, BranchesApart
  <2>2. c \in Member /\ d \in Member
    BY <1>5, <1>6, <1>14
  <2> QED
    BY <2>1, <2>2, <1>9
<1>20. \A c \in NonRoot : Branch(c) = below[c]
  BY <1>5 DEF Branch
<1>21. Branch(0) = NonRoot
  BY DEF Branch
<1> QED
  BY <1>2, <1>5, <1>12, <1>13, <1>14, <1>15, <1>16, <1>17, <1>18, <1>19, <1>20, <1>21
     DEF TreeFacts, n

\* A branch has the branches of its members.
LEMMA Nested ==
    ASSUME TreeFacts, NEW p \in Member, NEW c \in children(topo, p)
    PROVE  Subtree(c) \subseteq Branch(p) /\ c \in NonRoot /\ c \in Member /\ p \notin Subtree(c)
<1>1. c \in NonRoot /\ Subtree(c) \subseteq Branch(p)
  BY DEF TreeFacts
<1> QED
  BY <1>1 DEF NonRoot, TreeFacts

\* The property of the run in these words.
LEMMA TreeIsOneTree == ASSUME TreeFacts, Links PROVE OneTree
<1> SUFFICES ASSUME NEW p \in Member
    PROVE  LET kids == {c \in NonRoot : myparent_id[c] = p}
           IN /\ my_peers[p] = kids \ Lost
              /\ Branch(p) = UNION {{c} \cup Branch(c) : c \in kids}
              /\ p \notin Branch(p)
              /\ \A r \in Branch(p) : myparent_id[r] \in {p} \cup Branch(p)
              /\ \A c, d \in kids : c # d => ({c} \cup Branch(c)) \cap ({d} \cup Branch(d)) = {}
  BY DEF OneTree
<1> DEFINE kids == {c \in NonRoot : myparent_id[c] = p}
<1>1. children(topo, p) = kids
  BY DEF TreeFacts
<1>2. my_peers[p] = kids \ Lost
  <2>1. my_peers[p] \subseteq kids
    BY <1>1 DEF Links
  <2>2. \A c \in kids : c \in Lost <=> c \notin my_peers[p]
    BY DEF Lost
  <2> QED
    BY <2>1, <2>2
<1>3. \A c : Subtree(c) = {c} \cup Branch(c)
  BY DEF Subtree
<1>4. Branch(p) = UNION {{c} \cup Branch(c) : c \in kids}
  <2>1. Branch(p) = UNION {Subtree(c) : c \in kids}
    BY <1>1 DEF TreeFacts
  <2> QED
    BY <2>1, <1>3
<1>5. \A c, d \in kids : c # d => ({c} \cup Branch(c)) \cap ({d} \cup Branch(d)) = {}
  <2>1. \A c, d \in kids : c # d => Subtree(c) \cap Subtree(d) = {}
    BY <1>1 DEF TreeFacts
  <2> QED
    BY <2>1, <1>3
<1>6. p \notin Branch(p) /\ \A r \in Branch(p) : myparent_id[r] \in {p} \cup Branch(p)
  BY <1>3 DEF TreeFacts
<1> QED
  BY <1>2, <1>4, <1>5, <1>6

\* The hop to the one child whose branch has the target, unless its link is lost.
LEMMA HopDown ==
    ASSUME TreeFacts, Links, NEW a \in Member, NEW t \in Branch(a), Intact(a, t)
    PROVE  \E c \in children(topo, a) :
              /\ t \in Subtree(c)
              /\ get_nexthop(topo, myparent_id[a], my_peers[a], below, a, t) = c
<1>1. PICK c \in children(topo, a) : t \in Subtree(c)
  BY DEF TreeFacts
<1>2. Subtree(c) \subseteq Branch(a) /\ c \in NonRoot /\ c \in Member /\ a \notin Subtree(c)
  BY Nested
<1>3. below[c] = Branch(c) /\ myparent_id[c] = a
  BY <1>2 DEF TreeFacts
<1>4. c \in WayDown(t) \ WayDown(a)
  BY <1>1, <1>2, <1>3 DEF WayDown, Subtree
<1>5. c \in my_peers[a]
  BY <1>2, <1>3, <1>4 DEF Intact, Lost
<1> DEFINE down == {d \in my_peers[a] : d = t \/ t \in below[d]}
<1>6. down = {c}
  <2>1. c \in down
    BY <1>1, <1>3, <1>5 DEF Subtree
  <2>2. ASSUME NEW d \in down PROVE d = c
    <3>1. d \in children(topo, a)
      BY DEF Links
    <3>2. d \in NonRoot
      BY <3>1, Nested
    <3>3. t \in Subtree(d)
      BY <3>2 DEF Subtree, TreeFacts
    <3> QED
      BY <1>1, <3>1, <3>3 DEF TreeFacts
  <2> QED
    BY <2>1, <2>2
<1>7. t # Lifeline /\ t # a
  BY DEF TreeFacts, NonRoot, Lifeline
<1>8. c \in Int
  BY <1>2 DEF Member, Ranks
<1>9. (CHOOSE d \in down : \A e \in down : d <= e) = c
  BY <1>6, <1>8
<1> HIDE DEF down
<1>10. get_nexthop(topo, myparent_id[a], my_peers[a], below, a, t) = c
  <2>1. down # {}
    BY <1>6
  <2> QED
    BY <1>7, <1>9, <2>1 DEF get_nexthop, down
<1> QED
  BY <1>1, <1>10

\* The hop to the parent, where the target is not below.
LEMMA HopUp ==
    ASSUME TreeFacts, Links, NEW a \in Member, NEW t \in Member, t \notin Subtree(a)
    PROVE  /\ get_nexthop(topo, myparent_id[a], my_peers[a], below, a, t) = myparent_id[a]
           /\ a \in NonRoot
<1> DEFINE down == {d \in my_peers[a] : d = t \/ t \in below[d]}
<1>1. down = {}
  <2> SUFFICES ASSUME NEW d \in down PROVE FALSE
    OBVIOUS
  <2>1. d \in children(topo, a)
    BY DEF Links
  <2>2. d \in NonRoot /\ Subtree(d) \subseteq Branch(a)
    BY <2>1, Nested
  <2>3. t \in Subtree(d)
    BY <2>2 DEF Subtree, TreeFacts
  <2> QED
    BY <2>2, <2>3 DEF Subtree
<1>2. t # a
  BY DEF Subtree
<1>3. a \in NonRoot
  <2>1. a # 0
    BY DEF Subtree, TreeFacts, NonRoot
  <2> QED
    BY <2>1 DEF NonRoot
<1> HIDE DEF down
<1>4. get_nexthop(topo, myparent_id[a], my_peers[a], below, a, t) = myparent_id[a]
  BY <1>1, <1>2 DEF get_nexthop, down
<1> QED
  BY <1>3, <1>4

\* Wherever a hop goes, it is a member, or there is none.
LEMMA HopIs ==
    ASSUME TreeFacts, Links, NEW a \in Member, NEW t \in Member
    PROVE  get_nexthop(topo, myparent_id[a], my_peers[a], below, a, t) \in Member \cup {Invalid}
<1> DEFINE down == {d \in my_peers[a] : d = t \/ t \in below[d]}
           least == CHOOSE c \in down : \A d \in down : c <= d
<1>1. down \subseteq Member
  BY DEF Links
<1>2. down # {} => least \in down
  <2> SUFFICES ASSUME down # {} PROVE \E c \in down : \A d \in down : c <= d
    OBVIOUS
  <2>1. down \in SUBSET Nat
    BY <1>1 DEF Member, Ranks
  <2> HIDE DEF down
  <2> QED
    BY <2>1, Least
<1> HIDE DEF down, least
<1>3. get_nexthop(topo, myparent_id[a], my_peers[a], below, a, t)
         \in {t, myparent_id[a]} \cup (IF down # {} THEN {least} ELSE {})
  BY DEF get_nexthop, down, least
<1> QED
  BY <1>1, <1>2, <1>3 DEF TreeFacts

-----------------------------------------------------------------------------
(* The steps. *)

\* The invariant holds at first.
LEMMA InitIInv == ASSUME RoutingAssumption, RoutingInit PROVE IInv
<1>1. Computed
  BY DEF RoutingInit, Computed
<1>2. TreeFacts
  BY <1>1, ComputedIsTree
<1>3. Links
  <2>1. \A p \in Member : children(topo, p) \subseteq Member
    BY <1>2, Nested
  <2> QED
    BY <2>1 DEF Links, RoutingInit
<1>4. OnItsWay
  <2>1. Climbing
    BY DEF RoutingInit, Climbing
  <2>2. target # Everyone => at \in Member
    BY DEF RoutingInit
  <2>3. target \in Member \cup {Everyone} /\ at \in Member \cup {Invalid} /\ visited = {}
    BY DEF RoutingInit
  <2>4. target = Everyone => at = Invalid
    BY DEF RoutingInit
  <2> QED
    BY <2>1, <2>2, <2>3, <2>4 DEF OnItsWay
<1>5. Relayed
  <2>1. copies = [p \in Member |-> 0] /\ sent \subseteq {0} /\ NonRoot \subseteq Member
    BY DEF RoutingInit, NonRoot
  <2>2. \A c \in NonRoot : myparent_id[c] \in Member /\ c \notin sent /\ copies[c] # 1
    <3>1. \A c \in NonRoot : c # 0 /\ c \in Member
      BY DEF NonRoot
    <3>2. \A c \in Member : copies[c] = 0
      BY <2>1
    <3>3. \A c \in NonRoot : myparent_id[c] \in Member
      BY <1>2 DEF TreeFacts
    <3>4. \A c \in NonRoot : c \notin sent
      BY <2>1, <3>1
    <3>5. \A c \in NonRoot : copies[c] # 1
      <4> SUFFICES ASSUME NEW c \in NonRoot PROVE copies[c] # 1
        OBVIOUS
      <4>1. copies[c] = 0
        BY <3>1, <3>2
      <4> QED
        BY <4>1
    <3> QED
      BY <3>3, <3>4, <3>5
  <2>3. target # Everyone => sent = {}
    BY DEF RoutingInit
  <2>4. target = Everyone => 0 \in sent
    BY DEF RoutingInit
  <2>5. sent \subseteq Member /\ \A p \in sent : copies[p] = 0
    BY <1>2, <2>1 DEF TreeFacts
  <2>6. \A c \in NonRoot : copies[myparent_id[c]] # 1
    BY <2>1, <2>2
  <2>7. copies \in [Member -> {0, 1}]
    BY <2>1
  <2> QED
    BY <2>2, <2>3, <2>4, <2>5, <2>6, <2>7 DEF Relayed
<1> QED
  BY <1>1, <1>3, <1>4, <1>5 DEF IInv

\* A message is handed on.
LEMMA ForwardStep == ASSUME TreeFacts, IInv, Forward PROVE IInv'
<1> DEFINE a == at
           t == target
           hop == get_nexthop(topo, myparent_id[a], my_peers[a], below, a, t)
<1>0. Links /\ OnItsWay /\ Relayed /\ Computed
  BY DEF IInv
<1>1. a \in Member /\ t \in Member /\ a # t /\ visited \subseteq Member /\ Invalid \notin Member
  BY <1>0 DEF OnItsWay, Forward, Member, Ranks, Invalid
<1>2. visited' = visited \cup {a} /\ at' = IF hop = a THEN Invalid ELSE hop
  BY DEF Forward
<1>3. /\ topo' = topo /\ myparent_id' = myparent_id /\ below' = below /\ my_peers' = my_peers
      /\ target' = target /\ sent' = sent /\ copies' = copies
  BY DEF Forward, computed, xcast
<1>4. Member' = Member /\ NonRoot' = NonRoot
  BY <1>3 DEF Member, NonRoot
<1>5. Lost' = Lost
  BY <1>3, <1>4 DEF Lost
<1>6. \A p : Branch(p)' = Branch(p) /\ Subtree(p)' = Subtree(p)
  BY <1>3, <1>4 DEF Branch, Subtree
<1>7. \A p, q : Intact(p, q)' <=> Intact(p, q)
  BY <1>3, <1>4, <1>5 DEF Intact, WayDown
<1>8. Computed' /\ Links'
  BY <1>0, <1>3, <1>4 DEF Computed, Links
<1>9. Relayed'
  BY <1>0, <1>3, <1>4, <1>5 DEF Relayed
<1>10. hop \in Member \cup {Invalid}
  BY <1>0, <1>1, HopIs
<1>11. ASSUME \A p \in visited \cup {a} : Intact(p, t)
       PROVE  at' \in Member /\ (Climbing' \/ Descending')
  <2>1. Climbing \/ Descending
    <3>1. t # Everyone
      BY <1>1 DEF Everyone, Member, Ranks
    <3> QED
      BY <1>0, <1>11, <3>1 DEF OnItsWay
  <2>2. CASE t \in Branch(a)
    <3>1. PICK c \in children(topo, a) : t \in Subtree(c) /\ hop = c
      BY <1>0, <1>1, <1>11, <2>2, HopDown
    <3>2. Subtree(c) \subseteq Branch(a) /\ c \in NonRoot /\ c \in Member /\ a \notin Subtree(c)
      BY <1>1, Nested
    <3>3. at' = c
      BY <1>2, <3>1, <3>2 DEF Subtree
    <3>4. visited \cap Subtree(c) = {}
      <4>1. CASE Descending
        BY <3>2, <4>1 DEF Descending, Subtree
      <4>2. CASE Climbing
        <5> DEFINE V == visited \cap Subtree(c)
        <5> SUFFICES ASSUME V # {} PROVE FALSE
          OBVIOUS
        <5>1. V \in SUBSET Nat
          <6>1. Member \subseteq Nat
            BY DEF TreeFacts, Member, Ranks
          <6> QED
            BY <1>1, <6>1
        <5>2. PICK p \in V : \A q \in V : p <= q
          <6> HIDE DEF V
          <6> QED
            BY <5>1, Least
        <5>3. t \notin Subtree(p) /\ myparent_id[p] \in visited \cup {a}
          BY <4>2 DEF Climbing
        <5>4. p # c
          BY <5>3, <3>1
        <5>5. p \in Branch(c)
          BY <5>4 DEF Subtree
        <5>6. myparent_id[p] \in Subtree(c) /\ p \in NonRoot
          BY <3>2, <5>5 DEF TreeFacts
        <5>7. myparent_id[p] \in V
          BY <3>2, <5>3, <5>6
        <5>8. myparent_id[p] < p /\ myparent_id[p] \in Nat /\ p \in Nat
          BY <5>1, <5>6, <5>7 DEF TreeFacts
        <5> QED
          BY <5>2, <5>7, <5>8
      <4> QED
        BY <2>1, <4>1, <4>2
    <3>5. Descending'
      <4>1. target' \in Subtree(at') /\ visited' \cap Subtree(at') = {}
        BY <1>2, <1>3, <3>1, <3>2, <3>3, <3>4
      <4>2. Subtree(at)' = Subtree(at')
        BY <1>3, <1>4 DEF Subtree, Branch
      <4> QED
        BY <4>1, <4>2 DEF Descending
    <3> QED
      BY <3>2, <3>3, <3>5
  <2>3. CASE t \notin Branch(a)
    <3>1. t \notin Subtree(a)
      BY <1>1, <2>3 DEF Subtree
    <3>2. hop = myparent_id[a] /\ a \in NonRoot
      BY <1>0, <1>1, <3>1, HopUp
    <3> DEFINE u == myparent_id[a]
    <3>3. u \in Member /\ u # a
      BY <3>2 DEF TreeFacts, NonRoot, Member, Ranks
    <3>4. at' = u
      BY <1>2, <3>2, <3>3
    <3>5. Climbing
      BY <2>1, <3>1 DEF Descending
    <3>6. Subtree(a) \subseteq Branch(u)
      <4>1. a \in children(topo, u)
        BY <3>2, <3>3 DEF TreeFacts
      <4> QED
        BY <3>3, <4>1, Nested
    <3>7. ASSUME NEW p \in visited \cup {a}
          PROVE  /\ p \in Branch(u) /\ t \notin Subtree(p)
                 /\ myparent_id[p] \in (visited \cup {a}) \cup {u}
      <4>1. CASE p = a
        BY <3>1, <3>6, <4>1 DEF Subtree
      <4>2. CASE p \in visited
        <5>1. p \in Branch(a) /\ t \notin Subtree(p) /\ myparent_id[p] \in visited \cup {a}
          BY <3>5, <4>2 DEF Climbing
        <5> QED
          BY <3>6, <5>1 DEF Subtree
      <4> QED
        BY <4>1, <4>2
    <3>8. Climbing'
      <4>1. Branch(at)' = Branch(u)
        BY <1>3, <1>4, <3>4 DEF Branch
      <4>2. SUFFICES ASSUME NEW p \in visited'
                     PROVE  /\ p \in Branch(u) /\ t \notin Subtree(p)
                            /\ myparent_id[p] \in visited' \cup {u}
        BY <1>3, <1>6, <3>4, <4>1 DEF Climbing
      <4> QED
        BY <1>2, <3>7
    <3> QED
      BY <3>3, <3>4, <3>8
  <2> QED
    BY <2>2, <2>3
<1>12. OnItsWay'
  <2>1. at' \in Member \cup {Invalid} /\ visited' \subseteq Member
    BY <1>1, <1>2, <1>10
  <2>2. target # Everyone
    BY <1>1 DEF Everyone, Member, Ranks
  <2>3. (\A p \in visited' : Intact(p, target)') => \A p \in visited \cup {a} : Intact(p, t)
    <3>1. \A p : Intact(p, target)' <=> Intact(p, target)
      BY <1>3, <1>4, <1>5 DEF Intact, WayDown
    <3> QED
      BY <1>2, <3>1
  <2>4. (\A p \in visited' : Intact(p, target)') => at' \in Member /\ (Climbing' \/ Descending')
    BY <2>3, <1>11
  <2>5. target' \in Member \cup {Everyone}
    BY <1>1, <1>3
  <2> QED
    BY <1>3, <1>4, <2>1, <2>2, <2>4, <2>5 DEF OnItsWay
<1> QED
  BY <1>8, <1>9, <1>12 DEF IInv

\* An xcast is relayed.
LEMMA RelayStep == ASSUME TreeFacts, IInv, NEW p \in Member, Relay(p) PROVE IInv'
<1>0. Links /\ OnItsWay /\ Relayed /\ Computed
  BY DEF IInv
<1>1. /\ topo' = topo /\ myparent_id' = myparent_id /\ below' = below /\ my_peers' = my_peers
      /\ target' = target /\ at' = at /\ visited' = visited
  BY DEF Relay, computed, message
<1>2. Member' = Member /\ NonRoot' = NonRoot
  BY <1>1 DEF Member, NonRoot
<1>3. Lost' = Lost
  BY <1>1, <1>2 DEF Lost
<1>4. \A q : Branch(q)' = Branch(q) /\ Subtree(q)' = Subtree(q)
  BY <1>1, <1>2 DEF Branch, Subtree
<1>5. \A q, r : Intact(q, r)' <=> Intact(q, r)
  BY <1>1, <1>2, <1>3 DEF Intact, WayDown
<1>6. Computed' /\ Links'
  BY <1>0, <1>1, <1>2 DEF Computed, Links
<1>7. OnItsWay'
  <2>1. (\A q \in visited' : Intact(q, target)') <=> \A q \in visited : Intact(q, target)
    BY <1>1, <1>5
  <2>2. Branch(at)' = Branch(at) /\ Subtree(at)' = Subtree(at)
    BY <1>1, <1>2 DEF Branch, Subtree
  <2>3. Climbing' <=> Climbing
    BY <1>1, <1>4, <2>2 DEF Climbing
  <2>4. Descending' <=> Descending
    BY <1>1, <2>2 DEF Descending
  <2> QED
    BY <1>0, <1>1, <1>2, <2>1, <2>3, <2>4 DEF OnItsWay
<1>8. p \in sent /\ target = Everyone /\ copies[p] = 0
  BY <1>0 DEF Relay, Relayed
<1>9. sent' = (sent \ {p}) \cup my_peers[p] /\ copies' = [copies EXCEPT ![p] = 1]
  BY <1>8 DEF Relay
<1>10. copies \in [Member -> {0, 1}] /\ my_peers[p] \subseteq Member
  BY <1>0 DEF Relayed, Links
<1>11. \A q \in Member : copies'[q] = IF q = p THEN 1 ELSE copies[q]
  BY <1>9, <1>10
<1>12. my_peers[p] = {c \in NonRoot : myparent_id[c] = p} \ Lost
  <2>1. OneTree
    BY <1>0, TreeIsOneTree
  <2> QED
    BY <2>1 DEF OneTree
<1>13. \A c \in my_peers[p] : c # p /\ copies[c] = 0
  <2> SUFFICES ASSUME NEW c \in my_peers[p] PROVE c # p /\ copies[c] = 0
    OBVIOUS
  <2>1. c \in NonRoot /\ myparent_id[c] = p
    BY <1>12
  <2>2. c # p
    BY <2>1 DEF TreeFacts, NonRoot, Member, Ranks
  <2>3. copies[c] # 1
    BY <1>0, <1>8, <2>1 DEF Relayed
  <2> QED
    BY <1>10, <2>2, <2>3
<1>14. Relayed'
  <2>1. sent' \subseteq Member /\ copies' \in [Member -> {0, 1}]
    BY <1>0, <1>9, <1>10 DEF Relayed
  <2>2. 0 \in sent' \/ copies'[0] = 1
    BY <1>0, <1>8, <1>9, <1>11 DEF Relayed, TreeFacts
  <2>3. \A q \in sent' : copies'[q] = 0
    BY <1>0, <1>8, <1>9, <1>10, <1>11, <1>13 DEF Relayed
  <2>4. ASSUME NEW q \in NonRoot, q \in sent' \/ copies'[q] = 1
        PROVE  copies'[myparent_id[q]] = 1
    <3>1. q \in Member /\ myparent_id[q] \in Member
      BY DEF TreeFacts, NonRoot
    <3>2. CASE q \in my_peers[p]
      <4>1. myparent_id[q] = p
        BY <1>12, <3>2
      <4> QED
        BY <4>1, <1>11
    <3>3. CASE q \notin my_peers[p]
      <4>1. q \in sent \/ copies[q] = 1
        BY <1>8, <1>9, <1>11, <2>4, <3>1, <3>3
      <4>2. copies[myparent_id[q]] = 1
        BY <1>0, <1>8, <4>1 DEF Relayed
      <4> QED
        BY <3>1, <4>2, <1>11
    <3> QED
      BY <3>2, <3>3
  <2>5. ASSUME NEW c \in NonRoot \ Lost, copies'[myparent_id[c]] = 1
        PROVE  c \in sent' \/ copies'[c] = 1
    <3>1. c \in Member /\ myparent_id[c] \in Member
      BY DEF TreeFacts, NonRoot
    <3>2. CASE myparent_id[c] = p
      BY <1>9, <1>12, <3>2
    <3>3. CASE myparent_id[c] # p
      <4>1. copies[myparent_id[c]] = 1
        BY <1>11, <2>5, <3>1, <3>3
      <4>2. c \in sent \/ copies[c] = 1
        BY <1>0, <1>8, <4>1 DEF Relayed
      <4> QED
        BY <1>9, <1>11, <3>1, <4>2
    <3> QED
      BY <3>2, <3>3
  <2> QED
    BY <1>1, <1>2, <1>3, <1>8, <2>1, <2>2, <2>3, <2>4, <2>5 DEF Relayed
<1> QED
  BY <1>6, <1>7, <1>14 DEF IInv

\* A link is lost.
LEMMA LostStep ==
    ASSUME TreeFacts, IInv, NEW p \in Member, NEW c \in my_peers[p], route_lost(p, c)
    PROVE  IInv'
<1>0. Links /\ OnItsWay /\ Relayed /\ Computed
  BY DEF IInv
<1>1. /\ topo' = topo /\ myparent_id' = myparent_id /\ below' = below
      /\ target' = target /\ at' = at /\ visited' = visited
      /\ sent' = sent /\ copies' = copies
      /\ my_peers' = [my_peers EXCEPT ![p] = @ \ {c}]
  BY DEF route_lost, computed, message, xcast
<1>2. Member' = Member /\ NonRoot' = NonRoot
  BY <1>1 DEF Member, NonRoot
<1>3. my_peers \in [Member -> SUBSET Member]
  BY <1>0 DEF Links
<1>4. \A q \in Member : my_peers'[q] \subseteq my_peers[q]
  BY <1>1, <1>3
<1>5. Lost \subseteq Lost'
  <2> SUFFICES ASSUME NEW d \in Lost PROVE d \in Lost'
    OBVIOUS
  <2>1. d \in NonRoot /\ d \notin my_peers[myparent_id[d]]
    BY DEF Lost
  <2>2. myparent_id[d] \in Member
    BY <2>1 DEF TreeFacts
  <2> QED
    BY <1>1, <1>2, <1>4, <2>1, <2>2 DEF Lost
<1>6. \A q, r : Intact(q, r)' => Intact(q, r)
  <2>1. \A q : WayDown(q)' = WayDown(q)
    BY <1>1, <1>2 DEF WayDown
  <2> QED
    BY <1>5, <2>1 DEF Intact
<1>7. Computed'
  BY <1>0, <1>1, <1>2 DEF Computed
<1>8. Links'
  <2>1. my_peers' \in [Member -> SUBSET Member]
    BY <1>1, <1>3
  <2>2. \A q \in Member : my_peers'[q] \subseteq children(topo, q)
    BY <1>0, <1>4 DEF Links
  <2> QED
    BY <1>1, <1>2, <2>1, <2>2 DEF Links
<1>9. OnItsWay'
  <2>1. (\A q \in visited' : Intact(q, target)') => \A q \in visited : Intact(q, target)
    BY <1>1, <1>6
  <2>2. \A q : Subtree(q)' = Subtree(q)
    BY <1>1, <1>2 DEF Subtree, Branch
  <2>3. Branch(at)' = Branch(at) /\ Subtree(at)' = Subtree(at)
    BY <1>1, <1>2 DEF Branch, Subtree
  <2>4. Climbing' <=> Climbing
    BY <1>1, <2>2, <2>3 DEF Climbing
  <2>5. Descending' <=> Descending
    BY <1>1, <2>3 DEF Descending
  <2> QED
    BY <1>0, <1>1, <1>2, <2>1, <2>4, <2>5 DEF OnItsWay
<1>10. Relayed'
  BY <1>0, <1>1, <1>2, <1>5 DEF Relayed
<1> QED
  BY <1>7, <1>8, <1>9, <1>10 DEF IInv

\* The inductive invariant: the trees fit, messages climb and descend on them,
\* and an xcast comes to a member after it came to the member's parent.
THEOREM RoutingInvariance == RoutingSpec => []IInv
<1>1. RoutingInit => IInv
  BY RoutingAssumption, InitIInv
<1>2. IInv /\ [RoutingNext]_routingVars => IInv'
  <2> SUFFICES ASSUME IInv, [RoutingNext]_routingVars PROVE IInv'
    OBVIOUS
  <2>1. TreeFacts
    BY RoutingAssumption, ComputedIsTree DEF IInv
  <2>2. CASE Forward
    BY <2>1, <2>2, ForwardStep
  <2>3. ASSUME NEW p \in Member, Relay(p) PROVE IInv'
    BY <2>1, <2>3, RelayStep
  <2>4. ASSUME NEW p \in Member, NEW c \in my_peers[p], route_lost(p, c) PROVE IInv'
    BY <2>1, <2>4, LostStep
  <2>5. CASE UNCHANGED routingVars
    BY <2>5 DEF routingVars, computed, message, xcast, IInv, Computed, Links, OnItsWay, Relayed,
                Climbing, Descending, Subtree, Branch, Intact, WayDown, Lost, Member, NonRoot
  <2> QED
    BY <2>2, <2>3, <2>4, <2>5 DEF RoutingNext
<1> QED
  BY <1>1, <1>2, PTL DEF RoutingSpec

\* Neither a message that climbs nor one that descends has been there before.
LEMMA NeverBackHolds == ASSUME TreeFacts, IInv PROVE NeverBack
<1> SUFFICES ASSUME target # Everyone, \A p \in visited : Intact(p, target)
             PROVE  at \in Member \ visited
  BY DEF NeverBack
<1>1. at \in Member /\ (Climbing \/ Descending)
  BY DEF IInv, OnItsWay
<1>2. Climbing => at \notin visited
  BY <1>1 DEF Climbing, TreeFacts
<1>3. Descending => at \notin visited
  BY DEF Descending, Subtree
<1> QED
  BY <1>1, <1>2, <1>3

\* An xcast has come to a member when it has come to all on the way down.
LEMMA XcastOnceHolds == ASSUME TreeFacts, IInv PROVE XcastOnce
<1>1. Relayed
  BY DEF IInv
<1>2. \A p \in Member : copies[p] <= 1
  BY <1>1 DEF Relayed
<1>3. ASSUME target = Everyone, sent = {}
      PROVE  \A p \in Member : Intact(0, p) => copies[p] = 1
  <2> DEFINE S == {p \in Nat : p \in Member /\ Intact(0, p) => copies[p] = 1}
  <2>1. ASSUME NEW p \in Nat, \A q \in Nat : q < p => q \in S PROVE p \in S
    <3> SUFFICES ASSUME p \in Member, Intact(0, p) PROVE copies[p] = 1
      OBVIOUS
    <3>1. CASE p = 0
      BY <1>1, <1>3, <3>1 DEF Relayed
    <3>2. CASE p # 0
      <4>1. p \in NonRoot
        BY <3>2 DEF NonRoot
      <4> DEFINE u == myparent_id[p]
      <4>2. u \in Member /\ u < p /\ u \in Nat
        BY <4>1 DEF TreeFacts, Member, Ranks
      <4>3. WayDown(0) = {}
        <5> SUFFICES ASSUME NEW c \in NonRoot, c = 0 \/ 0 \in below[c] PROVE FALSE
          BY DEF WayDown
        <5>1. below[c] \subseteq NonRoot /\ c # 0
          BY DEF TreeFacts, NonRoot
        <5> QED
          BY <5>1 DEF NonRoot
      <4>4. WayDown(u) \subseteq WayDown(p)
        <5> SUFFICES ASSUME NEW c \in NonRoot, c = u \/ u \in below[c] PROVE p \in below[c]
          BY DEF WayDown
        <5>1. u \in Subtree(c) /\ c \in Member /\ Branch(c) = below[c]
          BY DEF Subtree, TreeFacts, NonRoot
        <5> QED
          BY <4>1, <5>1 DEF TreeFacts
      <4>5. Intact(0, u)
        BY <4>3, <4>4 DEF Intact
      <4>6. copies[u] = 1
        BY <2>1, <4>2, <4>5
      <4>7. p \notin Lost
        <5>1. p \in WayDown(p)
          BY <4>1 DEF WayDown
        <5> QED
          BY <5>1, <4>3 DEF Intact
      <4> QED
        BY <1>1, <1>3, <4>1, <4>6, <4>7 DEF Relayed
    <3> QED
      BY <3>1, <3>2
  <2>2. \A p \in Nat : p \in S
    <3> HIDE DEF S
    <3> QED
      BY <2>1, StrongUp
  <2> QED
    BY <2>2 DEF Member, Ranks
<1> QED
  BY <1>2, <1>3 DEF XcastOnce

\* The types.
LEMMA TypesHold == ASSUME TreeFacts, IInv PROVE RoutingTypeOK
<1>1. Computed /\ Links /\ OnItsWay /\ Relayed
  BY DEF IInv
<1>2. myparent_id \in [Member -> Member \cup {Invalid}]
  <2>1. myparent_id = [p \in Member |-> myparent_id[p]]
    BY <1>1 DEF Computed
  <2> QED
    BY <2>1 DEF TreeFacts
<1>3. below \in [NonRoot -> SUBSET Member]
  <2>1. below = [c \in NonRoot |-> below[c]]
    BY <1>1 DEF Computed
  <2>2. \A c \in NonRoot : below[c] \subseteq Member
    BY DEF TreeFacts, NonRoot
  <2> QED
    BY <2>1, <2>2
<1>4. copies \in [Member -> Nat]
  BY <1>1 DEF Relayed
<1> QED
  BY <1>1, <1>2, <1>3, <1>4 DEF RoutingTypeOK, Computed, Links, OnItsWay, Relayed

\* Every member computes its part of one tree from its rank alone; a message
\* goes along it without coming back, an xcast comes once to all who can be
\* reached (get_nexthop and update_topology of both trees, xcast_recv).
THEOREM RoutedOnOneTreeAlways == RoutingSpec => []RoutedOnOneTree
<1>1. IInv => RoutedOnOneTree
  <2> SUFFICES ASSUME IInv PROVE RoutedOnOneTree
    OBVIOUS
  <2>1. TreeFacts
    BY RoutingAssumption, ComputedIsTree DEF IInv
  <2>2. OneTree
    BY <2>1, TreeIsOneTree DEF IInv
  <2> QED
    BY <2>1, <2>2, NeverBackHolds, XcastOnceHolds, TypesHold DEF RoutedOnOneTree
<1> QED
  BY <1>1, RoutingInvariance, PTL

\* TreeCollective assumes a tree and is proved for it: every topology is such a
\* tree (NAssumption, ParentAssumption and TreeAssumption of TreeCollective and,
\* with ranks that grow downwards, of EventLoops).
THEOREM TopologiesAreTrees ==
    \A t \in Topologies :
        LET Procs == 0..(t.n - 1)
            Up == [r \in 1..(t.n - 1) |-> parent(t, r)]
            Under == [r \in Procs |-> relatives(t, r)]
            Direct(p) == {c \in 1..(t.n - 1) : Up[c] = p}
        IN /\ t.n \in Nat \ {0}
           /\ Up \in [1..(t.n - 1) -> Procs]
           /\ \A c \in 1..(t.n - 1) : Up[c] < c
           /\ Under \in [Procs -> SUBSET Procs]
           /\ Under[0] = Procs \ {0}
           /\ \A p \in Procs :
                /\ Direct(p) = children(t, p)
                /\ Under[p] = UNION {{c} \cup Under[c] : c \in Direct(p)}
                /\ p \notin Under[p]
                /\ \A r \in Under[p] : r > p /\ Up[r] \in {p} \cup Under[p]
                /\ \A c, d \in Direct(p) :
                     c # d => ({c} \cup Under[c]) \cap ({d} \cup Under[d]) = {}
<1> SUFFICES ASSUME NEW t \in Topologies
    PROVE  LET Procs == 0..(t.n - 1)
               Up == [r \in 1..(t.n - 1) |-> parent(t, r)]
               Under == [r \in Procs |-> relatives(t, r)]
               Direct(p) == {c \in 1..(t.n - 1) : Up[c] = p}
           IN /\ t.n \in Nat \ {0}
              /\ Up \in [1..(t.n - 1) -> Procs]
              /\ \A c \in 1..(t.n - 1) : Up[c] < c
              /\ Under \in [Procs -> SUBSET Procs]
              /\ Under[0] = Procs \ {0}
              /\ \A p \in Procs :
                   /\ Direct(p) = children(t, p)
                   /\ Under[p] = UNION {{c} \cup Under[c] : c \in Direct(p)}
                   /\ p \notin Under[p]
                   /\ \A r \in Under[p] : r > p /\ Up[r] \in {p} \cup Under[p]
                   /\ \A c, d \in Direct(p) :
                        c # d => ({c} \cup Under[c]) \cap ({d} \cup Under[d]) = {}
  OBVIOUS
<1> DEFINE n == t.n
           Procs == 0..(n - 1)
           Up == [r \in 1..(n - 1) |-> parent(t, r)]
           Under == [r \in Procs |-> relatives(t, r)]
           Direct(p) == {c \in 1..(n - 1) : Up[c] = p}
           K == Kids(t)
           U == Ups(t)
<1>1. IsTopology(t)
  BY RoutingAssumption DEF RoutingAssumption, IsTopology
<1>2. n \in Nat \ {0} /\ n \in Nat /\ 0 \in Procs
  BY <1>1 DEF IsTopology
<1>3. Procs = Ranks(n) /\ 1..(n - 1) = Ranks(n) \ {0}
  BY <1>2 DEF Ranks
<1>4. IsTree(n, K, U)
  BY <1>1, TopologyIsTree
<1>5. PICK B : IsBelow(B, n, K) /\ \A r \in Ranks(n) : relatives(t, r) = B[r]
  BY <1>1, RelativesAreBelow
<1>6. Under = [r \in Procs |-> B[r]] /\ \A r \in Procs : Under[r] = B[r]
  BY <1>3, <1>5
<1>7. \A r \in Ranks(n) \ {0} : Up[r] = U[r]
  BY <1>3 DEF Ups
<1>8. \A p \in Procs : K[p] = children(t, p)
  BY <1>3 DEF Kids
<1>9. Up = [r \in 1..(n - 1) |-> Up[r]]
  OBVIOUS
<1>10. \A p \in Procs : Direct(p) = {c \in Ranks(n) \ {0} : U[c] = p}
  BY <1>3, <1>7
<1> HIDE DEF K, U, Up, Under, n
<1>11. \A p \in Procs : Direct(p) = K[p]
  BY <1>3, <1>4, <1>10 DEF IsTree
<1>12. \A p \in Procs : \A x \in B[p] : x \in Ranks(n) \ {0} /\ p < x /\ U[x] \in At(B, p)
  BY <1>2, <1>3, <1>4, <1>5, BelowUp
<1>13. Up \in [1..(n - 1) -> Procs]
  <2>1. \A r \in 1..(n - 1) : Up[r] \in Procs
    BY <1>3, <1>4, <1>7 DEF IsTree
  <2> QED
    BY <2>1, <1>9
<1>17. \A c \in 1..(n - 1) : Up[c] < c
  BY <1>3, <1>4, <1>7 DEF IsTree
<1>14. Under \in [Procs -> SUBSET Procs]
  <2>1. \A r \in Procs : B[r] \subseteq Procs
    BY <1>3, <1>12
  <2> QED
    BY <2>1, <1>6
<1>15. Under[0] = Procs \ {0}
  <2>1. B[0] = Ranks(n) \ {0}
    BY <1>2, <1>4, <1>5, AllBelowRoot
  <2> QED
    BY <2>1, <1>2, <1>3, <1>6
<1>16. ASSUME NEW p \in Procs
       PROVE  /\ Direct(p) = children(t, p)
              /\ Under[p] = UNION {{c} \cup Under[c] : c \in Direct(p)}
              /\ p \notin Under[p]
              /\ \A r \in Under[p] : r > p /\ Up[r] \in {p} \cup Under[p]
              /\ \A c, d \in Direct(p) :
                   c # d => ({c} \cup Under[c]) \cap ({d} \cup Under[d]) = {}
  <2>1. Direct(p) = K[p] /\ Direct(p) = children(t, p)
    BY <1>8, <1>11
  <2>2. \A c \in K[p] : c \in Procs /\ {c} \cup Under[c] = At(B, c)
    <3>1. \A c \in K[p] : c \in Procs
      BY <1>3, <1>4 DEF IsTree
    <3> QED
      BY <3>1, <1>6 DEF At
  <2>3. Under[p] = UNION {{c} \cup Under[c] : c \in K[p]}
    <3>0. p \in Ranks(n) /\ IsBelow(B, n, K)
      BY <1>3, <1>5
    <3>1. B[p] = UNION {At(B, c) : c \in K[p]}
      <4> HIDE DEF Procs
      <4> QED
        BY <3>0, BelowIs
    <3>2. UNION {At(B, c) : c \in K[p]} = UNION {{c} \cup Under[c] : c \in K[p]}
      BY <2>2
    <3> QED
      BY <3>1, <3>2, <1>6
  <2>4. p \notin Under[p]
    <3>1. p \in Nat
      BY <1>2
    <3> QED
      BY <3>1, <1>6, <1>12
  <2>5. ASSUME NEW r \in Under[p] PROVE r > p /\ Up[r] \in {p} \cup Under[p]
    <3>1. r \in Ranks(n) \ {0} /\ p < r /\ U[r] \in At(B, p)
      BY <1>6, <1>12
    <3>2. r > p
      BY <1>2, <3>1 DEF Ranks
    <3> QED
      BY <3>1, <3>2, <1>6, <1>7 DEF At
  <2>6. ASSUME NEW c \in K[p], NEW d \in K[p], c # d
        PROVE  ({c} \cup Under[c]) \cap ({d} \cup Under[d]) = {}
    <3>1. At(B, c) \cap At(B, d) = {}
      BY <1>2, <1>3, <1>4, <1>5, <2>6, BranchesApart
    <3> QED
      BY <3>1, <2>2
  <2> QED
    BY <2>1, <2>3, <2>4, <2>5, <2>6
<1> QED
  BY <1>2, <1>13, <1>14, <1>15, <1>16, <1>17 DEF n, Up, Under

=============================================================================
