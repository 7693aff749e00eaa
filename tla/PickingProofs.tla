--------------------------- MODULE PickingProofs ---------------------------
(***************************************************************************)
(* What is picked from a list: a sequence of the elements at the places of *)
(* the set, each once, in the order of the list.                           *)
(***************************************************************************)
EXTENDS Picking, Integers, WellFoundedInduction, TLAPS

-----------------------------------------------------------------------------
\* Induction, as the least counterexample.
LEMMA Least ==
    ASSUME NEW S \in SUBSET Nat, S # {} PROVE \E m \in S : \A k \in S : m <= k
<1> DEFINE R == {ss \in Nat \X Nat : ss[1] < ss[2]}
<1>1. IsWellFoundedOn(R, Nat)
  BY NatLessThanWellFounded DEF OpToRel
<1>2. PICK m \in S : \A k \in S : ~(<<k, m>> \in R)
  BY <1>1, WFMin
<1>3. \A k \in S : ~(k < m)
  BY <1>2
<1> QED
  BY <1>3

\* Picked: the recursive function that its definition names exists.
IsPick(F, list, set, n) ==
    F = [i \in 0..n |-> IF i = 0 THEN <<>>
                        ELSE F[i - 1] \o (IF i \in set THEN <<list[i]>> ELSE <<>>)]

\* For every bound there is a function of the kind that Picked chooses.
LEMMA PickExists == \A list, set : \A n \in Nat : \E F : IsPick(F, list, set, n)
<1> SUFFICES ASSUME NEW list, NEW set,
                    {n \in Nat : ~\E F : IsPick(F, list, set, n)} # {}
             PROVE FALSE
  OBVIOUS
<1> DEFINE Bad == {n \in Nat : ~\E F : IsPick(F, list, set, n)}
<1>1. PICK m \in Bad : \A k \in Bad : m <= k
  <2> Bad \in SUBSET Nat /\ Bad # {}
    OBVIOUS
  <2> HIDE DEF Bad
  <2> QED
    BY Least
<1>2. m # 0
  <2> DEFINE F == [i \in 0..0 |-> <<>>]
  <2>1. IsPick(F, list, set, 0)
    BY DEF IsPick
  <2> QED
    BY <2>1
<1>3. PICK F : IsPick(F, list, set, m - 1)
  BY <1>1, <1>2
<1> DEFINE last == IF m \in set THEN <<list[m]>> ELSE <<>>
           G == [i \in 0..m |-> IF i = m THEN F[m - 1] \o last ELSE F[i]]
<1>4. \A i \in 0..m : G[i] = IF i = 0 THEN <<>> ELSE G[i - 1] \o (IF i \in set THEN <<list[i]>> ELSE <<>>)
  <2>1. m \in Nat \ {0}
    BY <1>2
  <2>2. \A i \in 0..(m - 1) : F[i] = IF i = 0 THEN <<>>
                        ELSE F[i - 1] \o (IF i \in set THEN <<list[i]>> ELSE <<>>)
    BY <1>3 DEF IsPick
  <2> HIDE DEF Bad, last
  <2>3. G[m] = F[m - 1] \o last /\ \A i \in 0..(m - 1) : G[i] = F[i]
    BY <2>1
  <2> HIDE DEF G
  <2> TAKE i \in 0..m
  <2>5. CASE i = m
    <3>1. m - 1 \in 0..(m - 1)
      BY <2>1
    <3> QED
      BY <2>1, <2>3, <2>5, <3>1 DEF last
  <2>6. CASE i # m
    <3>1. i \in 0..(m - 1) /\ (i # 0 => i - 1 \in 0..(m - 1))
      BY <2>1, <2>6
    <3> QED
      BY <2>2, <2>3, <3>1
  <2> QED
    BY <2>5, <2>6
<1>5. IsPick(G, list, set, m)
  BY <1>4 DEF IsPick
<1> QED
  BY <1>5, <1>1

\* Picked is the last value of such a function.
LEMMA PickedIs == ASSUME NEW list, NEW set, Len(list) \in Nat
    PROVE \E F : IsPick(F, list, set, Len(list)) /\ Picked(list, set) = F[Len(list)]
<1> DEFINE F == CHOOSE F : IsPick(F, list, set, Len(list))
<1>1. IsPick(F, list, set, Len(list))
  BY PickExists
<1>2. Picked(list, set) = F[Len(list)]
  BY DEF Picked, IsPick
<1> QED
  BY <1>1, <1>2
\* What is picked are the elements at the places of the set, each once, in the
\* order of the list: e gives its places.
IsChoice(list, set, P, n, e) ==
    /\ e \in [1..Len(P) -> set \cap (1..n)]
    /\ \A k \in 1..Len(P) : P[k] = list[e[k]]
    /\ \A k, l \in 1..Len(P) : k < l => e[k] < e[l]
    /\ \A i \in set \cap (1..n) : \E k \in 1..Len(P) : e[k] = i

\* What is picked is a sequence of elements at the places of the set.
LEMMA PickedPlaces ==
    ASSUME NEW T, NEW list \in Seq(T), NEW set
    PROVE /\ Picked(list, set) \in Seq(T)
          /\ \E e : IsChoice(list, set, Picked(list, set), Len(list), e)
<1>1. PICK F : IsPick(F, list, set, Len(list)) /\ Picked(list, set) = F[Len(list)]
  BY PickedIs
<1> DEFINE Good(n) == F[n] \in Seq(T) /\ \E e : IsChoice(list, set, F[n], n, e)
           Bad == {n \in 0..Len(list) : ~Good(n)}
<1>2. SUFFICES Bad = {}
  <2>1. Len(list) \in 0..Len(list)
    OBVIOUS
  <2> QED
    BY <2>1, <1>1, <1>2
<1>3. SUFFICES ASSUME Bad # {} PROVE FALSE
  OBVIOUS
<1>4. PICK m \in Bad : \A k \in Bad : m <= k
  <2> Bad \in SUBSET Nat
    OBVIOUS
  <2> HIDE DEF Bad
  <2> QED
    BY Least, <1>3
<1>5. m \in 0..Len(list) /\ ~Good(m)
  OBVIOUS
<1>6. m # 0
  <2>1. F[0] = <<>>
    BY <1>1 DEF IsPick
  <2>2. IsChoice(list, set, <<>>, 0, <<>>)
    BY DEF IsChoice
  <2>3. Good(0)
    BY <2>1, <2>2
  <2> QED
    BY <2>3, <1>5
<1>7. Good(m - 1)
  BY <1>4, <1>5, <1>6
<1> DEFINE q == F[m - 1]
<1>8. q \in Seq(T)
  BY <1>7
<1>9. PICK e : IsChoice(list, set, q, m - 1, e)
  BY <1>7
<1>10. F[m] = q \o (IF m \in set THEN <<list[m]>> ELSE <<>>)
  BY <1>1, <1>5, <1>6 DEF IsPick
<1> HIDE DEF Good, Bad, q
<1>11. CASE m \notin set
  <2>1. F[m] = q
    BY <1>8, <1>10, <1>11
  <2>2. IsChoice(list, set, q, m, e)
    BY <1>5, <1>6, <1>9, <1>11 DEF IsChoice
  <2> QED
    BY <2>1, <2>2, <1>5, <1>8 DEF Good
<1>12. CASE m \in set
  <2> DEFINE P == F[m]
             d == [k \in 1..Len(P) |-> IF k = Len(P) THEN m ELSE e[k]]
  <2>1. /\ P \in Seq(T) /\ Len(P) = Len(q) + 1 /\ P[Len(P)] = list[m]
        /\ \A k \in 1..Len(q) : P[k] = q[k]
    BY <1>5, <1>6, <1>8, <1>10, <1>12
  <2> HIDE DEF P
  <2>2. Len(q) \in Nat /\ Len(P) \in Nat
    BY <1>8, <2>1
  <2>3. d \in [1..Len(P) -> set \cap (1..m)]
    BY <1>5, <1>6, <1>9, <1>12, <2>1, <2>2 DEF IsChoice
  <2>4. \A k \in 1..Len(P) : P[k] = list[d[k]]
    BY <1>9, <2>1, <2>2 DEF IsChoice
  <2>5. \A k, l \in 1..Len(P) : k < l => d[k] < d[l]
    <3>1. \A k, l \in 1..Len(q) : k < l => e[k] < e[l]
      BY <1>9 DEF IsChoice
    <3>2. \A k \in 1..Len(q) : e[k] < m /\ e[k] \in Int
      BY <1>5, <1>6, <1>9 DEF IsChoice
    <3> TAKE k, l \in 1..Len(P)
    <3> HAVE k < l
    <3>3. k \in 1..Len(q) /\ d[k] = e[k]
      BY <2>1, <2>2
    <3>4. CASE l = Len(P)
      BY <3>2, <3>3, <3>4
    <3>5. CASE l # Len(P)
      <4>1. l \in 1..Len(q) /\ d[l] = e[l]
        BY <2>1, <2>2, <3>5
      <4> QED
        BY <3>1, <3>3, <4>1
    <3> QED
      BY <3>4, <3>5
  <2>6. \A i \in set \cap (1..m) : \E k \in 1..Len(P) : d[k] = i
    <3> TAKE i \in set \cap (1..m)
    <3>1. CASE i = m
      BY <3>1, <2>1, <2>2
    <3>2. CASE i # m
      <4>1. PICK k \in 1..Len(q) : e[k] = i
        BY <3>2, <1>5, <1>6, <1>9 DEF IsChoice
      <4> QED
        BY <4>1, <2>1, <2>2
    <3> QED
      BY <3>1, <3>2
  <2>7. IsChoice(list, set, P, m, d)
    BY <2>3, <2>4, <2>5, <2>6 DEF IsChoice
  <2> QED
    BY <2>1, <2>7, <1>5 DEF Good, P
<1> QED
  BY <1>11, <1>12

-----------------------------------------------------------------------------
(* What is drawn from a list with a function: the values of the elements that *)
(* the function is defined for, in the order of the list.                   *)

Values(f, S) == \A x \in DOMAIN f : f[x] \in S
Part(x, f) == IF x \in DOMAIN f THEN <<f[x]>> ELSE <<>>
Drawn(list, f) == LET D[i \in 0..Len(list)] ==
                          IF i = 0 THEN <<>> ELSE D[i - 1] \o Part(list[i], f)
                  IN D[Len(list)]

\* Drawn: the recursive function that its definition names.
IsDraw(D, list, f, n) == D = [i \in 0..n |-> IF i = 0 THEN <<>> ELSE D[i - 1] \o Part(list[i], f)]

\* For every bound there is a function of the kind that Drawn chooses.
LEMMA DrawExists == \A list, f : \A n \in Nat : \E D : IsDraw(D, list, f, n)
<1> SUFFICES ASSUME NEW list, NEW f, {n \in Nat : ~\E D : IsDraw(D, list, f, n)} # {}
             PROVE FALSE
  OBVIOUS
<1> DEFINE Bad == {n \in Nat : ~\E D : IsDraw(D, list, f, n)}
<1>1. PICK m \in Bad : \A k \in Bad : m <= k
  <2> Bad \in SUBSET Nat /\ Bad # {}
    OBVIOUS
  <2> HIDE DEF Bad
  <2> QED
    BY Least
<1>2. m # 0
  <2> DEFINE D == [i \in 0..0 |-> <<>>]
  <2>1. IsDraw(D, list, f, 0)
    BY DEF IsDraw
  <2> QED
    BY <2>1
<1>3. PICK D : IsDraw(D, list, f, m - 1)
  BY <1>1, <1>2
<1> DEFINE last == Part(list[m], f)
           G == [i \in 0..m |-> IF i = m THEN D[m - 1] \o last ELSE D[i]]
<1>4. \A i \in 0..m : G[i] = IF i = 0 THEN <<>> ELSE G[i - 1] \o Part(list[i], f)
  <2>1. m \in Nat \ {0}
    BY <1>2
  <2>2. \A i \in 0..(m - 1) : D[i] = IF i = 0 THEN <<>> ELSE D[i - 1] \o Part(list[i], f)
    BY <1>3 DEF IsDraw
  <2> HIDE DEF Bad, last
  <2>3. G[m] = D[m - 1] \o last /\ \A i \in 0..(m - 1) : G[i] = D[i]
    BY <2>1
  <2> HIDE DEF G
  <2> TAKE i \in 0..m
  <2>4. CASE i = m
    <3>1. m - 1 \in 0..(m - 1)
      BY <2>1
    <3> QED
      BY <2>1, <2>3, <2>4, <3>1 DEF last
  <2>5. CASE i # m
    <3>1. i \in 0..(m - 1) /\ (i # 0 => i - 1 \in 0..(m - 1))
      BY <2>1, <2>5
    <3> QED
      BY <2>2, <2>3, <3>1
  <2> QED
    BY <2>4, <2>5
<1>5. G = [i \in 0..m |-> G[i]]
  OBVIOUS
<1> HIDE DEF G
<1>6. IsDraw(G, list, f, m)
  BY <1>4, <1>5 DEF IsDraw
<1> QED
  BY <1>6, <1>1

\* The function place by place.
Stepwise(D, list, f, n) == D[0] = <<>> /\ \A i \in 1..n : D[i] = D[i - 1] \o Part(list[i], f)

\* Drawn is the last value of such a function.
LEMMA DrawnIs == ASSUME NEW list, NEW f, Len(list) \in Nat
    PROVE \E D : Stepwise(D, list, f, Len(list)) /\ Drawn(list, f) = D[Len(list)]
<1> DEFINE D == CHOOSE D : IsDraw(D, list, f, Len(list))
           n == Len(list)
<1>1. IsDraw(D, list, f, n)
  BY DrawExists
<1>2. Drawn(list, f) = D[n]
  BY DEF Drawn, IsDraw
<1>3. n \in Nat
  OBVIOUS
<1> HIDE DEF D, n
<1>4. \A i \in 0..n : D[i] = IF i = 0 THEN <<>> ELSE D[i - 1] \o Part(list[i], f)
  BY <1>1 DEF IsDraw
<1>5. 0 \in 0..n /\ \A i \in 1..n : i \in 0..n /\ i # 0
  BY <1>3
<1>6. D[0] = IF 0 = 0 THEN <<>> ELSE D[0 - 1] \o Part(list[0], f)
  BY <1>4, <1>5
<1>7. D[0] = <<>>
  BY <1>6
<1>8. ASSUME NEW i \in 1..n PROVE D[i] = D[i - 1] \o Part(list[i], f)
  <2>1. D[i] = IF i = 0 THEN <<>> ELSE D[i - 1] \o Part(list[i], f)
    BY <1>4, <1>5
  <2> QED
    BY <2>1, <1>5
<1>9. Stepwise(D, list, f, n)
  BY <1>7, <1>8 DEF Stepwise
<1> QED
  BY <1>2, <1>9 DEF n

\* What has been drawn up to a place depends on the list up to there.
LEMMA DrawsAgree ==
    ASSUME NEW n \in Nat, NEW m \in Nat, NEW k \in Nat, k <= n, k <= m,
           NEW list, NEW list2, NEW f, NEW D, NEW G,
           Stepwise(D, list, f, n), Stepwise(G, list2, f, m),
           \A i \in 1..k : list[i] = list2[i]
    PROVE  D[k] = G[k]
<1> DEFINE Bad == {i \in 0..k : D[i] # G[i]}
<1> SUFFICES ASSUME Bad # {} PROVE FALSE
  OBVIOUS
<1>1. PICK b \in Bad : \A i \in Bad : b <= i
  <2> Bad \in SUBSET Nat
    OBVIOUS
  <2> HIDE DEF Bad
  <2> QED
    BY Least
<1>2. D[0] = <<>> /\ \A i \in 1..n : D[i] = D[i - 1] \o Part(list[i], f)
  BY DEF Stepwise
<1>3. G[0] = <<>> /\ \A i \in 1..m : G[i] = G[i - 1] \o Part(list2[i], f)
  BY DEF Stepwise
<1>4. b \in 1..n /\ b \in 1..m /\ b \in 1..k
  BY <1>1, <1>2, <1>3
<1>5. D[b - 1] = G[b - 1]
  BY <1>1, <1>4
<1>6. list[b] = list2[b]
  BY <1>4
<1>7. D[b] = G[b]
  BY <1>2, <1>3, <1>4, <1>5, <1>6
<1> QED
  BY <1>1, <1>7

\* What is drawn is a sequence of values of the function.
LEMMA DrawsType ==
    ASSUME NEW S, NEW f, Values(f, S), NEW n \in Nat, NEW list, NEW D, Stepwise(D, list, f, n)
    PROVE  \A i \in 0..n : D[i] \in Seq(S)
<1> DEFINE Bad == {i \in 0..n : D[i] \notin Seq(S)}
<1> SUFFICES ASSUME Bad # {} PROVE FALSE
  OBVIOUS
<1>1. PICK b \in Bad : \A i \in Bad : b <= i
  <2> Bad \in SUBSET Nat
    OBVIOUS
  <2> HIDE DEF Bad
  <2> QED
    BY Least
<1>2. D[0] = <<>> /\ \A i \in 1..n : D[i] = D[i - 1] \o Part(list[i], f)
  BY DEF Stepwise
<1>3. b \in 1..n
  <2>1. D[0] \in Seq(S)
    BY <1>2
  <2> QED
    BY <1>1, <2>1
<1>4. D[b - 1] \in Seq(S)
  BY <1>1, <1>3
<1>5. Part(list[b], f) \in Seq(S)
  BY DEF Part, Values
<1>6. D[b] = D[b - 1] \o Part(list[b], f)
  BY <1>2, <1>3
<1>7. D[b] \in Seq(S)
  BY <1>4, <1>5, <1>6
<1> QED
  BY <1>1, <1>7

LEMMA DrawnType ==
    ASSUME NEW T, NEW list \in Seq(T), NEW S, NEW f, Values(f, S)
    PROVE  Drawn(list, f) \in Seq(S)
<1>1. Len(list) \in Nat /\ Len(list) \in 0..Len(list)
  OBVIOUS
<1>2. PICK D : Stepwise(D, list, f, Len(list)) /\ Drawn(list, f) = D[Len(list)]
  BY <1>1, DrawnIs
<1> QED
  BY <1>1, <1>2, DrawsType

LEMMA DrawnEmpty == ASSUME NEW f PROVE Drawn(<<>>, f) = <<>>
<1>1. Len(<<>>) = 0
  OBVIOUS
<1>2. PICK D : Stepwise(D, <<>>, f, 0) /\ Drawn(<<>>, f) = D[0]
  BY <1>1, DrawnIs
<1> QED
  BY <1>2 DEF Stepwise

\* A sequence of sequences joined with the empty one, and joined twice.
LEMMA Joined ==
    ASSUME NEW T, NEW a \in Seq(T), NEW b \in Seq(T), NEW c \in Seq(T)
    PROVE  /\ a \o <<>> = a /\ <<>> \o a = a /\ a \o b \in Seq(T)
           /\ (a \o b) \o c = a \o (b \o c)
  OBVIOUS

\* From two lists in a row what is drawn from one and from the other.
LEMMA DrawnConcat ==
    ASSUME NEW T, NEW list \in Seq(T), NEW list2 \in Seq(T),
           NEW S, NEW f, Values(f, S)
    PROVE  Drawn(list \o list2, f) = Drawn(list, f) \o Drawn(list2, f)
<1> DEFINE both == list \o list2
           n == Len(list)
           k == Len(list2)
<1>1. n \in Nat /\ k \in Nat /\ both \in Seq(T) /\ Len(both) = n + k
      /\ (\A i \in 1..n : both[i] = list[i]) /\ \A i \in 1..k : both[n + i] = list2[i]
  OBVIOUS
<1> HIDE DEF both, n, k
<1>2. PICK D : Stepwise(D, list, f, n) /\ Drawn(list, f) = D[n]
  BY <1>1, DrawnIs DEF n
<1>3. PICK E : Stepwise(E, list2, f, k) /\ Drawn(list2, f) = E[k]
  BY <1>1, DrawnIs DEF k
<1>4. PICK G : Stepwise(G, both, f, n + k) /\ Drawn(both, f) = G[n + k]
  <2>1. Len(both) \in Nat
    BY <1>1
  <2>2. \E G : Stepwise(G, both, f, Len(both)) /\ Drawn(both, f) = G[Len(both)]
    BY <2>1, DrawnIs
  <2> QED
    BY <2>2, <1>1
<1>5. G[n] = D[n] /\ D[n] \in Seq(S)
  <2>1. n + k \in Nat /\ n <= n + k /\ n <= n /\ n \in 0..n
    BY <1>1
  <2>2. G[n] = D[n]
    BY <2>1, <1>1, <1>2, <1>4, DrawsAgree
  <2>3. \A i \in 0..n : D[i] \in Seq(S)
    BY <1>1, <1>2, DrawsType
  <2> QED
    BY <2>1, <2>2, <2>3
<1> DEFINE Bad == {i \in 0..k : G[n + i] # G[n] \o E[i]}
<1>6. Bad = {}
  <2> SUFFICES ASSUME Bad # {} PROVE FALSE
    OBVIOUS
  <2>1. PICK b \in Bad : \A i \in Bad : b <= i
    <3> Bad \in SUBSET Nat
      <4>1. \A i \in 0..k : i \in Nat
        BY <1>1
      <4> QED
        BY <4>1
    <3> HIDE DEF Bad
    <3> QED
      BY Least
  <2>0. b \in 0..k /\ G[n + b] # G[n] \o E[b]
    BY <2>1
  <2>2. b # 0
    <3>1. E[0] = <<>> /\ n + 0 = n
      BY <1>1, <1>3 DEF Stepwise
    <3>2. G[n] = G[n] \o <<>>
      BY <1>5
    <3> QED
      BY <3>1, <3>2, <2>0
  <2>3. b \in 1..k /\ b - 1 \in 0..k
    BY <2>0, <2>2, <1>1
  <2>4. G[n + (b - 1)] = G[n] \o E[b - 1]
    <3>1. b - 1 \notin Bad
      <4>1. ~(b <= b - 1)
        BY <2>3
      <4> HIDE DEF Bad
      <4> QED
        BY <4>1, <2>1
    <3> QED
      BY <3>1, <2>3
  <2>5. E[b] = E[b - 1] \o Part(list2[b], f)
    BY <2>3, <1>1, <1>3 DEF Stepwise
  <2>6. G[n + b] = G[n + (b - 1)] \o Part(both[n + b], f)
    <3>1. n + b \in 1..(n + k) /\ (n + b) - 1 = n + (b - 1) /\ n + k \in Nat
      BY <2>3, <1>1
    <3> HIDE DEF Bad
    <3>2. G[n + b] = G[(n + b) - 1] \o Part(both[n + b], f)
      BY <3>1, <1>4 DEF Stepwise
    <3> QED
      BY <3>1, <3>2
  <2>7. both[n + b] = list2[b]
    BY <2>2, <2>3, <1>1
  <2>8. E[b - 1] \in Seq(S) /\ Part(list2[b], f) \in Seq(S)
    <3>1. E[b - 1] \in Seq(S)
      BY <2>3, <1>1, <1>3, DrawsType
    <3> QED
      BY <3>1 DEF Part, Values
  <2>9. G[n + b] = G[n] \o E[b]
    <3> DEFINE x == G[n]
               y == E[b - 1]
               z == Part(list2[b], f)
    <3>1. x \in Seq(S) /\ y \in Seq(S) /\ z \in Seq(S)
      BY <2>8, <1>5
    <3>2. G[n + b] = (x \o y) \o z /\ E[b] = y \o z
      BY <2>4, <2>5, <2>6, <2>7
    <3> HIDE DEF x, y, z
    <3>3. (x \o y) \o z = x \o (y \o z)
      BY SMTT(60), <3>1
    <3> QED
      BY <3>2, <3>3 DEF x
  <2> QED
    BY <2>0, <2>9
<1>7. G[n + k] = G[n] \o E[k]
  <2>1. k \in 0..k
    BY <1>1
  <2> QED
    BY <2>1, <1>6
<1> QED
  BY <1>2, <1>3, <1>4, <1>5, <1>7 DEF both

\* From a list of one element.
LEMMA DrawnUnit ==
    ASSUME NEW T, NEW e \in T, NEW S, NEW f, Values(f, S)
    PROVE  Drawn(<<e>>, f) = Part(e, f)
<1>1. Len(<<e>>) = 1 /\ <<e>>[1] = e
  OBVIOUS
<1>2. PICK D : Stepwise(D, <<e>>, f, 1) /\ Drawn(<<e>>, f) = D[1]
  BY <1>1, DrawnIs
<1>3. D[0] = <<>> /\ D[1] = D[1 - 1] \o Part(<<e>>[1], f)
  BY <1>2 DEF Stepwise
<1> DEFINE x == Part(e, f)
<1>4. x \in Seq(S)
  BY DEF Part, Values
<1>7. Part(<<e>>[1], f) = x /\ D[1 - 1] = <<>>
  BY <1>1, <1>3
<1> HIDE DEF x
<1>5. Drawn(<<e>>, f) = <<>> \o x
  BY <1>2, <1>3, <1>7
<1>6. <<>> \o x = x
  BY <1>4
<1> QED
  BY <1>5, <1>6 DEF x

\* What is drawn with the next element at the end, and without the first one.
LEMMA DrawnAppend ==
    ASSUME NEW T, NEW list \in Seq(T), NEW e \in T, NEW S, NEW f, Values(f, S)
    PROVE  Drawn(Append(list, e), f) = Drawn(list, f) \o Part(e, f)
<1> DEFINE u == <<e>>
<1>1. Append(list, e) = list \o u /\ u \in Seq(T)
  OBVIOUS
<1>3. Drawn(u, f) = Part(e, f)
  BY DrawnUnit
<1> HIDE DEF u
<1>2. Drawn(list \o u, f) = Drawn(list, f) \o Drawn(u, f)
  BY <1>1, DrawnConcat
<1> QED
  BY <1>1, <1>2, <1>3

LEMMA DrawnTail ==
    ASSUME NEW T, NEW list \in Seq(T), list # <<>>, NEW S, NEW f, Values(f, S)
    PROVE  Drawn(list, f) = Part(Head(list), f) \o Drawn(Tail(list), f)
<1> DEFINE u == <<Head(list)>>
           v == Tail(list)
<1>1. list = u \o v /\ Head(list) \in T /\ v \in Seq(T)
  OBVIOUS
<1>2. u \in Seq(T)
  BY <1>1
<1>4. Drawn(u, f) = Part(Head(list), f)
  BY <1>1, DrawnUnit
<1> HIDE DEF u, v
<1>3. Drawn(u \o v, f) = Drawn(u, f) \o Drawn(v, f)
  BY <1>1, <1>2, DrawnConcat
<1> QED
  BY <1>1, <1>3, <1>4 DEF v

\* Nothing is drawn from a list with none of the elements, and one from a list with one.
LEMMA DrawnNone ==
    ASSUME NEW T, NEW list \in Seq(T), NEW f, \A i \in DOMAIN list : list[i] \notin DOMAIN f
    PROVE  Drawn(list, f) = <<>>
<1>1. Len(list) \in Nat
  OBVIOUS
<1>2. PICK D : Stepwise(D, list, f, Len(list)) /\ Drawn(list, f) = D[Len(list)]
  BY <1>1, DrawnIs
<1> DEFINE Bad == {i \in 0..Len(list) : D[i] # <<>>}
<1>3. Bad = {}
  <2> SUFFICES ASSUME Bad # {} PROVE FALSE
    OBVIOUS
  <2>1. PICK b \in Bad : \A i \in Bad : b <= i
    <3> Bad \in SUBSET Nat
      OBVIOUS
    <3> HIDE DEF Bad
    <3> QED
      BY Least
  <2>2. b # 0
    BY <1>1, <1>2, <2>1 DEF Stepwise
  <2>3. b - 1 \in 0..Len(list) /\ (b - 1) + 1 = b /\ b <= Len(list) /\ D[b - 1] = <<>>
    BY <2>1, <2>2
  <2>4. D[b] = D[b - 1] \o Part(list[b], f)
    <3>1. \A i \in 1..Len(list) : D[i] = D[i - 1] \o Part(list[i], f)
      BY <1>1, <1>2 DEF Stepwise
    <3>2. b \in 1..Len(list)
      BY <2>2, <2>3
    <3> HIDE DEF Bad
    <3> QED
      BY <3>1, <3>2
  <2>5. b \in DOMAIN list
    BY <2>2, <2>3
  <2>6. Part(list[b], f) = <<>>
    BY <2>5 DEF Part, Values
  <2>7. D[b] = <<>>
    BY <2>3, <2>4, <2>6
  <2> QED
    BY <2>1, <2>7
<1> QED
  BY <1>1, <1>2, <1>3

LEMMA DrawnOne ==
    ASSUME NEW T, NEW list \in Seq(T), NEW S, NEW f, Values(f, S),
           NEW k \in DOMAIN list, \A i \in DOMAIN list : list[i] \in DOMAIN f <=> i = k
    PROVE  Drawn(list, f) = <<f[list[k]]>>
<1> DEFINE n == Len(list)
           a == SubSeq(list, 1, k - 1)
           b == SubSeq(list, k + 1, n)
<1>1. /\ n \in Nat /\ k \in 1..n /\ list[k] \in T
      /\ a \in Seq(T) /\ Len(a) = k - 1 /\ \A i \in 1..(k - 1) : a[i] = list[i]
      /\ b \in Seq(T) /\ Len(b) = n - k /\ \A i \in 1..(n - k) : b[i] = list[k + i]
  OBVIOUS
<1> HIDE DEF a, b, n
<1>2. list = (a \o <<list[k]>>) \o b
  <2> DEFINE l == (a \o <<list[k]>>) \o b
  <2> DEFINE h == a \o <<list[k]>>
  <2>4. h \in Seq(T) /\ Len(h) = k /\ h[k] = list[k] /\ \A i \in 1..(k - 1) : h[i] = a[i]
    BY <1>1
  <2> HIDE DEF h
  <2>1. l \in Seq(T) /\ Len(l) = n /\ (\A i \in 1..k : l[i] = h[i])
        /\ \A i \in 1..(n - k) : l[k + i] = b[i]
    <3>1. l = h \o b
      BY DEF h
    <3> HIDE DEF l
    <3>4. h \in Seq(T) /\ b \in Seq(T) /\ k = Len(h) /\ n - k = Len(b)
      BY <2>4, <1>1
    <3>5. /\ h \o b \in Seq(T) /\ Len(h \o b) = Len(h) + Len(b)
          /\ \A i \in 1..Len(h) : (h \o b)[i] = h[i]
          /\ \A i \in 1..Len(b) : (h \o b)[Len(h) + i] = b[i]
      BY <3>4
    <3>2. /\ h \o b \in Seq(T) /\ Len(h \o b) = k + (n - k)
          /\ \A i \in 1..k : (h \o b)[i] = h[i]
          /\ \A i \in 1..(n - k) : (h \o b)[k + i] = b[i]
      BY <3>4, <3>5
    <3>3. k + (n - k) = n
      BY <1>1
    <3> QED
      BY <3>1, <3>2, <3>3
  <2> HIDE DEF l
  <2>2. ASSUME NEW i \in 1..n PROVE l[i] = list[i]
    <3>1. CASE i < k
      <4>1. i \in 1..k /\ i \in 1..(k - 1)
        BY <1>1, <3>1
      <4>2. l[i] = h[i] /\ h[i] = a[i] /\ a[i] = list[i]
        BY <4>1, <2>1, <2>4, <1>1
      <4> QED
        BY <4>2
    <3>2. CASE i = k
      BY <1>1, <2>1, <2>4, <3>2
    <3>3. CASE i > k
      <4>1. i - k \in 1..(n - k) /\ k \in Int
        BY <1>1, <3>3
      <4>2. b[i - k] = list[k + (i - k)]
        BY <1>1, <4>1
      <4>3. l[i] = b[i - k]
        <5>1. k + (i - k) = i
          BY <1>1
        <5> QED
          BY <2>1, <4>1, <5>1
      <4> QED
        BY SMTT(60), <1>1, <4>2, <4>3
    <3> QED
      BY <1>1, <3>1, <3>2, <3>3
  <2>3. list \in Seq(T) /\ Len(list) = n
    BY DEF n
  <2>5. l = list
    BY <2>1, <2>2, <2>3
  <2> QED
    BY <2>5 DEF l
<1>3. Drawn(a, f) = <<>>
  <2>1. \A i \in DOMAIN a : a[i] \notin DOMAIN f
    BY <1>1 DEF n
  <2> QED
    BY <1>1, <2>1, DrawnNone
<1>4. Drawn(b, f) = <<>>
  <2> SUFFICES ASSUME NEW i \in DOMAIN b PROVE b[i] \notin DOMAIN f
    BY <1>1, DrawnNone
  <2>1. i \in 1..(n - k) /\ b[i] = list[k + i] /\ k + i \in DOMAIN list /\ k + i # k
    BY <1>1 DEF n
  <2> QED
    BY <2>1
<1>5. Drawn(<<list[k]>>, f) = <<f[list[k]]>>
  BY <1>1, DrawnUnit DEF Part, Values
<1> DEFINE u == <<list[k]>>
<1>6. u \in Seq(T) /\ list = (a \o u) \o b /\ Drawn(u, f) = <<f[list[k]]>>
  BY SMTT(60), <1>1, <1>2, <1>5
<1> HIDE DEF u
<1> DEFINE h == a \o u
<1>7. a \in Seq(T) /\ b \in Seq(T) /\ u \in Seq(T) /\ h \in Seq(T)
  BY <1>1, <1>6
<1>9. Drawn(h, f) = Drawn(a, f) \o Drawn(u, f)
  BY SMTT(60), <1>7, DrawnConcat
<1>10. list = h \o b
  BY <1>6
<1> HIDE DEF h
<1>12. h \in Seq(T) /\ b \in Seq(T)
  BY <1>7
<1>11. Drawn(h \o b, f) = Drawn(h, f) \o Drawn(b, f)
  BY <1>12, DrawnConcat
<1> DEFINE w == <<f[list[k]]>>
<1>13. Drawn(list, f) = (<<>> \o w) \o <<>> /\ f[list[k]] \in S
  BY <1>3, <1>4, <1>6, <1>9, <1>10, <1>11 DEF Values
<1>14. w \in Seq(S)
  BY <1>13
<1> HIDE DEF w
<1>15. (<<>> \o w) \o <<>> = w
  BY <1>14
<1> QED
  BY <1>13, <1>15 DEF w

\* What is drawn is the value of an element of the list, and all such are drawn.
LEMMA DrawnFrom ==
    ASSUME NEW T, NEW list \in Seq(T), NEW S, NEW f, Values(f, S)
    PROVE  /\ \A k \in DOMAIN Drawn(list, f) : \E i \in DOMAIN list :
                 list[i] \in DOMAIN f /\ Drawn(list, f)[k] = f[list[i]]
           /\ \A i \in DOMAIN list : list[i] \in DOMAIN f =>
                 \E k \in DOMAIN Drawn(list, f) : Drawn(list, f)[k] = f[list[i]]
<1>1. Len(list) \in Nat
  OBVIOUS
<1>2. PICK D : Stepwise(D, list, f, Len(list)) /\ Drawn(list, f) = D[Len(list)]
  BY <1>1, DrawnIs
<1> DEFINE Good(n) == /\ \A k \in DOMAIN D[n] : \E i \in 1..n :
                            list[i] \in DOMAIN f /\ D[n][k] = f[list[i]]
                      /\ \A i \in 1..n : list[i] \in DOMAIN f =>
                            \E k \in DOMAIN D[n] : D[n][k] = f[list[i]]
           Bad == {n \in 0..Len(list) : ~Good(n)}
<1>3. Bad = {}
  <2> SUFFICES ASSUME Bad # {} PROVE FALSE
    OBVIOUS
  <2>1. PICK b \in Bad : \A i \in Bad : b <= i
    <3> Bad \in SUBSET Nat
      OBVIOUS
    <3> HIDE DEF Bad
    <3> QED
      BY Least
  <2>2. b \in Nat /\ b <= Len(list)
    BY <2>1
  <2>3. b # 0
    <3>1. D[0] = <<>>
      BY <1>1, <1>2 DEF Stepwise
    <3>2. Good(0)
      BY <3>1
    <3> QED
      BY <2>1, <3>2
  <2>4. b - 1 \in 0..Len(list) /\ (b - 1) + 1 = b /\ Good(b - 1)
    <3>1. b - 1 \in 0..Len(list) /\ (b - 1) + 1 = b /\ ~(b <= b - 1)
      BY <2>2, <2>3
    <3>2. b - 1 \notin Bad
      <4> HIDE DEF Bad
      <4> QED
        BY <3>1, <2>1
    <3> HIDE DEF Good
    <3> QED
      BY <3>1, <3>2
  <2>5. D[b] = D[b - 1] \o Part(list[b], f)
    <3>1. \A i \in 1..Len(list) : D[i] = D[i - 1] \o Part(list[i], f)
      BY <1>1, <1>2 DEF Stepwise
    <3>2. b \in 1..Len(list)
      BY <2>2, <2>3
    <3> HIDE DEF Bad
    <3> QED
      BY <3>1, <3>2
  <2>6. D[b - 1] \in Seq(S) /\ D[b] \in Seq(S)
    BY <1>1, <1>2, <2>1, <2>4, DrawsType
  <2> HIDE DEF Bad
  <2>7. Good(b)
    <3>1. CASE list[b] \notin DOMAIN f
      <4>1. D[b] = D[b - 1]
        BY <2>5, <2>6, <3>1 DEF Part, Values
      <4>2. \A i \in 1..b : i = b \/ i \in 1..(b - 1)
        BY <2>2
      <4>3. \A i \in 1..(b - 1) : i \in 1..b
        BY <2>2
      <4> QED
        BY <2>4, <3>1, <4>1, <4>2, <4>3
    <3>2. CASE list[b] \in DOMAIN f
      <4> DEFINE v == f[list[b]]
      <4>1. D[b] = Append(D[b - 1], v) /\ v \in S
        BY <2>5, <2>6, <3>2 DEF Part, Values
      <4> HIDE DEF v
      <4>2. /\ \A k \in DOMAIN D[b - 1] : k \in DOMAIN D[b] /\ D[b][k] = D[b - 1][k]
            /\ Len(D[b - 1]) + 1 \in DOMAIN D[b] /\ D[b][Len(D[b - 1]) + 1] = v
            /\ \A k \in DOMAIN D[b] : k \in DOMAIN D[b - 1] \/ k = Len(D[b - 1]) + 1
        BY <2>6, <4>1
      <4>3. (\A i \in 1..b : i = b \/ i \in 1..(b - 1)) /\ \A i \in 1..(b - 1) : i \in 1..b
        BY <2>2
      <4>4. b \in 1..b
        BY <2>2, <2>3
      <4>5. ASSUME NEW k \in DOMAIN D[b]
            PROVE \E i \in 1..b : list[i] \in DOMAIN f /\ D[b][k] = f[list[i]]
        <5>1. CASE k \in DOMAIN D[b - 1]
          BY <2>4, <4>2, <4>3, <5>1
        <5>2. CASE k = Len(D[b - 1]) + 1
          BY <3>2, <4>2, <4>4, <5>2 DEF v
        <5> QED
          BY <4>2, <5>1, <5>2
      <4>6. ASSUME NEW i \in 1..b, list[i] \in DOMAIN f
            PROVE \E k \in DOMAIN D[b] : D[b][k] = f[list[i]]
        <5>1. CASE i = b
          BY <4>2, <5>1 DEF v
        <5>2. CASE i \in 1..(b - 1)
          <6>1. PICK k \in DOMAIN D[b - 1] : D[b - 1][k] = f[list[i]]
            BY <2>4, <4>6, <5>2
          <6> QED
            BY <4>2, <6>1
        <5> QED
          BY <4>3, <5>1, <5>2
      <4> QED
        BY <4>5, <4>6
    <3> QED
      BY <3>1, <3>2
  <2> QED
    BY <2>1, <2>7 DEF Bad
<1>4. Good(Len(list))
  BY <1>1, <1>3
<1>5. DOMAIN list = 1..Len(list)
  OBVIOUS
<1> QED
  BY <1>2, <1>4, <1>5
=============================================================================
