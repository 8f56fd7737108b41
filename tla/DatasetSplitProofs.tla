------------------------- MODULE DatasetSplitProofs -------------------------
(***************************************************************************)
(* What the split of a data set guarantees for every data, every size of   *)
(* the chunks and of the test part, and that it is a stratified split.     *)
(***************************************************************************)
EXTENDS DatasetSplit, FiniteSetTheorems, SequenceTheorems, WellFoundedInduction, TLAPS

\* A set of numbers has a least one.
LEMMA LeastNumber ==
    ASSUME NEW T, T \subseteq Nat, T # {}
    PROVE  \E m \in T : \A k \in T : m <= k
<1> DEFINE R == OpToRel(<, Nat)
<1>1. IsWellFoundedOn(R, Nat) BY NatLessThanWellFounded
<1>2. \A m, k \in Nat : k < m => <<k, m>> \in R BY DEF OpToRel
<1> HIDE DEF R
<1>3. PICK m \in T : \A k \in T : ~(<<k, m>> \in R) BY <1>1, WFMin
<1>4. \A k \in T : ~(k < m) BY <1>2, <1>3
<1>5. T \subseteq Int OBVIOUS
<1>6. \A k \in T : m <= k BY <1>4, <1>5
<1> QED BY <1>6

\* Induction up to n, for the set of the numbers at which something holds.
LEMMA UpTo ==
    ASSUME NEW n \in Nat, NEW G, 0 \in G, \A i \in 1..n : i - 1 \in G => i \in G
    PROVE  \A i \in 0..n : i \in G
<1> DEFINE T == {i \in 0..n : i \notin G}
<1>1. SUFFICES ASSUME T # {} PROVE FALSE OBVIOUS
<1>2. T \subseteq Nat OBVIOUS
<1>3. PICK m \in T : \A k \in T : m <= k
  <2> HIDE DEF T
  <2> QED BY <1>1, <1>2, LeastNumber
<1>4. m \in 1..n OBVIOUS
<1>5. m - 1 \in 0..n /\ m - 1 \notin T BY <1>3, <1>4
<1> QED BY <1>3, <1>4, <1>5

\* Repeating n steps, each a function on D.
Iterates(f, n, D, a, h) == f \in [0..n -> D] /\ f[0] = a /\ \A i \in 1..n : f[i] = h[i][f[i - 1]]

LEMMA Iteration ==
    ASSUME NEW n \in Nat, NEW D, NEW a \in D, NEW h \in [1..n -> [D -> D]]
    PROVE  \E f : Iterates(f, n, D, a, h)
<1> DEFINE Good(k, f) == f \in [0..k -> D] /\ f[0] = a /\ \A i \in 1..k : f[i] = h[i][f[i - 1]]
           G == {k \in 0..n : \E f : Good(k, f)}
<1>1. 0 \in G
  <2> DEFINE g == [i \in 0..0 |-> a]
  <2>1. Good(0, g) OBVIOUS
  <2> HIDE DEF Good, g
  <2> QED BY <2>1
<1>2. ASSUME NEW k \in 1..n, k - 1 \in G PROVE k \in G
  <2>1. PICK f : Good(k - 1, f) BY <1>2
  <2> DEFINE g == [i \in 0..k |-> IF i = k THEN h[k][f[k - 1]] ELSE f[i]]
  <2>2. k - 1 \in 0..(k - 1) /\ f[k - 1] \in D BY <2>1
  <2>3. h[k][f[k - 1]] \in D BY <2>2
  <2>4. g \in [0..k -> D] BY <2>1, <2>3
  <2>5. g[0] = a BY <2>1
  <2>6. \A i \in 1..k : g[i] = h[i][g[i - 1]] BY <2>1
  <2>7. Good(k, g) BY <2>4, <2>5, <2>6
  <2> HIDE DEF Good, g
  <2> QED BY <2>7
<1> HIDE DEF G
<1>3. \A k \in 0..n : k \in G BY <1>1, <1>2, UpTo
<1>4. n \in G BY <1>3
<1>5. PICK f : Good(n, f) BY <1>4 DEF G
<1> QED BY <1>5 DEF Iterates

\* What appending does.
LEMMA AppendedOne ==
    ASSUME NEW T, NEW q \in Seq(T), NEW x \in T
    PROVE  LET a == Append(q, x)
           IN  /\ a \in Seq(T) /\ Len(q) \in Nat /\ DOMAIN q = 1..Len(q)
               /\ Len(a) = Len(q) + 1 /\ DOMAIN a = 1..(Len(q) + 1)
               /\ \A i \in 1..Len(q) : a[i] = q[i]
               /\ a[Len(q) + 1] = x
<1> DEFINE a == Append(q, x)
<1>1. /\ a \in Seq(T) /\ Len(a) = Len(q) + 1
      /\ \A i \in 1..Len(q) : a[i] = q[i]
      /\ a[Len(q) + 1] = x
      BY AppendProperties
<1>2. /\ Len(q) \in Nat /\ DOMAIN q = 1..Len(q) /\ DOMAIN a = 1..Len(a) BY <1>1, LenProperties
<1> HIDE DEF a
<1>3. DOMAIN a = 1..(Len(q) + 1) BY <1>1, <1>2
<1> QED BY <1>1, <1>2, <1>3 DEF a

-----------------------------------------------------------------------------
(* Filtering                                                               *)

\* f builds up the elements of s that are in S.
Builds(f, s, S) ==
    /\ f[0] = <<>>
    /\ \A i \in 1..Len(s) : f[i] = IF s[i] \in S THEN Append(f[i - 1], s[i]) ELSE f[i - 1]

LEMMA OnlySteps ==
    ASSUME NEW T, NEW s \in Seq(T), NEW S
    PROVE  \E f \in [0..Len(s) -> Seq(T)] : Only(s, S) = f[Len(s)] /\ Builds(f, s, S)
<1> DEFINE n == Len(s)
           Body(g) == [i \in 0..n |->
                          IF i = 0 THEN <<>> ELSE IF s[i] \in S THEN Append(g[i - 1], s[i]) ELSE g[i - 1]]
           h == [i \in 1..n |-> [q \in Seq(T) |-> IF s[i] \in S THEN Append(q, s[i]) ELSE q]]
           iter == CHOOSE g : g = Body(g)
<1>1. n \in Nat /\ \A i \in 1..n : s[i] \in T BY LenProperties, ElementOfSeq
<1>2. Only(s, S) = iter[n] BY DEF Only
<1>3. h \in [1..n -> [Seq(T) -> Seq(T)]] BY <1>1, AppendProperties
<1>4. <<>> \in Seq(T) BY EmptySeq
<1>5. PICK f \in [0..n -> Seq(T)] : f[0] = <<>> /\ \A i \in 1..n : f[i] = h[i][f[i - 1]]
  <2>1. \E f : Iterates(f, n, Seq(T), <<>>, h)
    <3> HIDE DEF h, n
    <3> QED BY <1>1, <1>3, <1>4, Iteration
  <2>2. PICK f : Iterates(f, n, Seq(T), <<>>, h) BY <2>1
  <2> HIDE DEF h, n
  <2> QED BY <2>2 DEF Iterates
<1>6. Builds(f, s, S)
  <2>1. ASSUME NEW i \in 1..n PROVE f[i] = IF s[i] \in S THEN Append(f[i - 1], s[i]) ELSE f[i - 1]
    <3>1. i - 1 \in 0..n BY <1>1
    <3>2. f[i - 1] \in Seq(T) BY <1>5, <3>1
    <3> QED BY <1>5, <3>2
  <2> HIDE DEF h
  <2> QED BY <1>5, <2>1 DEF Builds
<1> HIDE DEF h
<1>7. ASSUME NEW g
      PROVE  /\ Body(g)[0] = <<>>
             /\ \A i \in 1..n : Body(g)[i] = IF s[i] \in S THEN Append(g[i - 1], s[i]) ELSE g[i - 1]
      BY <1>1
<1>8. f = Body(f)
  <2> DEFINE b == Body(f)
  <2>1. b = [i \in 0..n |-> b[i]] OBVIOUS
  <2>2. b[0] = <<>> /\ \A i \in 1..n : b[i] = IF s[i] \in S THEN Append(f[i - 1], s[i]) ELSE f[i - 1]
        BY <1>7
  <2> HIDE DEF b
  <2>3. \A i \in 0..n : f[i] = b[i] BY <1>1, <1>6, <2>2 DEF Builds
  <2>4. f = [i \in 0..n |-> f[i]] BY <1>5
  <2>5. f = b BY <2>1, <2>3, <2>4
  <2> QED BY <2>5 DEF b
<1>9. iter = Body(iter)
  <2>1. \E g : g = Body(g) BY <1>8
  <2> HIDE DEF Body
  <2> QED BY <2>1
<1>10. /\ iter[0] = <<>>
       /\ \A i \in 1..n : iter[i] = IF s[i] \in S THEN Append(iter[i - 1], s[i]) ELSE iter[i - 1]
  <2> HIDE DEF iter, Body
  <2> QED BY <1>7, <1>9
<1> HIDE DEF iter, Body
<1>11. \A i \in 0..n : iter[i] = f[i]
  <2> DEFINE G == {i \in 0..n : iter[i] = f[i]}
  <2>1. 0 \in G BY <1>1, <1>6, <1>10 DEF Builds
  <2>2. \A i \in 1..n : i - 1 \in G => i \in G BY <1>1, <1>6, <1>10 DEF Builds
  <2> HIDE DEF G, n
  <2>3. \A i \in 0..n : i \in G BY <1>1, <2>1, <2>2, UpTo
  <2> QED BY <2>3 DEF G
<1>12. Only(s, S) = f[n] BY <1>1, <1>2, <1>11
<1> QED BY <1>5, <1>6, <1>12

\* e maps each place of the result r to the place of s it comes from.
Traces(e, r, s, n, S) ==
    /\ DOMAIN e = DOMAIN r
    /\ \A k \in DOMAIN r : e[k] \in 1..n /\ r[k] = s[e[k]] /\ s[e[k]] \in S
    /\ \A k, m \in DOMAIN r : e[k] = e[m] => k = m
    /\ \A j \in 1..n : s[j] \in S => \E k \in DOMAIN r : e[k] = j

LEMMA OnlyTraces ==
    ASSUME NEW T, NEW s \in Seq(T), NEW S
    PROVE  Only(s, S) \in Seq(T) /\ \E e : Traces(e, Only(s, S), s, Len(s), S)
<1> DEFINE n == Len(s)
<1>1. n \in Nat /\ DOMAIN s = 1..n /\ \A i \in 1..n : s[i] \in T BY LenProperties, ElementOfSeq
<1>2. PICK f \in [0..n -> Seq(T)] : Only(s, S) = f[n] /\ Builds(f, s, S) BY OnlySteps
<1>3. \A i \in 1..n : f[i] = IF s[i] \in S THEN Append(f[i - 1], s[i]) ELSE f[i - 1]
      BY <1>2 DEF Builds
<1> DEFINE G == {i \in 0..n : \E e : Traces(e, f[i], s, i, S)}
<1> HIDE DEF n
<1>4. 0 \in G
  <2>1. f[0] = <<>> BY <1>2 DEF Builds
  <2>2. DOMAIN <<>> = {} BY EmptySeq, LenProperties
  <2> DEFINE e == [k \in {} |-> 1]
  <2>3. Traces(e, f[0], s, 0, S) BY <2>1, <2>2 DEF Traces
  <2> HIDE DEF e
  <2> QED BY <1>1, <2>3
<1>5. ASSUME NEW i \in 1..n, i - 1 \in G PROVE i \in G
  <2> DEFINE q == f[i - 1]
             m == Len(q)
  <2>1. PICK e : Traces(e, q, s, i - 1, S) BY <1>5
  <2>2. i - 1 \in 0..n /\ i \in Nat /\ i \in 0..n BY <1>1
  <2>3. q \in Seq(T) BY <1>2, <2>2
  <2>4. m \in Nat /\ DOMAIN q = 1..m BY <2>3, LenProperties
  <2>5. SUFFICES \E d : Traces(d, f[i], s, i, S) BY <2>2
  <2>6. CASE s[i] \in S
    <3> DEFINE d == [k \in 1..(m + 1) |-> IF k = m + 1 THEN i ELSE e[k]]
    <3>1. f[i] = Append(q, s[i]) /\ s[i] \in T BY <1>1, <1>3, <2>6
    <3>2. /\ DOMAIN f[i] = 1..(m + 1)
          /\ \A k \in 1..m : f[i][k] = q[k]
          /\ f[i][m + 1] = s[i]
          BY <2>3, <3>1, AppendedOne
    <3>3. DOMAIN d = 1..(m + 1) /\ d[m + 1] = i /\ \A k \in 1..m : d[k] = e[k] BY <2>4
    <3> HIDE DEF q, m, d
    <3>4. /\ \A k \in 1..m : e[k] \in 1..(i - 1) /\ q[k] = s[e[k]] /\ s[e[k]] \in S
          /\ \A k, l \in 1..m : e[k] = e[l] => k = l
          /\ \A j \in 1..(i - 1) : s[j] \in S => \E k \in 1..m : e[k] = j
          BY <2>1, <2>4 DEF Traces
    <3>5. \A k \in 1..(m + 1) : k \in 1..m \/ k = m + 1 BY <2>4
    <3>6. \A k \in 1..(m + 1) : d[k] \in 1..i /\ f[i][k] = s[d[k]] /\ s[d[k]] \in S
          BY <2>2, <2>6, <3>2, <3>3, <3>4, <3>5
    <3>7. \A k, l \in 1..(m + 1) : d[k] = d[l] => k = l
          BY <2>2, <3>3, <3>4, <3>5
    <3>8. \A j \in 1..i : s[j] \in S => \E k \in 1..(m + 1) : d[k] = j
      <4> SUFFICES ASSUME NEW j \in 1..i, s[j] \in S PROVE \E k \in 1..(m + 1) : d[k] = j OBVIOUS
      <4>1. CASE j = i
        <5>1. m + 1 \in 1..(m + 1) BY <2>4
        <5> QED BY <3>3, <4>1, <5>1
      <4>2. CASE j # i
        <5>1. j \in 1..(i - 1) BY <2>2, <4>2
        <5>2. PICK k \in 1..m : e[k] = j BY <3>4, <5>1
        <5>3. k \in 1..(m + 1) BY <2>4
        <5> QED BY <3>3, <5>2, <5>3
      <4> QED BY <4>1, <4>2
    <3>9. Traces(d, f[i], s, i, S) BY <3>2, <3>3, <3>6, <3>7, <3>8 DEF Traces
    <3> QED BY <3>9
  <2>7. CASE s[i] \notin S
    <3>1. f[i] = q BY <1>3, <2>7
    <3> HIDE DEF q
    <3>2. Traces(e, q, s, i, S)
      <4>1. \A j \in 1..i : s[j] \in S => j \in 1..(i - 1) BY <2>2, <2>7
      <4>2. \A j \in 1..(i - 1) : j \in 1..i BY <2>2
      <4> QED BY <2>1, <4>1, <4>2 DEF Traces
    <3> QED BY <3>1, <3>2
  <2> QED BY <2>6, <2>7
<1> HIDE DEF G
<1>6. \A i \in 0..n : i \in G BY <1>1, <1>4, <1>5, UpTo
<1>7. n \in G /\ n \in 0..n BY <1>1, <1>6
<1>8. \E e : Traces(e, f[n], s, n, S) BY <1>7 DEF G
<1> QED BY <1>2, <1>7, <1>8 DEF n

\* Filtering keeps the elements in S, and no place twice.
LEMMA OnlyKeeps ==
    ASSUME NEW T, NEW s \in Seq(T), NEW S
    PROVE  /\ Only(s, S) \in Seq(T)
           /\ ToSet(Only(s, S)) = ToSet(s) \cap S
           /\ IsInjective(s) => IsInjective(Only(s, S))
<1> DEFINE r == Only(s, S)
<1>1. PICK e : Traces(e, r, s, Len(s), S) BY OnlyTraces
<1>2. r \in Seq(T) BY OnlyTraces
<1>3. DOMAIN s = 1..Len(s) BY LenProperties
<1> HIDE DEF r
<1>4. ToSet(r) = ToSet(s) \cap S BY <1>1, <1>3 DEF ToSet, Traces
<1>5. ASSUME IsInjective(s) PROVE IsInjective(r) BY <1>1, <1>3, <1>5 DEF IsInjective, Traces
<1> QED BY <1>2, <1>4, <1>5 DEF r

LEMMA IsSeq ==
    ASSUME NEW S, NEW n \in Nat, NEW q \in [1..n -> S]
    PROVE  q \in Seq(S) /\ Len(q) = n /\ DOMAIN q = 1..n
<1>1. q = [i \in 1..n |-> q[i]] OBVIOUS
<1>2. [i \in 1..n |-> q[i]] \in Seq(S) /\ Len([i \in 1..n |-> q[i]]) = n OBVIOUS
<1> QED BY <1>1, <1>2

LEMMA EmptyIfNoPlace ==
    ASSUME NEW S, NEW q \in Seq(S), Len(q) = 0
    PROVE  q = <<>>
BY EmptySeq

-----------------------------------------------------------------------------
(* Flattening                                                              *)

LEMMA ConcatTwo ==
    ASSUME NEW T, NEW q \in Seq(T), NEW u \in Seq(T)
    PROVE  LET c == q \o u
           IN  /\ c \in Seq(T) /\ Len(q) \in Nat /\ Len(u) \in Nat
               /\ DOMAIN q = 1..Len(q) /\ DOMAIN u = 1..Len(u)
               /\ Len(c) = Len(q) + Len(u) /\ DOMAIN c = 1..(Len(q) + Len(u))
               /\ \A k \in 1..Len(q) : c[k] = q[k]
               /\ \A k \in 1..Len(u) : c[Len(q) + k] = u[k]
<1> DEFINE c == q \o u
<1>1. /\ c \in Seq(T) /\ Len(c) = Len(q) + Len(u)
      /\ \A k \in 1..(Len(q) + Len(u)) : c[k] = IF k <= Len(q) THEN q[k] ELSE u[k - Len(q)]
      BY ConcatProperties
<1>2. /\ Len(q) \in Nat /\ DOMAIN q = 1..Len(q) /\ Len(u) \in Nat /\ DOMAIN u = 1..Len(u)
      /\ DOMAIN c = 1..Len(c)
      BY <1>1, LenProperties
<1> HIDE DEF c
<1>3. DOMAIN c = 1..(Len(q) + Len(u)) BY <1>1, <1>2
<1>4. \A k \in 1..Len(q) : c[k] = q[k] BY <1>1, <1>2
<1>5. ASSUME NEW k \in 1..Len(u) PROVE c[Len(q) + k] = u[k]
  <2>1. Len(q) + k \in 1..(Len(q) + Len(u)) /\ ~(Len(q) + k <= Len(q)) /\ Len(q) + k - Len(q) = k BY <1>2
  <2> QED BY <1>1, <2>1
<1> QED BY <1>1, <1>2, <1>3, <1>4, <1>5 DEF c

Joins(f, seqs) == f[0] = <<>> /\ \A i \in 1..Len(seqs) : f[i] = f[i - 1] \o seqs[i]

LEMMA FlattenSteps ==
    ASSUME NEW T, NEW seqs \in Seq(Seq(T))
    PROVE  \E f \in [0..Len(seqs) -> Seq(T)] : FlattenSeq(seqs) = f[Len(seqs)] /\ Joins(f, seqs)
<1> DEFINE n == Len(seqs)
           Body(g) == [i \in 1..n |-> IF i = 1 THEN seqs[i] ELSE g[i - 1] \o seqs[i]]
           h == [i \in 1..n |-> [q \in Seq(T) |-> q \o seqs[i]]]
           iter == CHOOSE g : g = Body(g)
<1>1. n \in Nat /\ \A i \in 1..n : seqs[i] \in Seq(T) BY LenProperties, ElementOfSeq
<1>2. FlattenSeq(seqs) = IF n = 0 THEN seqs ELSE iter[n] BY DEF FlattenSeq
<1>3. h \in [1..n -> [Seq(T) -> Seq(T)]] BY <1>1, ConcatProperties
<1>4. <<>> \in Seq(T) BY EmptySeq
<1>5. PICK f \in [0..n -> Seq(T)] : f[0] = <<>> /\ \A i \in 1..n : f[i] = h[i][f[i - 1]]
  <2>1. \E f : Iterates(f, n, Seq(T), <<>>, h)
    <3> HIDE DEF h, n
    <3> QED BY <1>1, <1>3, <1>4, Iteration
  <2>2. PICK f : Iterates(f, n, Seq(T), <<>>, h) BY <2>1
  <2> HIDE DEF h, n
  <2> QED BY <2>2 DEF Iterates
<1>6. \A i \in 1..n : f[i] = f[i - 1] \o seqs[i]
  <2>1. ASSUME NEW i \in 1..n PROVE f[i] = f[i - 1] \o seqs[i]
    <3>1. i - 1 \in 0..n BY <1>1
    <3>2. f[i - 1] \in Seq(T) BY <1>5, <3>1
    <3> QED BY <1>5, <3>2
  <2> QED BY <2>1
<1> HIDE DEF h
<1>7. ASSUME NEW g
      PROVE  /\ DOMAIN Body(g) = 1..n
             /\ \A i \in 1..n : Body(g)[i] = IF i = 1 THEN seqs[i] ELSE g[i - 1] \o seqs[i]
      OBVIOUS
<1> DEFINE e == [i \in 1..n |-> f[i]]
<1>8. e = Body(e)
  <2> DEFINE b == Body(e)
  <2>1. b = [i \in 1..n |-> b[i]] OBVIOUS
  <2>2. \A i \in 1..n : b[i] = IF i = 1 THEN seqs[i] ELSE e[i - 1] \o seqs[i]
    <3> HIDE DEF e, Body
    <3> QED BY <1>7
  <2> HIDE DEF b
  <2>3. \A i \in 1..n : e[i] = b[i]
    <3>1. \A i \in 1..n : i # 1 => i - 1 \in 1..n /\ e[i - 1] = f[i - 1] BY <1>1
    <3>2. 1 \in 1..n => f[1] = seqs[1]
      <4>1. 1 \in 1..n => f[1] = <<>> \o seqs[1]
        <5>1. 1 \in 1..n => f[1] = f[1 - 1] \o seqs[1] BY <1>6
        <5>2. 1 - 1 = 0 OBVIOUS
        <5> QED BY <1>5, <5>1, <5>2
      <4>2. 1 \in 1..n => <<>> \o seqs[1] = seqs[1] BY <1>1, ConcatEmptySeq
      <4> QED BY <4>1, <4>2
    <3> QED BY <1>6, <2>2, <3>1, <3>2
  <2>4. e = [i \in 1..n |-> e[i]] OBVIOUS
  <2> HIDE DEF e
  <2>5. e = b BY <2>1, <2>3, <2>4
  <2> QED BY <2>5 DEF b
<1>9. iter = Body(iter)
  <2>1. \E g : g = Body(g) BY <1>8
  <2> HIDE DEF Body
  <2> QED BY <2>1
<1>10. \A i \in 1..n : iter[i] = IF i = 1 THEN seqs[i] ELSE iter[i - 1] \o seqs[i]
  <2> HIDE DEF iter, Body
  <2> QED BY <1>7, <1>9
<1>11. \A i \in 1..n : e[i] = IF i = 1 THEN seqs[i] ELSE e[i - 1] \o seqs[i]
  <2> HIDE DEF e, Body
  <2> QED BY <1>7, <1>8
<1> HIDE DEF iter, Body
<1>12. \A i \in 0..n : i \in 1..n => iter[i] = e[i]
  <2> DEFINE G == {i \in 0..n : i \in 1..n => iter[i] = e[i]}
  <2> HIDE DEF e
  <2>1. 0 \in G BY <1>1
  <2>2. \A i \in 1..n : i - 1 \in G => i \in G BY <1>1, <1>10, <1>11
  <2> HIDE DEF G, n
  <2>3. \A i \in 0..n : i \in G BY <1>1, <2>1, <2>2, UpTo
  <2> QED BY <2>3 DEF G
<1>13. FlattenSeq(seqs) = f[n]
  <2>1. CASE n = 0
    <3>1. seqs = <<>> BY <2>1, EmptyIfNoPlace
    <3> QED BY <1>2, <1>5, <2>1, <3>1
  <2>2. CASE n # 0
    <3>1. n \in 1..n BY <1>1, <2>2
    <3> QED BY <1>2, <1>12, <2>2, <3>1
  <2> QED BY <2>1, <2>2
<1> QED BY <1>5, <1>6, <1>13 DEF Joins

\* p maps each place of the flat sequence r to the two places it comes from.
Locates(p, r, seqs, n) ==
    /\ DOMAIN p = DOMAIN r
    /\ \A k \in DOMAIN r : \E i \in 1..n : \E j \in DOMAIN seqs[i] : p[k] = <<i, j>> /\ r[k] = seqs[i][j]
    /\ \A k, m \in DOMAIN r : p[k] = p[m] => k = m
    /\ \A i \in 1..n : \A j \in DOMAIN seqs[i] : \E k \in DOMAIN r : p[k] = <<i, j>>

LEMMA FlattenLocates ==
    ASSUME NEW T, NEW seqs \in Seq(Seq(T))
    PROVE  FlattenSeq(seqs) \in Seq(T) /\ \E p : Locates(p, FlattenSeq(seqs), seqs, Len(seqs))
<1> DEFINE n == Len(seqs)
<1>1. n \in Nat /\ \A i \in 1..n : seqs[i] \in Seq(T) BY LenProperties, ElementOfSeq
<1>2. PICK f \in [0..n -> Seq(T)] : FlattenSeq(seqs) = f[n] /\ Joins(f, seqs) BY FlattenSteps
<1>3. f[0] = <<>> /\ \A i \in 1..n : f[i] = f[i - 1] \o seqs[i] BY <1>2 DEF Joins
<1> DEFINE G == {i \in 0..n : \E p : Locates(p, f[i], seqs, i)}
<1> HIDE DEF n
<1>4. 0 \in G
  <2>1. DOMAIN <<>> = {} BY EmptySeq, LenProperties
  <2> DEFINE p == [k \in {} |-> 1]
  <2>2. Locates(p, f[0], seqs, 0) BY <1>3, <2>1 DEF Locates
  <2> HIDE DEF p
  <2> QED BY <1>1, <2>2
<1>5. ASSUME NEW i \in 1..n, i - 1 \in G PROVE i \in G
  <2> DEFINE q == f[i - 1]
             u == seqs[i]
             m == Len(q)
             c == Len(u)
  <2>1. PICK p : Locates(p, q, seqs, i - 1) BY <1>5
  <2>2. i - 1 \in 0..n /\ i \in Nat /\ i \in 0..n BY <1>1
  <2>3. q \in Seq(T) /\ u \in Seq(T) BY <1>1, <1>2, <2>2
  <2>4. f[i] = q \o u BY <1>3
  <2>5. /\ m \in Nat /\ c \in Nat /\ DOMAIN q = 1..m /\ DOMAIN u = 1..c
        /\ DOMAIN f[i] = 1..(m + c)
        /\ \A k \in 1..m : f[i][k] = q[k]
        /\ \A k \in 1..c : f[i][m + k] = u[k]
    <3> HIDE DEF q, u
    <3> QED BY <2>3, <2>4, ConcatTwo
  <2>6. SUFFICES \E d : Locates(d, f[i], seqs, i) BY <2>2
  <2> DEFINE d == [k \in 1..(m + c) |-> IF k <= m THEN p[k] ELSE <<i, k - m>>]
  <2>7. /\ DOMAIN d = 1..(m + c)
        /\ \A k \in 1..m : d[k] = p[k]
        /\ \A k \in 1..c : d[m + k] = <<i, k>>
    <3>0. m \in Nat /\ c \in Nat BY <2>5
    <3> HIDE DEF m, c
    <3>1. \A k \in 1..m : k \in 1..(m + c) /\ k <= m BY <3>0
    <3>2. \A k \in 1..c : m + k \in 1..(m + c) /\ ~(m + k <= m) /\ (m + k) - m = k BY <3>0
    <3>7. \A x \in 1..(m + c) : ~(x <= m) => d[x] = <<i, x - m>> BY Zenon
    <3>3. ASSUME NEW k \in 1..c PROVE d[m + k] = <<i, (m + k) - m>>
      <4>1. m + k \in 1..(m + c) /\ ~(m + k <= m) BY <3>2
      <4> HIDE DEF d
      <4>2. \A x : x \in 1..(m + c) /\ ~(x <= m) => d[x] = <<i, x - m>> BY <3>7
      <4>3. \A x : x = m + k => d[x] = <<i, x - m>> BY <4>1, <4>2, Zenon
      <4> QED BY <4>3, Zenon
    <3>4. \A k \in 1..c : <<i, (m + k) - m>> = <<i, k>> BY <3>2
    <3>5. DOMAIN d = 1..(m + c) OBVIOUS
    <3>6. \A k \in 1..m : d[k] = p[k] BY <3>1
    <3> HIDE DEF d
    <3> QED BY <3>3, <3>4, <3>5, <3>6
  <2>8. \A k \in 1..(m + c) : k \in 1..m \/ \E l \in 1..c : k = m + l
    <3>0. m \in Nat /\ c \in Nat BY <2>5
    <3> HIDE DEF m, c
    <3> SUFFICES ASSUME NEW k \in 1..(m + c), k \notin 1..m PROVE \E l \in 1..c : k = m + l OBVIOUS
    <3>1. k - m \in 1..c /\ k = m + (k - m) BY <3>0
    <3> QED BY <3>1
  <2>9. /\ \A k \in 1..m : \E a \in 1..(i - 1) : \E j \in DOMAIN seqs[a] : p[k] = <<a, j>> /\ q[k] = seqs[a][j]
        /\ \A k, l \in 1..m : p[k] = p[l] => k = l
        /\ \A a \in 1..(i - 1) : \A j \in DOMAIN seqs[a] : \E k \in 1..m : p[k] = <<a, j>>
        BY <2>1, <2>5 DEF Locates
  <2> HIDE DEF q, m, c, d
  <2>10. \A k \in 1..(m + c) :
            \E a \in 1..i : \E j \in DOMAIN seqs[a] : d[k] = <<a, j>> /\ f[i][k] = seqs[a][j]
    <3> SUFFICES ASSUME NEW k \in 1..(m + c)
                 PROVE  \E a \in 1..i : \E j \in DOMAIN seqs[a] : d[k] = <<a, j>> /\ f[i][k] = seqs[a][j]
        OBVIOUS
    <3>1. CASE k \in 1..m
      <4>1. PICK a \in 1..(i - 1) : \E j \in DOMAIN seqs[a] : p[k] = <<a, j>> /\ q[k] = seqs[a][j]
            BY <2>9, <3>1
      <4>2. a \in 1..i BY <2>2
      <4>3. d[k] = p[k] /\ f[i][k] = q[k] BY <2>5, <2>7, <3>1
      <4> QED BY <4>1, <4>2, <4>3
    <3>2. CASE k \notin 1..m
      <4>1. PICK l \in 1..c : k = m + l BY <2>8, <3>2
      <4>2. d[k] = <<i, l>> /\ f[i][k] = seqs[i][l] /\ l \in DOMAIN seqs[i] BY <2>5, <2>7, <4>1 DEF u
      <4>3. i \in 1..i BY <2>2
      <4> QED BY <4>2, <4>3
    <3> QED BY <3>1, <3>2
  <2>11. \A k, l \in 1..(m + c) : d[k] = d[l] => k = l
    <3> SUFFICES ASSUME NEW k \in 1..(m + c), NEW l \in 1..(m + c), d[k] = d[l] PROVE k = l OBVIOUS
    <3>1. \A x \in 1..m : \E a \in 1..(i - 1) : \E j : d[x] = <<a, j>>
      <4> SUFFICES ASSUME NEW x \in 1..m PROVE \E a \in 1..(i - 1) : \E j : d[x] = <<a, j>> OBVIOUS
      <4>1. PICK a \in 1..(i - 1) : \E j \in DOMAIN seqs[a] : p[x] = <<a, j>> /\ q[x] = seqs[a][j] BY <2>9
      <4>2. d[x] = p[x] BY <2>7
      <4> QED BY <4>1, <4>2
    <3>2. \A x \in 1..m : d[x] # <<i, 0>> /\ \A y \in 1..c : d[x] # d[m + y]
      <4> SUFFICES ASSUME NEW x \in 1..m PROVE d[x] # <<i, 0>> /\ \A y \in 1..c : d[x] # d[m + y] OBVIOUS
      <4>1. PICK a \in 1..(i - 1) : \E j : d[x] = <<a, j>> BY <3>1
      <4>2. a # i BY <2>2
      <4> QED BY <2>7, <4>1, <4>2
    <3>3. CASE k \in 1..m /\ l \in 1..m BY <2>7, <2>9, <3>3
    <3>4. CASE k \in 1..m /\ l \notin 1..m BY <2>8, <3>2, <3>4
    <3>5. CASE k \notin 1..m /\ l \in 1..m BY <2>8, <3>2, <3>5
    <3>6. CASE k \notin 1..m /\ l \notin 1..m
      <4>1. PICK x \in 1..c : k = m + x BY <2>8, <3>6
      <4>2. PICK y \in 1..c : l = m + y BY <2>8, <3>6
      <4>3. <<i, x>> = <<i, y>> BY <2>7, <4>1, <4>2
      <4> QED BY <4>1, <4>2, <4>3
    <3> QED BY <3>3, <3>4, <3>5, <3>6
  <2>12. \A a \in 1..i : \A j \in DOMAIN seqs[a] : \E k \in 1..(m + c) : d[k] = <<a, j>>
    <3> SUFFICES ASSUME NEW a \in 1..i, NEW j \in DOMAIN seqs[a]
                 PROVE  \E k \in 1..(m + c) : d[k] = <<a, j>>
        OBVIOUS
    <3>1. CASE a = i
      <4>1. j \in 1..c /\ m + j \in 1..(m + c) BY <2>5, <3>1 DEF u
      <4> QED BY <2>7, <3>1, <4>1
    <3>2. CASE a # i
      <4>1. a \in 1..(i - 1) BY <2>2, <3>2
      <4>2. PICK k \in 1..m : p[k] = <<a, j>> BY <2>9, <4>1
      <4>3. k \in 1..(m + c) BY <2>5
      <4> QED BY <2>7, <4>2, <4>3
    <3> QED BY <3>1, <3>2
  <2>13. Locates(d, f[i], seqs, i) BY <2>5, <2>7, <2>10, <2>11, <2>12 DEF Locates
  <2> QED BY <2>13
<1> HIDE DEF G
<1>6. \A i \in 0..n : i \in G BY <1>1, <1>4, <1>5, UpTo
<1>7. n \in G /\ n \in 0..n BY <1>1, <1>6
<1>8. \E p : Locates(p, f[n], seqs, n) BY <1>7 DEF G
<1> QED BY <1>2, <1>7, <1>8 DEF n

-----------------------------------------------------------------------------
(* Chunks                                                                  *)

\* The division of the code's range(): the multiples of size cut 1..n into (n + size - 1) \div size parts.
LEMMA PartOf ==
    ASSUME NEW n \in Nat, NEW size \in Nat \ {0}, NEW i \in 1..n
    PROVE  \E k \in 1..((n + size - 1) \div size) : (k - 1) * size < i /\ i <= k * size
<1> DEFINE N == (n + size - 1) \div size
           T == {k \in Nat : i <= k * size}
<1>1. N \in Nat /\ N * size >= n
  <2>1. N \in Int /\ n + size - 1 = size * N + ((n + size - 1) % size) /\ (n + size - 1) % size \in 0..(size - 1)
        OBVIOUS
  <2>2. N >= 0 OBVIOUS
  <2> DEFINE r == (n + size - 1) % size
             m == size * N
  <2>3. m \in Int /\ N * size = m BY <2>1
  <2>4. r \in 0..(size - 1) /\ n + size - 1 = m + r BY <2>1
  <2> HIDE DEF r, m, N
  <2>5. m >= n BY <2>3, <2>4
  <2> QED BY <2>1, <2>2, <2>3, <2>5
<1> HIDE DEF N
<1>2. N \in T BY <1>1
<1>3. PICK k \in T : \A l \in T : k <= l
  <2>1. T \subseteq Nat /\ T # {} BY <1>2
  <2> HIDE DEF T
  <2> QED BY <2>1, LeastNumber
<1>4. k \in 1..N BY <1>1, <1>2, <1>3
<1>5. (k - 1) * size < i
  <2>1. k - 1 \notin T BY <1>3, <1>4
  <2>2. k - 1 \in Nat /\ (k - 1) * size \in Int BY <1>4
  <2> QED BY <2>1, <2>2
<1> QED BY <1>3, <1>4, <1>5 DEF N

\* Multiples are ordered as their factors are.
LEMMA Multiples ==
    ASSUME NEW size \in Nat \ {0}, NEW k \in Nat \ {0}, NEW j \in Nat \ {0}, k < j
    PROVE  k * size <= (j - 1) * size /\ k * size \in Nat /\ (j - 1) * size \in Nat
<1> DEFINE d == (j - 1) - k
<1>1. d \in Nat /\ j - 1 = k + d OBVIOUS
<1> HIDE DEF d
<1>2. (k + d) * size = k * size + d * size BY <1>1
<1>3. d * size \in Nat /\ k * size \in Nat BY <1>1
<1> QED BY <1>1, <1>2, <1>3

\* The numbers of the rows in the k-th chunk of a file of n rows.
Span(n, size, k) == {i \in 1..n : (k - 1) * size < i /\ i <= k * size}

LEMMA MinOfTwo == ASSUME NEW a \in Int, NEW b \in Int PROVE Min({a, b}) = IF a <= b THEN a ELSE b
<1>1. CASE a <= b
  <2>1. \A x \in {a, b} : (\A y \in {a, b} : x <= y) <=> x = a BY <1>1
  <2> QED BY <1>1, <2>1 DEF Min
<1>2. CASE ~(a <= b)
  <2>1. \A x \in {a, b} : (\A y \in {a, b} : x <= y) <=> x = b BY <1>2
  <2> QED BY <1>2, <2>1 DEF Min
<1> QED BY <1>1, <1>2

\* All rows of a source, those the cleaning drops included.
RowsRead(source) == UNION {ToSet(FileRows(source, f)) : f \in DOMAIN Prepared[source]}

LEMMA FileRowsAre ==
    ASSUME NEW source \in DOMAIN Prepared, NEW f \in DOMAIN Prepared[source]
    PROVE  LET n == Len(Prepared[source][f])
               rows == FileRows(source, f)
           IN  /\ n \in Nat /\ DOMAIN rows = 1..n /\ Len(rows) = n
               /\ rows \in Seq(RowsRead(source))
               /\ \A i \in 1..n : rows[i] = <<source, f, i>>
<1> DEFINE n == Len(Prepared[source][f])
           rows == FileRows(source, f)
<1>1. Prepared[source][f] \in ToSet(Prepared[source]) BY DEF ToSet
<1>2. Prepared[source][f] \in Seq(ToSet(Prepared[source][f])) BY <1>1, DataAssumption
<1>3. n \in Nat BY <1>2, LenProperties
<1>4. DOMAIN rows = 1..n /\ \A i \in 1..n : rows[i] = <<source, f, i>> BY DEF FileRows
<1>5. \A i \in 1..n : rows[i] \in RowsRead(source)
  <2>1. \A i \in 1..n : rows[i] \in ToSet(rows) BY <1>4 DEF ToSet
  <2> QED BY <2>1 DEF RowsRead
<1>6. rows \in [1..n -> RowsRead(source)]
  <2>1. rows = [i \in 1..n |-> rows[i]] BY DEF FileRows
  <2> HIDE DEF n, rows
  <2> QED BY <1>5, <2>1
<1> HIDE DEF n, rows
<1>7. rows \in Seq(RowsRead(source)) /\ Len(rows) = n BY <1>3, <1>6, IsSeq
<1> QED BY <1>3, <1>4, <1>7 DEF n, rows

LEMMA CleanRowsAre ==
    ASSUME NEW source \in DOMAIN Prepared
    PROVE  CleanRows[source] = {r \in RowsRead(source) : Label(r) # BadLabel}
BY DEF CleanRows, RowsRead

LEMMA ChunkIs ==
    ASSUME NEW source \in DOMAIN Prepared, NEW f \in DOMAIN Prepared[source], NEW size \in Nat \ {0},
           NEW k \in 1..((Len(Prepared[source][f]) + size - 1) \div size)
    PROVE  LET chunk == ChunksOfFile(FileRows(source, f), size)[k]
           IN  /\ chunk \in Seq(CleanRows[source])
               /\ ToSet(chunk) = {r \in CleanRows[source] :
                        \E i \in Span(Len(Prepared[source][f]), size, k) : r = <<source, f, i>>}
               /\ IsInjective(chunk)
<1> DEFINE n == Len(Prepared[source][f])
           rows == FileRows(source, f)
           from == (k - 1) * size + 1
           to == Min({k * size, n})
           part == SubSeq(rows, from, to)
           good == {row \in ToSet(part) : Label(row) # BadLabel}
           chunk == Only(part, good)
           A == RowsRead(source)
<1>1. n \in Nat /\ Len(rows) = n /\ rows \in Seq(A) /\ \A i \in 1..n : rows[i] = <<source, f, i>>
      BY FileRowsAre
<1>2. ChunksOfFile(rows, size)[k] = chunk BY <1>1 DEF ChunksOfFile, Sanitize
<1>3. k \in Nat /\ k >= 1 /\ (k - 1) * size \in Nat /\ k * size \in Nat
  <2>1. k \in Int /\ k >= 1 OBVIOUS
  <2> QED BY <2>1
<1>4. from \in Nat /\ from >= 1 /\ to \in Nat /\ to <= n /\ to <= k * size /\ (to = n \/ to = k * size)
  <2> DEFINE a == (k - 1) * size
             b == k * size
  <2>1. a \in Nat /\ b \in Nat BY <1>3
  <2>2. to = IF b <= n THEN b ELSE n BY <1>1, <1>3, MinOfTwo
  <2>3. from = a + 1 OBVIOUS
  <2> HIDE DEF a, b, n, to, from
  <2>4. from \in Nat /\ from >= 1 /\ to \in Nat /\ to <= n /\ to <= b /\ (to = n \/ to = b)
        BY <1>1, <2>1, <2>2, <2>3
  <2> QED BY <2>4 DEF b
<1>5. \A i \in from..to : i \in 1..n /\ rows[i] \in A
  <2>1. \A i \in 1..n : rows[i] \in A BY <1>1, ElementOfSeq
  <2> HIDE DEF from, to
  <2> QED BY <1>1, <1>4, <2>1
<1> HIDE DEF from, to
<1> DEFINE m == to - from + 1
<1>6. /\ part \in Seq(A) /\ Len(part) = IF from <= to THEN m ELSE 0
      /\ \A i \in 1..m : part[i] = rows[from + i - 1]
      BY <1>4, <1>5, SubSeqProperties
<1>7. DOMAIN part = 1..m
  <2>1. DOMAIN part = 1..Len(part) BY <1>6, LenProperties
  <2>2. 1..m = 1..(IF from <= to THEN m ELSE 0) BY <1>4
  <2> QED BY <1>6, <2>1, <2>2
<1>8. \A i \in 1..m : from + i - 1 \in from..to /\ from + i - 1 \in 1..n BY <1>4, <1>5
<1> HIDE DEF m, part
<1>9. \A i \in 1..m : part[i] = <<source, f, from + i - 1>> BY <1>1, <1>6, <1>8
<1>10. IsInjective(part)
  <2>1. SUFFICES ASSUME NEW i \in 1..m, NEW j \in 1..m, part[i] = part[j] PROVE i = j BY <1>7 DEF IsInjective
  <2>2. from + i - 1 = from + j - 1 BY <1>9, <2>1
  <2>3. i \in Int /\ j \in Int OBVIOUS
  <2> QED BY <1>4, <2>2, <2>3
<1>11. ToSet(part) = {<<source, f, i>> : i \in from..to}
  <2>1. \A i \in 1..m : part[i] \in {<<source, f, j>> : j \in from..to} BY <1>8, <1>9
  <2>2. \A j \in from..to : \E i \in 1..m : from + i - 1 = j
    <3> SUFFICES ASSUME NEW j \in from..to PROVE \E i \in 1..m : from + i - 1 = j OBVIOUS
    <3>1. j - from + 1 \in 1..m /\ from + (j - from + 1) - 1 = j BY <1>4 DEF m
    <3> QED BY <3>1
  <2> QED BY <1>7, <1>9, <2>1, <2>2 DEF ToSet
<1>12. /\ chunk \in Seq(A) /\ ToSet(chunk) = ToSet(part) \cap good /\ IsInjective(chunk)
  <2> HIDE DEF good, A
  <2> QED BY <1>6, <1>10, OnlyKeeps
<1>13. ToSet(chunk) = good BY <1>12
<1>14. from..to = Span(n, size, k)
  <2>1. \A i : i \in from..to <=> i \in 1..n /\ (k - 1) * size < i /\ i <= k * size
    <3> DEFINE a == (k - 1) * size
               b == k * size
    <3>1. a \in Nat /\ b \in Nat /\ from = a + 1 BY <1>3 DEF from
    <3>2. to \in Nat /\ to <= n /\ to <= b /\ (to = n \/ to = b) BY <1>4
    <3> HIDE DEF a, b, n
    <3>3. \A i : i \in from..to <=> i \in 1..n /\ a < i /\ i <= b BY <1>1, <3>1, <3>2
    <3> QED BY <3>3 DEF a, b
  <2> QED BY <2>1 DEF Span
<1>15. \A i \in from..to : <<source, f, i>> \in A BY <1>1, <1>5
<1>16. good = {r \in CleanRows[source] : \E i \in Span(n, size, k) : r = <<source, f, i>>}
  <2>1. \A r : r \in ToSet(part) <=> r \in A /\ \E i \in from..to : r = <<source, f, i>> BY <1>11, <1>15
  <2> HIDE DEF A
  <2> QED BY <1>14, <2>1, CleanRowsAre DEF A
<1>17. chunk \in Seq(CleanRows[source])
  <2>1. \A i \in 1..Len(chunk) : chunk[i] \in ToSet(chunk)
    <3>1. DOMAIN chunk = 1..Len(chunk) BY <1>12, LenProperties
    <3> QED BY <3>1 DEF ToSet
  <2> HIDE DEF chunk, good, A
  <2>2. \A i \in 1..Len(chunk) : chunk[i] \in CleanRows[source] BY <1>13, <1>16, <2>1
  <2>3. chunk \in [1..Len(chunk) -> CleanRows[source]] /\ Len(chunk) \in Nat
    <3>1. chunk \in [1..Len(chunk) -> A] /\ Len(chunk) \in Nat BY <1>12, LenProperties
    <3> QED BY <2>2, <3>1
  <2> QED BY <2>3, IsSeq
<1> HIDE DEF chunk
<1>18. /\ chunk \in Seq(CleanRows[source])
       /\ ToSet(chunk) = {r \in CleanRows[source] : \E i \in Span(n, size, k) : r = <<source, f, i>>}
       /\ IsInjective(chunk)
       BY <1>12, <1>13, <1>16, <1>17
<1> QED BY <1>2, <1>18

\* The chunks are injective, no two of them share a row, and they hold just the rows of R.
Dealt(chunks, R) ==
    /\ chunks \in Seq(Seq(R))
    /\ \A k \in DOMAIN chunks : IsInjective(chunks[k])
    /\ \A k, j \in DOMAIN chunks : k # j => ToSet(chunks[k]) \cap ToSet(chunks[j]) = {}
    /\ \A r \in R : \E k \in DOMAIN chunks : r \in ToSet(chunks[k])

LEMMA AllDealt ==
    ASSUME NEW source \in DOMAIN Prepared, NEW size \in Nat \ {0}
    PROVE  Dealt(AllChunks(source, size), CleanRows[source])
<1> DEFINE R == CleanRows[source]
           nf == Len(Prepared[source])
           n(f) == Len(Prepared[source][f])
           parts(f) == (n(f) + size - 1) \div size
           seqs == [f \in DOMAIN Prepared[source] |-> ChunksOfFile(FileRows(source, f), size)]
           all == FlattenSeq(seqs)
<1>1. AllChunks(source, size) = all BY DEF AllChunks
<1>2. nf \in Nat /\ DOMAIN Prepared[source] = 1..nf
  <2>1. Prepared[source] \in Seq(ToSet(Prepared[source])) BY DataAssumption
  <2> QED BY <2>1, LenProperties
<1>3. size \in Nat \ {0} OBVIOUS
<1>4. \A f \in 1..nf : n(f) \in Nat /\ Len(FileRows(source, f)) = n(f) BY <1>2, FileRowsAre
<1>5. \A f \in 1..nf : parts(f) \in Nat
  <2> SUFFICES ASSUME NEW f \in 1..nf PROVE parts(f) \in Nat OBVIOUS
  <2>1. n(f) \in Nat BY <1>4
  <2> HIDE DEF n
  <2> QED BY <1>3, <2>1
<1>6. \A f \in 1..nf : DOMAIN seqs[f] = 1..parts(f) BY <1>2, <1>4 DEF ChunksOfFile
<1>7. \A f \in 1..nf : \A k \in 1..parts(f) :
        /\ seqs[f][k] \in Seq(R) /\ IsInjective(seqs[f][k])
        /\ ToSet(seqs[f][k]) = {r \in R : \E i \in Span(n(f), size, k) : r = <<source, f, i>>}
  <2> SUFFICES ASSUME NEW f \in 1..nf, NEW k \in 1..parts(f)
               PROVE  /\ seqs[f][k] \in Seq(R) /\ IsInjective(seqs[f][k])
                      /\ ToSet(seqs[f][k]) = {r \in R : \E i \in Span(n(f), size, k) : r = <<source, f, i>>}
      OBVIOUS
  <2>1. seqs[f] = ChunksOfFile(FileRows(source, f), size) BY <1>2
  <2>2. f \in DOMAIN Prepared[source] /\ size \in Nat \ {0}
        /\ k \in 1..((Len(Prepared[source][f]) + size - 1) \div size)
        BY <1>2, <1>3
  <2> HIDE DEF seqs
  <2>3. LET chunk == ChunksOfFile(FileRows(source, f), size)[k]
        IN  /\ chunk \in Seq(R)
            /\ ToSet(chunk) = {r \in R : \E i \in Span(Len(Prepared[source][f]), size, k) : r = <<source, f, i>>}
            /\ IsInjective(chunk)
        BY <2>2, ChunkIs
  <2> QED BY <2>1, <2>3
<1>8. seqs \in Seq(Seq(Seq(R))) /\ Len(seqs) = nf
  <2>1. ASSUME NEW f \in 1..nf PROVE seqs[f] \in Seq(Seq(R))
    <3>1. seqs[f] = [k \in 1..parts(f) |-> seqs[f][k]] BY <1>2, <1>4 DEF ChunksOfFile
    <3> HIDE DEF seqs, n, parts, R
    <3>2. seqs[f] \in [1..parts(f) -> Seq(R)] BY <1>7, <3>1
    <3> QED BY <1>5, <3>2, IsSeq
  <2>2. seqs = [f \in 1..nf |-> seqs[f]] BY <1>2
  <2> HIDE DEF seqs, nf, R
  <2>3. seqs \in [1..nf -> Seq(Seq(R))] BY <2>1, <2>2
  <2> QED BY <1>2, <2>3, IsSeq
<1> HIDE DEF seqs, nf, R, n, parts
<1>9. all \in Seq(Seq(R)) /\ \E p : Locates(p, all, seqs, nf) BY <1>8, FlattenLocates
<1>10. PICK p : Locates(p, all, seqs, nf) BY <1>9
<1> HIDE DEF all
<1>11. /\ \A k \in DOMAIN all : \E f \in 1..nf : \E j \in 1..parts(f) :
                p[k] = <<f, j>> /\ all[k] = seqs[f][j]
       /\ \A k, m \in DOMAIN all : p[k] = p[m] => k = m
       /\ \A f \in 1..nf : \A j \in 1..parts(f) : \E k \in DOMAIN all : p[k] = <<f, j>>
  <2>1. \A k \in DOMAIN all : \E f \in 1..nf : \E j \in DOMAIN seqs[f] :
                p[k] = <<f, j>> /\ all[k] = seqs[f][j]
        BY <1>10 DEF Locates
  <2>2. \A k, m \in DOMAIN all : p[k] = p[m] => k = m BY <1>10 DEF Locates
  <2>3. \A f \in 1..nf : \A j \in DOMAIN seqs[f] : \E k \in DOMAIN all : p[k] = <<f, j>>
        BY <1>10 DEF Locates
  <2>4. \A k \in DOMAIN all : \E f \in 1..nf : \E j \in 1..parts(f) :
                p[k] = <<f, j>> /\ all[k] = seqs[f][j]
    <3> SUFFICES ASSUME NEW k \in DOMAIN all
                 PROVE  \E f \in 1..nf : \E j \in 1..parts(f) : p[k] = <<f, j>> /\ all[k] = seqs[f][j]
        OBVIOUS
    <3>1. PICK f \in 1..nf : \E j \in DOMAIN seqs[f] : p[k] = <<f, j>> /\ all[k] = seqs[f][j] BY <2>1
    <3> QED BY <1>6, <3>1
  <2>5. \A f \in 1..nf : \A j \in 1..parts(f) : \E k \in DOMAIN all : p[k] = <<f, j>> BY <1>6, <2>3
  <2> QED BY <2>2, <2>4, <2>5
<1>12. \A k \in DOMAIN all : IsInjective(all[k]) BY <1>7, <1>11
<1>13. ASSUME NEW k \in DOMAIN all, NEW m \in DOMAIN all, k # m
       PROVE  ToSet(all[k]) \cap ToSet(all[m]) = {}
  <2>a. PICK f \in 1..nf : \E j \in 1..parts(f) : p[k] = <<f, j>> /\ all[k] = seqs[f][j] BY <1>11
  <2>1. PICK j \in 1..parts(f) : p[k] = <<f, j>> /\ all[k] = seqs[f][j] BY <2>a
  <2>b. PICK g \in 1..nf : \E l \in 1..parts(g) : p[m] = <<g, l>> /\ all[m] = seqs[g][l] BY <1>11
  <2>2. PICK l \in 1..parts(g) : p[m] = <<g, l>> /\ all[m] = seqs[g][l] BY <2>b
  <2>3. f # g \/ j # l BY <1>11, <1>13, <2>1, <2>2
  <2>4. SUFFICES ASSUME NEW r, r \in ToSet(all[k]), r \in ToSet(all[m]) PROVE FALSE OBVIOUS
  <2>5. PICK i \in Span(n(f), size, j) : r = <<source, f, i>> BY <1>7, <2>1, <2>4
  <2>6. PICK h \in Span(n(g), size, l) : r = <<source, g, h>> BY <1>7, <2>2, <2>4
  <2>7. f = g /\ i = h BY <2>5, <2>6
  <2>8. (j - 1) * size < i /\ i <= j * size /\ i \in Nat BY <1>4, <2>5 DEF Span
  <2>9. (l - 1) * size < i /\ i <= l * size BY <2>6, <2>7 DEF Span
  <2>10. j \in Nat \ {0} /\ l \in Nat \ {0} BY <1>5
  <2>11. CASE j < l
    <3>1. j * size <= (l - 1) * size /\ j * size \in Nat /\ (l - 1) * size \in Nat
          BY <1>3, <2>10, <2>11, Multiples
    <3> DEFINE a == j * size
               b == (l - 1) * size
    <3>2. a <= b /\ a \in Nat /\ b \in Nat /\ i <= a /\ b < i /\ i \in Nat BY <2>8, <2>9, <3>1
    <3> HIDE DEF a, b
    <3> QED BY <3>2
  <2>12. CASE l < j
    <3>1. l * size <= (j - 1) * size /\ l * size \in Nat /\ (j - 1) * size \in Nat
          BY <1>3, <2>10, <2>12, Multiples
    <3> DEFINE a == l * size
               b == (j - 1) * size
    <3>2. a <= b /\ a \in Nat /\ b \in Nat /\ i <= a /\ b < i /\ i \in Nat BY <2>8, <2>9, <3>1
    <3> HIDE DEF a, b
    <3> QED BY <3>2
  <2> QED BY <2>3, <2>7, <2>10, <2>11, <2>12
<1>14. ASSUME NEW r \in R PROVE \E k \in DOMAIN all : r \in ToSet(all[k])
  <2>1. r \in RowsRead(source) BY CleanRowsAre DEF R
  <2>2. PICK f \in 1..nf : r \in ToSet(FileRows(source, f)) BY <1>2, <2>1 DEF RowsRead
  <2>3. DOMAIN FileRows(source, f) = 1..n(f) /\ \A i \in 1..n(f) : FileRows(source, f)[i] = <<source, f, i>>
        BY <1>2, FileRowsAre DEF n
  <2>4. PICK i \in 1..n(f) : r = <<source, f, i>> BY <2>2, <2>3 DEF ToSet
  <2>5. PICK j \in 1..parts(f) : (j - 1) * size < i /\ i <= j * size
        BY <1>3, <1>4, PartOf DEF parts
  <2>6. i \in Span(n(f), size, j) BY <2>5 DEF Span
  <2>7. r \in ToSet(seqs[f][j]) BY <1>7, <2>4, <2>6
  <2>8. PICK k \in DOMAIN all : p[k] = <<f, j>> BY <1>11
  <2>9. all[k] = seqs[f][j]
    <3>0. PICK g \in 1..nf : \E l \in 1..parts(g) : p[k] = <<g, l>> /\ all[k] = seqs[g][l] BY <1>11
    <3>1. PICK l \in 1..parts(g) : p[k] = <<g, l>> /\ all[k] = seqs[g][l] BY <3>0
    <3>2. g = f /\ l = j BY <2>8, <3>1
    <3> QED BY <3>1, <3>2
  <2> QED BY <2>7, <2>9
<1> QED BY <1>1, <1>9, <1>12, <1>13, <1>14 DEF Dealt, R, all

\* The chunks that split_prepared_dataset reads hold each clean row of its source exactly once.
LEMMA ChunksDealt ==
    ASSUME NEW source \in DOMAIN Prepared, NEW size \in ChunkSizes
    PROVE  /\ Dealt(CleanChunks[source][size], CleanRows[source])
           /\ \A k \in DOMAIN CleanChunks[source][size] : CleanChunks[source][size][k] # <<>>
<1> DEFINE R == CleanRows[source]
           all == AllChunks(source, size)
           full == ToSet(all) \ {<<>>}
           kept == Only(all, full)
<1>1. CleanChunks[source][size] = kept BY DEF CleanChunks
<1>2. Dealt(all, R) BY SizesAssumption, AllDealt
<1> HIDE DEF R, all, full
<1>3. all \in Seq(Seq(R)) /\ DOMAIN all = 1..Len(all)
  <2>1. all \in Seq(Seq(R)) BY <1>2 DEF Dealt
  <2> QED BY <2>1, LenProperties
<1>4. kept \in Seq(Seq(R)) /\ \E e : Traces(e, kept, all, Len(all), full) BY <1>3, OnlyTraces
<1>5. PICK e : Traces(e, kept, all, Len(all), full) BY <1>4
<1> HIDE DEF kept
<1>6. \A k \in DOMAIN kept : e[k] \in DOMAIN all /\ kept[k] = all[e[k]] /\ kept[k] # <<>>
      BY <1>3, <1>5 DEF Traces, full
<1>7. \A k, m \in DOMAIN kept : k # m => e[k] # e[m] BY <1>5 DEF Traces
<1>8. ASSUME NEW r \in R PROVE \E k \in DOMAIN kept : r \in ToSet(kept[k])
  <2>1. PICK j \in DOMAIN all : r \in ToSet(all[j]) BY <1>2 DEF Dealt
  <2>2. all[j] # <<>>
    <3>1. ToSet(<<>>) = {} BY DEF ToSet
    <3> QED BY <2>1, <3>1
  <2>3. all[j] \in full BY <2>2 DEF full, ToSet
  <2>4. PICK k \in DOMAIN kept : e[k] = j BY <1>3, <1>5, <2>3 DEF Traces
  <2> QED BY <1>6, <2>1, <2>4
<1>9. Dealt(kept, R)
  <2>1. \A k \in DOMAIN kept : IsInjective(kept[k]) BY <1>2, <1>6 DEF Dealt
  <2>2. ASSUME NEW k \in DOMAIN kept, NEW j \in DOMAIN kept, k # j
        PROVE  ToSet(kept[k]) \cap ToSet(kept[j]) = {}
    <3>1. /\ e[k] \in DOMAIN all /\ e[j] \in DOMAIN all /\ e[k] # e[j]
          /\ kept[k] = all[e[k]] /\ kept[j] = all[e[j]]
          BY <1>6, <1>7, <2>2
    <3>2. ToSet(all[e[k]]) \cap ToSet(all[e[j]]) = {} BY <1>2, <3>1 DEF Dealt
    <3> QED BY <3>1, <3>2
  <2> QED BY <1>4, <1>8, <2>1, <2>2 DEF Dealt
<1> QED BY <1>1, <1>6, <1>9 DEF R

-----------------------------------------------------------------------------
(* Counting rows                                                           *)

LEMMA ListFinite ==
    ASSUME NEW T, NEW q \in Seq(T)
    PROVE  IsFiniteSet(ToSet(q))
<1> DEFINE n == Len(q)
           S == ToSet(q)
           f == [i \in 1..n |-> q[i]]
<1>1. n \in Nat /\ DOMAIN q = 1..n BY LenProperties
<1>2. f \in Surjection(1..n, S) BY <1>1 DEF Surjection, ToSet
<1>3. IsFiniteSet(1..n) BY <1>1, FS_Interval
<1> HIDE DEF f, n, S
<1>4. IsFiniteSet(S) BY <1>2, <1>3, FS_Surjection
<1> QED BY <1>4 DEF S

\* What the chunks from the k-th to the last still hold.
Remaining(chunks) == UNION {ToSet(chunks[k]) : k \in DOMAIN chunks}

LEMMA RemainingFinite ==
    ASSUME NEW T, NEW chunks \in Seq(Seq(T))
    PROVE  IsFiniteSet(Remaining(chunks))
<1> DEFINE n == Len(chunks)
           U(i) == UNION {ToSet(chunks[k]) : k \in 1..i}
           G == {i \in 0..n : IsFiniteSet(U(i))}
<1>1. n \in Nat /\ DOMAIN chunks = 1..n /\ \A i \in 1..n : chunks[i] \in Seq(T)
      BY LenProperties, ElementOfSeq
<1>2. 0 \in G
  <2>1. U(0) = {} OBVIOUS
  <2> HIDE DEF U
  <2>2. IsFiniteSet(U(0)) BY <2>1, FS_EmptySet
  <2> QED BY <1>1, <2>2
<1>3. ASSUME NEW i \in 1..n, i - 1 \in G PROVE i \in G
  <2>1. \A k \in 1..i : k \in 1..(i - 1) \/ k = i OBVIOUS
  <2>2. \A k \in 1..(i - 1) : k \in 1..i OBVIOUS
  <2>3. U(i) = U(i - 1) \cup ToSet(chunks[i])
    <3>1. i \in 1..i OBVIOUS
    <3> QED BY <2>1, <2>2, <3>1
  <2>4. IsFiniteSet(U(i - 1)) /\ IsFiniteSet(ToSet(chunks[i])) BY <1>1, <1>3, ListFinite
  <2> HIDE DEF U
  <2>5. IsFiniteSet(U(i)) BY <2>3, <2>4, FS_Union
  <2> QED BY <1>1, <2>5
<1> HIDE DEF G
<1>4. \A i \in 0..n : i \in G BY <1>1, <1>2, <1>3, UpTo
<1>5. n \in 0..n BY <1>1
<1>6. IsFiniteSet(U(n)) BY <1>4, <1>5 DEF G
<1> QED BY <1>1, <1>6 DEF Remaining

LEMMA CleanRowsFinite ==
    ASSUME NEW source \in DOMAIN Prepared
    PROVE  IsFiniteSet(CleanRows[source])
<1> DEFINE R == CleanRows[source]
           all == AllChunks(source, 1)
<1>1. Dealt(all, R) BY AllDealt
<1> HIDE DEF R, all
<1>2. IsFiniteSet(Remaining(all)) BY <1>1, RemainingFinite DEF Dealt
<1>3. R \subseteq Remaining(all) BY <1>1 DEF Dealt, Remaining
<1>4. IsFiniteSet(R) BY <1>2, <1>3, FS_Subset
<1> QED BY <1>4 DEF R

LEMMA TableFinite ==
    ASSUME NEW raw \in DOMAIN Raw
    PROVE  IsFiniteSet(PreparedTable(raw))
<1> DEFINE V == {v \in ToSet(Raw[raw]) : v[2] # BadLabel}
           T == PreparedTable(raw)
           f == [v \in V |-> <<raw, v[1], v[2]>>]
<1>1. IsFiniteSet(ToSet(Raw[raw])) BY DataAssumption, ListFinite
<1>2. IsFiniteSet(V)
  <2>1. V \subseteq ToSet(Raw[raw]) OBVIOUS
  <2> HIDE DEF V
  <2> QED BY <1>1, <2>1, FS_Subset
<1>3. f \in Surjection(V, T) BY DEF Surjection, PreparedTable
<1> HIDE DEF V, T, f
<1>4. IsFiniteSet(T) BY <1>2, <1>3, FS_Surjection
<1> QED BY <1>4 DEF T

LEMMA CountIs ==
    ASSUME NEW S, IsFiniteSet(S), NEW l
    PROVE  /\ CountOf(S, l) \in Nat
           /\ \A T : T \subseteq S => CountOf(T, l) \in Nat /\ CountOf(T, l) <= CountOf(S, l)
<1> DEFINE Of(T) == {r \in T : Label(r) = l}
<1>1. Of(S) \subseteq S OBVIOUS
<1>2. \A T : T \subseteq S => Of(T) \subseteq Of(S) OBVIOUS
<1>3. \A T : CountOf(T, l) = Cardinality(Of(T)) BY DEF CountOf
<1> HIDE DEF Of
<1>4. IsFiniteSet(Of(S)) /\ Cardinality(Of(S)) \in Nat BY <1>1, FS_Subset, FS_CardinalityType
<1>5. ASSUME NEW T, T \subseteq S
      PROVE  Cardinality(Of(T)) \in Nat /\ Cardinality(Of(T)) <= Cardinality(Of(S))
  <2>1. Of(T) \subseteq Of(S) BY <1>2, <1>5
  <2>2. IsFiniteSet(Of(T)) /\ Cardinality(Of(T)) <= Cardinality(Of(S)) BY <1>4, <2>1, FS_Subset
  <2> QED BY <2>2, FS_CardinalityType
<1> QED BY <1>3, <1>4, <1>5

LEMMA CountNone == ASSUME NEW l PROVE CountOf({}, l) = 0
<1>1. {r \in {} : Label(r) = l} = {} OBVIOUS
<1> QED BY <1>1, FS_EmptySet DEF CountOf

LEMMA CountBoth ==
    ASSUME NEW S, NEW T, IsFiniteSet(S), IsFiniteSet(T), S \cap T = {}, NEW l
    PROVE  CountOf(S \cup T, l) = CountOf(S, l) + CountOf(T, l)
<1> DEFINE Of(A) == {r \in A : Label(r) = l}
<1>1. \A A : CountOf(A, l) = Cardinality(Of(A)) /\ Of(A) \subseteq A BY DEF CountOf
<1>2. Of(S \cup T) = Of(S) \cup Of(T) /\ Of(S) \cap Of(T) = {} OBVIOUS
<1> HIDE DEF Of
<1>3. IsFiniteSet(Of(S)) /\ IsFiniteSet(Of(T)) BY <1>1, FS_Subset
<1>4. /\ Cardinality(Of(S) \cup Of(T))
            = Cardinality(Of(S)) + Cardinality(Of(T)) - Cardinality(Of(S) \cap Of(T))
      /\ Cardinality(Of(S)) \in Nat /\ Cardinality(Of(T)) \in Nat
      BY <1>3, FS_Union, FS_CardinalityType
<1>5. Cardinality(Of(S) \cap Of(T)) = 0 BY <1>2, FS_EmptySet
<1>6. /\ CountOf(S \cup T, l) = Cardinality(Of(S \cup T))
      /\ CountOf(S, l) = Cardinality(Of(S)) /\ CountOf(T, l) = Cardinality(Of(T))
      BY <1>1
<1>7. Cardinality(Of(S \cup T)) = Cardinality(Of(S) \cup Of(T)) BY <1>2
<1> DEFINE a == Cardinality(Of(S))
           b == Cardinality(Of(T))
           c == Cardinality(Of(S) \cap Of(T))
<1>8. Cardinality(Of(S) \cup Of(T)) = a + b - c /\ a \in Nat /\ b \in Nat /\ c = 0 BY <1>4, <1>5
<1> HIDE DEF a, b, c
<1>9. Cardinality(Of(S) \cup Of(T)) = a + b BY <1>8
<1> QED BY <1>6, <1>7, <1>9 DEF a, b

-----------------------------------------------------------------------------
(* Targets and sampling                                                    *)

LEMMA RoundIs ==
    ASSUME NEW n \in Nat, NEW d \in Nat \ {0}
    PROVE  Round(n, d) \in Nat /\ (n = 0 => Round(n, d) = 0) /\ (n < d => Round(n, d) <= 1)
<1> DEFINE q == n \div d
           r == n % d
<1>1. q \in Int /\ q >= 0 /\ r \in 0..(d - 1) /\ n = d * q + r OBVIOUS
<1>2. n < d => q = 0
  <2> SUFFICES ASSUME n < d, q # 0 PROVE FALSE OBVIOUS
  <2>1. q >= 1 BY <1>1
  <2> HIDE DEF q, r
  <2>2. d * q >= d BY <1>1, <2>1
  <2> QED BY <1>1, <2>2
<1>3. n = 0 => q = 0 /\ r = 0
  <2> HIDE DEF q, r
  <2>1. n = 0 => q = 0 BY <1>2
  <2> QED BY <1>1, <2>1
<1>4. Round(n, d) = IF 2 * r > d \/ (2 * r = d /\ q % 2 = 1) THEN q + 1 ELSE q BY DEF Round
<1> HIDE DEF q, r
<1> QED BY <1>1, <1>2, <1>3, <1>4

\* _compute_test_targets: a target is a number of rows there are, and not all if there are two.
LEMMA TargetsAre ==
    ASSUME NEW source \in DOMAIN Prepared, NEW size \in TestSizes
    PROVE  /\ TestTargets[source][size] \in [Labels -> Nat]
           /\ \A l \in Labels :
                /\ CountOf(CleanRows[source], l) \in Nat
                /\ TestTargets[source][size][l] <= CountOf(CleanRows[source], l)
                /\ CountOf(CleanRows[source], l) > 1
                        => TestTargets[source][size][l] < CountOf(CleanRows[source], l)
<1> DEFINE R == CleanRows[source]
           targets == TestTargets[source][size]
           of(l) == LET count == CountOf(R, l)
                        target == Round(count * size[1], size[2])
                    IN  IF count > 1 /\ target >= count THEN count - 1 ELSE target
<1>1. targets = [l \in Labels |-> of(l)] BY DEF TestTargets
<1>2. size[2] \in Nat \ {0} /\ size[1] \in Nat /\ size[1] < size[2] BY SizesAssumption
<1>3. ASSUME NEW l \in Labels
      PROVE  of(l) \in Nat /\ of(l) <= CountOf(R, l) /\ (CountOf(R, l) > 1 => of(l) < CountOf(R, l))
             /\ CountOf(R, l) \in Nat
  <2> DEFINE count == CountOf(R, l)
             target == Round(count * size[1], size[2])
  <2>1. count \in Nat BY CleanRowsFinite, CountIs
  <2>2. of(l) = IF count > 1 /\ target >= count THEN count - 1 ELSE target OBVIOUS
  <2> HIDE DEF count, of
  <2>3. count * size[1] \in Nat BY <1>2, <2>1
  <2>4. target \in Nat BY <1>2, <2>3, RoundIs
  <2>5. count = 0 => target = 0
    <3>1. count = 0 => count * size[1] = 0 BY <1>2
    <3>2. Round(0, size[2]) = 0 BY <1>2, RoundIs
    <3> QED BY <3>1, <3>2
  <2>6. count = 1 => target <= 1
    <3>1. count = 1 => count * size[1] = size[1] BY <1>2
    <3>2. Round(size[1], size[2]) <= 1 BY <1>2, RoundIs
    <3> QED BY <3>1, <3>2
  <2> HIDE DEF target
  <2>7. of(l) \in Nat /\ of(l) <= count /\ (count > 1 => of(l) < count) BY <2>1, <2>2, <2>4, <2>5, <2>6
  <2> QED BY <2>1, <2>7 DEF count
<1> HIDE DEF of, R
<1>4. targets \in [Labels -> Nat] BY <1>1, <1>3
<1>5. \A l \in Labels : targets[l] = of(l) BY <1>1
<1> HIDE DEF targets
<1>6. /\ targets \in [Labels -> Nat]
      /\ \A l \in Labels :
            /\ CountOf(R, l) \in Nat
            /\ targets[l] <= CountOf(R, l)
            /\ CountOf(R, l) > 1 => targets[l] < CountOf(R, l)
      BY <1>3, <1>4, <1>5
<1> QED BY <1>6 DEF R, targets

\* The label's rows among the first i of the chunk.
First(chunk, l, i) == {r \in ToSet(chunk) : \E j \in 1..i : chunk[j] = r /\ Label(r) = l}

LEMMA FirstAre ==
    ASSUME NEW T, NEW chunk \in Seq(T), IsInjective(chunk), NEW l
    PROVE  /\ First(chunk, l, 0) = {}
           /\ First(chunk, l, Len(chunk)) = {r \in ToSet(chunk) : Label(r) = l}
           /\ \A i \in 1..Len(chunk) :
                /\ First(chunk, l, i) = First(chunk, l, i - 1)
                                            \cup (IF Label(chunk[i]) = l THEN {chunk[i]} ELSE {})
                /\ chunk[i] \notin First(chunk, l, i - 1)
                /\ First(chunk, l, i - 1) = {chunk[j] : j \in {j \in 1..(i - 1) : Label(chunk[j]) = l}}
           /\ \A i \in 0..Len(chunk) : IsFiniteSet(First(chunk, l, i))
<1>1. Len(chunk) \in Nat /\ DOMAIN chunk = 1..Len(chunk) BY LenProperties
<1>2. First(chunk, l, 0) = {} BY DEF First
<1>3. First(chunk, l, Len(chunk)) = {r \in ToSet(chunk) : Label(r) = l}
  <2>1. \A r \in ToSet(chunk) : \E j \in 1..Len(chunk) : chunk[j] = r BY <1>1 DEF ToSet
  <2> QED BY <2>1 DEF First
<1>4. ASSUME NEW i \in 1..Len(chunk)
      PROVE  /\ First(chunk, l, i) = First(chunk, l, i - 1)
                                            \cup (IF Label(chunk[i]) = l THEN {chunk[i]} ELSE {})
             /\ chunk[i] \notin First(chunk, l, i - 1)
             /\ First(chunk, l, i - 1) = {chunk[j] : j \in {j \in 1..(i - 1) : Label(chunk[j]) = l}}
  <2>1. \A j : j \in 1..i <=> j \in 1..(i - 1) \/ j = i BY <1>1
  <2>2. \A j \in 1..(i - 1) : j \in 1..Len(chunk) /\ j # i BY <1>1
  <2>3. chunk[i] \in ToSet(chunk) /\ \A j \in 1..(i - 1) : chunk[j] \in ToSet(chunk)
        BY <1>1, <2>2 DEF ToSet
  <2>4. First(chunk, l, i) = First(chunk, l, i - 1) \cup (IF Label(chunk[i]) = l THEN {chunk[i]} ELSE {})
        BY <2>1, <2>3 DEF First
  <2>5. chunk[i] \notin First(chunk, l, i - 1)
    <3>1. \A j \in 1..(i - 1) : chunk[j] # chunk[i] BY <1>1, <2>2 DEF IsInjective
    <3> QED BY <3>1 DEF First
  <2>6. First(chunk, l, i - 1) = {chunk[j] : j \in {j \in 1..(i - 1) : Label(chunk[j]) = l}}
        BY <2>3 DEF First
  <2> QED BY <2>4, <2>5, <2>6
<1>5. ASSUME NEW i \in 0..Len(chunk) PROVE IsFiniteSet(First(chunk, l, i))
  <2>1. First(chunk, l, i) \subseteq ToSet(chunk) BY DEF First
  <2> QED BY <2>1, ListFinite, FS_Subset
<1> QED BY <1>2, <1>3, <1>4, <1>5

\* One row more, and what it does to the rows needed and those left.
LEMMA OneMore ==
    ASSUME NEW t \in Nat, NEW sn \in Nat, NEW target \in Nat, NEW total \in Nat, NEW a \in Nat, NEW b \in Nat,
           t + b <= target, target - (t + b) <= total - (sn + a), sn + a + 1 <= total
    PROVE  /\ target - (t + b) > 0 =>
                /\ t + (b + 1) <= target
                /\ target - (t + (b + 1)) <= total - (sn + (a + 1))
           /\ (target - (t + b) <= 0 \/ total - (sn + a) # target - (t + b)) =>
                target - (t + b) <= total - (sn + (a + 1))
OBVIOUS

\* The sampling keeps what is still to be tested within the target and within what is left.
LEMMA PicksAre ==
    ASSUME NEW T, NEW chunk \in Seq(T), IsInjective(chunk), NEW pick \in TestPicks(chunk), NEW l,
           seen[l] \in Nat, tested[l] \in Nat, job.totals[l] \in Nat, job.targets[l] \in Nat,
           tested[l] <= job.targets[l],
           seen[l] + CountOf(ToSet(chunk), l) <= job.totals[l],
           job.targets[l] - tested[l] <= job.totals[l] - seen[l]
    PROVE  /\ pick \subseteq ToSet(chunk)
           /\ CountOf(pick, l) \in Nat /\ CountOf(ToSet(chunk), l) \in Nat
           /\ CountOf(pick, l) <= CountOf(ToSet(chunk), l)
           /\ tested[l] + CountOf(pick, l) <= job.targets[l]
           /\ job.targets[l] - (tested[l] + CountOf(pick, l))
                    <= job.totals[l] - (seen[l] + CountOf(ToSet(chunk), l))
<1> DEFINE n == Len(chunk)
           target == job.targets[l]
           total == job.totals[l]
           t == tested[l]
           sn == seen[l]
           F(i) == First(chunk, l, i)
           a(i) == Cardinality(F(i))
           b(i) == Cardinality(F(i) \cap pick)
           G == {i \in 0..n : /\ tested[l] + b(i) <= job.targets[l]
                              /\ job.targets[l] - (tested[l] + b(i)) <= job.totals[l] - (seen[l] + a(i))}
<1>1. n \in Nat /\ DOMAIN chunk = 1..n BY LenProperties
<1>2. pick \subseteq ToSet(chunk) BY DEF TestPicks
<1>3. IsFiniteSet(ToSet(chunk)) BY ListFinite
<1>4. CountOf(pick, l) \in Nat /\ CountOf(ToSet(chunk), l) \in Nat /\ CountOf(pick, l) <= CountOf(ToSet(chunk), l)
      BY <1>2, <1>3, CountIs
<1>5. \A i \in 0..n : a(i) \in Nat /\ b(i) \in Nat /\ a(i) <= CountOf(ToSet(chunk), l)
  <2> SUFFICES ASSUME NEW i \in 0..n
               PROVE  a(i) \in Nat /\ b(i) \in Nat /\ a(i) <= CountOf(ToSet(chunk), l)
      OBVIOUS
  <2>1. IsFiniteSet(F(i)) BY FirstAre
  <2>2. F(i) \cap pick \subseteq F(i) OBVIOUS
  <2>3. a(i) \in Nat /\ b(i) \in Nat BY <2>1, <2>2, FS_Subset, FS_CardinalityType
  <2> DEFINE mine == {r \in ToSet(chunk) : Label(r) = l}
  <2>4. F(i) \subseteq mine BY DEF First
  <2>5. mine \subseteq ToSet(chunk) OBVIOUS
  <2>6. CountOf(ToSet(chunk), l) = Cardinality(mine) BY DEF CountOf
  <2> HIDE DEF mine, F
  <2>7. IsFiniteSet(mine) BY <1>3, <2>5, FS_Subset
  <2>8. Cardinality(F(i)) <= Cardinality(mine) BY <2>4, <2>7, FS_Subset
  <2> QED BY <2>3, <2>6, <2>8
<1>6. 0 \in G
  <2>1. F(0) = {} /\ F(0) \cap pick = {} BY FirstAre
  <2>2. a(0) = 0 /\ b(0) = 0 BY <2>1, FS_EmptySet
  <2> HIDE DEF a, b, F
  <2> QED BY <1>1, <2>2
<1>7. ASSUME NEW i \in 1..n, i - 1 \in G PROVE i \in G
  <2> DEFINE row == chunk[i]
             rest == job.totals[l] - (seen[l] + a(i - 1))
             need == job.targets[l] - (tested[l] + b(i - 1))
  <2>1. /\ F(i) = F(i - 1) \cup (IF Label(row) = l THEN {row} ELSE {})
        /\ row \notin F(i - 1)
        /\ F(i - 1) = {chunk[j] : j \in {j \in 1..(i - 1) : Label(chunk[j]) = l}}
        BY FirstAre
  <2>2. i - 1 \in 0..n /\ i \in 0..n BY <1>1
  <2>3. IsFiniteSet(F(i - 1)) BY <2>2, FirstAre
  <2>4. /\ tested[l] + b(i - 1) <= job.targets[l]
        /\ need <= rest
        BY <1>7
  <2>5. CASE Label(row) # l
    <3>1. F(i) = F(i - 1) BY <2>1, <2>5
    <3>2. a(i) = a(i - 1) /\ b(i) = b(i - 1) BY <3>1
    <3> HIDE DEF a, b, F
    <3> QED BY <2>2, <2>4, <3>2
  <2>6. CASE Label(row) = l
    <3>1. /\ need <= 0 => row \notin pick
          /\ (need > 0 /\ rest = need) => row \in pick
      <4> DEFINE before == {chunk[j] : j \in {j \in 1..(i - 1) : Label(chunk[j]) = l}}
      <4>1. i \in DOMAIN chunk BY <1>1
      <4>2. /\ job.targets[l] - (tested[l] + Cardinality(before \cap pick)) <= 0 => row \notin pick
            /\ (/\ job.targets[l] - (tested[l] + Cardinality(before \cap pick)) > 0
                /\ job.totals[l] - (seen[l] + Cardinality(before))
                        = job.targets[l] - (tested[l] + Cardinality(before \cap pick))) => row \in pick
            BY <2>6, <4>1 DEF TestPicks
      <4>3. before = F(i - 1) BY <2>1
      <4> HIDE DEF before, F
      <4> QED BY <4>2, <4>3
    <3>2. F(i) = F(i - 1) \cup {row} BY <2>1, <2>6
    <3>3. a(i) = a(i - 1) + 1
      <4> HIDE DEF F, row
      <4> QED BY <2>1, <2>3, <3>2, FS_AddElement
    <3>4. a(i - 1) \in Nat /\ b(i - 1) \in Nat /\ a(i) <= CountOf(ToSet(chunk), l) BY <1>5, <2>2
    <3>7. /\ target - (t + b(i - 1)) > 0 =>
                /\ t + (b(i - 1) + 1) <= target
                /\ target - (t + (b(i - 1) + 1)) <= total - (sn + (a(i - 1) + 1))
          /\ (target - (t + b(i - 1)) <= 0 \/ total - (sn + a(i - 1)) # target - (t + b(i - 1))) =>
                target - (t + b(i - 1)) <= total - (sn + (a(i - 1) + 1))
      <4>1. sn + a(i - 1) + 1 <= total
        <5>1. sn \in Nat /\ total \in Nat /\ sn + CountOf(ToSet(chunk), l) <= total OBVIOUS
        <5> HIDE DEF a, sn, total
        <5> QED BY <1>4, <3>3, <3>4, <5>1
      <4>2. /\ t \in Nat /\ sn \in Nat /\ target \in Nat /\ total \in Nat
            /\ t + b(i - 1) <= target /\ target - (t + b(i - 1)) <= total - (sn + a(i - 1))
            BY <2>4
      <4> HIDE DEF a, b, t, sn, target, total
      <4> QED BY <3>4, <4>1, <4>2, OneMore
    <3>5. CASE row \in pick
      <4>1. F(i) \cap pick = (F(i - 1) \cap pick) \cup {row} BY <3>2, <3>5
      <4>2. IsFiniteSet(F(i - 1) \cap pick) BY <2>3, FS_Intersection
      <4>3. row \notin F(i - 1) \cap pick BY <2>1
      <4>4. b(i) = b(i - 1) + 1
        <5> HIDE DEF F, row
        <5> QED BY <4>1, <4>2, <4>3, FS_AddElement
      <4>5. need > 0
        <5>1. need \in Int
          <6> HIDE DEF b
          <6> QED BY <3>4
        <5> HIDE DEF need
        <5> QED BY <3>1, <3>5, <5>1
      <4>6. t + b(i) <= target /\ target - (t + b(i)) <= total - (sn + a(i)) BY <3>3, <3>7, <4>4, <4>5
      <4> HIDE DEF a, b, F, row
      <4> QED BY <2>2, <4>6
    <3>6. CASE row \notin pick
      <4>1. F(i) \cap pick = F(i - 1) \cap pick BY <3>2, <3>6
      <4>2. b(i) = b(i - 1) BY <4>1
      <4>3. need <= 0 \/ rest # need
        <5>1. need \in Int
          <6> HIDE DEF b
          <6> QED BY <3>4
        <5> HIDE DEF need, rest
        <5> QED BY <3>1, <3>6, <5>1
      <4>4. t + b(i) <= target /\ target - (t + b(i)) <= total - (sn + a(i)) BY <2>4, <3>3, <3>7, <4>2, <4>3
      <4> HIDE DEF a, b, F, row
      <4> QED BY <2>2, <4>4
    <3> QED BY <3>5, <3>6
  <2> QED BY <2>5, <2>6
<1> HIDE DEF G
<1>8. \A i \in 0..n : i \in G BY <1>1, <1>6, <1>7, UpTo
<1>9. n \in 0..n BY <1>1
<1>10. /\ tested[l] + b(n) <= job.targets[l]
       /\ job.targets[l] - (tested[l] + b(n)) <= job.totals[l] - (seen[l] + a(n))
       BY <1>8, <1>9 DEF G
<1>11. F(n) = {r \in ToSet(chunk) : Label(r) = l} BY FirstAre
<1>12. F(n) \cap pick = {r \in pick : Label(r) = l} BY <1>2, <1>11
<1>13. a(n) = CountOf(ToSet(chunk), l) /\ b(n) = CountOf(pick, l) BY <1>11, <1>12 DEF CountOf
<1> HIDE DEF a, b, F
<1> QED BY <1>2, <1>4, <1>10, <1>13

-----------------------------------------------------------------------------
(* The invariant                                                           *)

Lines == Rows \cup {Header}
AllSources == DOMAIN Prepared \cup DOMAIN Raw

\* A file with rows of one source, each once, behind a header.
Sound(file, src) ==
    /\ file \in Seq(Lines) /\ IsInjective(file)
    /\ file # <<>> => file[1] = Header
    /\ \A r \in ToSet(file) \ {Header} : r[1] = src
FileOK(file) == file = NoFile \/ \E src \in AllSources : Sound(file, src)

\* The part a run is writing: not there until its first rows are, with the header.
OpenPart(file, header) ==
    IF header THEN file = NoFile ELSE Sound(file, job.source) /\ RowsOf(file) # {}

Spread(chunks) ==
    /\ \A k \in DOMAIN chunks : IsInjective(chunks[k])
    /\ \A k, j \in DOMAIN chunks : k # j => ToSet(chunks[k]) \cap ToSet(chunks[j]) = {}

Job == [source : AllSources, size : TestSizes, chunks : Seq(Seq(Rows)),
        totals : [Labels -> Nat], targets : [Labels -> Nat], pick : SUBSET Rows,
        train_header : BOOLEAN, test_header : BOOLEAN]

Steps == {"idle", "count", "unlink_train", "unlink_test", "unlink_meta", "choose",
          "append_train", "append_test", "prep_cleaned", "prep_train", "prep_test", "prep_meta"}

Shape ==
    /\ pc \in Steps /\ runs \in 0..MaxRuns /\ job \in Job
    /\ seen \in [Labels -> Nat] /\ tested \in [Labels -> Nat]
    /\ \A l \in Labels : tested[l] <= seen[l]
    /\ FileOK(train) /\ FileOK(test)

\* What the first pass found
Counted ==
    /\ job.totals = [l \in Labels |-> CountOf(CleanRows[job.source], l)]
    /\ job.targets = TestTargets[job.source][job.size]

\* Until the first row is dealt the job is as it was started.
Begun ==
    pc \in {"count", "unlink_train", "unlink_test", "unlink_meta"} =>
        /\ job.source \in DOMAIN Prepared
        /\ Dealt(job.chunks, CleanRows[job.source])
        /\ job.pick = {} /\ job.train_header /\ job.test_header
        /\ pc # "count" => Counted /\ seen = NoCounts /\ tested = NoCounts
        /\ pc \in {"unlink_test", "unlink_meta"} => train = NoFile
        /\ pc = "unlink_meta" => test = NoFile

Dealing == pc \in {"choose", "append_train", "append_test"}

\* The rows of the chunks to come, and those of this one that are in neither file yet.
Left == IF pc = "choose" THEN Remaining(job.chunks) ELSE Remaining(Tail(job.chunks))
InHand == IF pc = "append_train" THEN ToSet(Head(job.chunks))
          ELSE IF pc = "append_test" THEN job.pick ELSE {}

\* While the rows are dealt out each of them is in one file, in hand or still to come.
Parted ==
    Dealing =>
        LET R == CleanRows[job.source]
        IN  /\ job.source \in DOMAIN Prepared /\ Counted /\ ~IsMeta(split_meta)
            /\ job.chunks \in Seq(Seq(R)) /\ Spread(job.chunks)
            /\ IF pc = "choose" THEN job.pick = {}
               ELSE job.chunks # <<>> /\ job.pick \subseteq ToSet(Head(job.chunks))
            /\ RowsOf(train) \cup RowsOf(test) \cup InHand \cup Left = R
            /\ RowsOf(train) \cap RowsOf(test) = {}
            /\ (RowsOf(train) \cup RowsOf(test)) \cap (InHand \cup Left) = {}
            /\ OpenPart(train, job.train_header) /\ OpenPart(test, job.test_header)

\* The counters agree with the files, and what is needed for the test part is still to come.
CountersTrue ==
    Dealing =>
        \A l \in Labels :
            /\ seen[l] = CountOf(CleanRows[job.source] \ Left, l)
            /\ tested[l] = CountOf(RowsOf(test) \cup job.pick, l)
            /\ tested[l] <= job.targets[l]
            /\ job.targets[l] - tested[l] <= job.totals[l] - seen[l]

Preparing ==
    pc \in {"prep_cleaned", "prep_train", "prep_test", "prep_meta"} =>
        job.source \in DOMAIN Raw /\ job.pick \subseteq PreparedTable(job.source)

\* What the metadata of a split describes
MetaTrue ==
    IsMeta(split_meta) =>
        /\ split_meta.source \in DOMAIN Prepared /\ split_meta.size \in TestSizes
        /\ Sound(split_meta.train, split_meta.source) /\ Sound(split_meta.test, split_meta.source)
        /\ RowsOf(split_meta.train) # {} /\ RowsOf(split_meta.test) # {}
        /\ RowsOf(split_meta.train) \cup RowsOf(split_meta.test) = CleanRows[split_meta.source]
        /\ RowsOf(split_meta.train) \cap RowsOf(split_meta.test) = {}
        /\ \A l \in Labels : CountOf(RowsOf(split_meta.test), l)
                                = TestTargets[split_meta.source][split_meta.size][l]

IInv == Shape /\ Begun /\ Parted /\ CountersTrue /\ Preparing /\ MetaTrue /\ SplitMetaCurrent

-----------------------------------------------------------------------------
(* Rows and files                                                          *)

LEMMA RowsAre ==
    /\ \A s \in DOMAIN Prepared : CleanRows[s] \subseteq Rows /\ \A r \in CleanRows[s] : r[1] = s
    /\ \A raw \in DOMAIN Raw : PreparedTable(raw) \subseteq Rows /\ \A r \in PreparedTable(raw) : r[1] = raw
    /\ Header \notin Rows /\ NoFile \notin Seq(Lines)
<1>1. ASSUME NEW s \in DOMAIN Prepared PROVE \A r \in CleanRows[s] : r[1] = s
  <2> SUFFICES ASSUME NEW r \in CleanRows[s] PROVE r[1] = s OBVIOUS
  <2>1. r \in RowsRead(s) BY CleanRowsAre
  <2>2. PICK f \in DOMAIN Prepared[s] : r \in ToSet(FileRows(s, f)) BY <2>1 DEF RowsRead
  <2>3. \A i \in DOMAIN FileRows(s, f) : FileRows(s, f)[i] = <<s, f, i>> BY FileRowsAre
  <2>4. PICK i \in DOMAIN FileRows(s, f) : r = <<s, f, i>> BY <2>2, <2>3 DEF ToSet
  <2> QED BY <2>4
<1>2. \A s \in DOMAIN Prepared : CleanRows[s] \subseteq Rows BY DEF Rows
<1>3. \A raw \in DOMAIN Raw : PreparedTable(raw) \subseteq Rows BY DEF Rows
<1>4. \A raw \in DOMAIN Raw : \A r \in PreparedTable(raw) : r[1] = raw BY DEF PreparedTable
<1> QED BY <1>1, <1>2, <1>3, <1>4, DataAssumption DEF Lines

LEMMA SoundFile ==
    ASSUME NEW file, NEW src, Sound(file, src)
    PROVE  /\ file # NoFile /\ file \in Seq(Lines)
           /\ RowsOf(file) = ToSet(file) \ {Header} /\ RowsOf(file) \subseteq Rows
           /\ IsFiniteSet(RowsOf(file))
           /\ Sources(file) \subseteq {src}
<1>1. file \in Seq(Lines) /\ file # NoFile BY RowsAre DEF Sound
<1>2. ToSet(file) \subseteq Lines
  <2>1. \A i \in 1..Len(file) : file[i] \in Lines BY <1>1, ElementOfSeq
  <2>2. DOMAIN file = 1..Len(file) BY <1>1, LenProperties
  <2> QED BY <2>1, <2>2 DEF ToSet
<1>3. RowsOf(file) = ToSet(file) \ {Header} BY <1>1 DEF RowsOf
<1>4. RowsOf(file) \subseteq Rows BY <1>2, <1>3 DEF Lines
<1>5. RowsOf(file) \subseteq ToSet(file) BY <1>3
<1>6. IsFiniteSet(RowsOf(file)) BY <1>1, <1>5, ListFinite, FS_Subset
<1>7. Sources(file) \subseteq {src} BY <1>3 DEF Sound, Sources
<1> QED BY <1>1, <1>3, <1>4, <1>6, <1>7

LEMMA NoRows == RowsOf(NoFile) = {} /\ Sources(NoFile) = {} BY DEF RowsOf, Sources

LEMMA FileRowsFinite ==
    ASSUME NEW file, FileOK(file)
    PROVE  IsFiniteSet(RowsOf(file)) /\ RowsOf(file) \subseteq Rows
BY SoundFile, NoRows, FS_EmptySet DEF FileOK

\* The beginning of a sound file is sound.
LEMMA BeginningSound ==
    ASSUME NEW file, NEW src, Sound(file, src),
           NEW part \in Seq(Lines), Len(part) <= Len(file), \A k \in 1..Len(part) : part[k] = file[k]
    PROVE  Sound(part, src) /\ RowsOf(part) \subseteq RowsOf(file)
<1>1. file \in Seq(Lines) BY DEF Sound
<1>2. /\ DOMAIN part = 1..Len(part) /\ DOMAIN file = 1..Len(file)
      /\ Len(part) \in Nat /\ Len(file) \in Nat
      BY <1>1, LenProperties
<1>3. \A k \in 1..Len(part) : k \in 1..Len(file) BY <1>2
<1>4. IsInjective(part)
  <2> SUFFICES ASSUME NEW k \in 1..Len(part), NEW j \in 1..Len(part), part[k] = part[j] PROVE k = j
      BY <1>2 DEF IsInjective
  <2>1. file[k] = file[j] /\ k \in DOMAIN file /\ j \in DOMAIN file BY <1>2, <1>3
  <2> QED BY <2>1 DEF Sound, IsInjective
<1>5. part # <<>> => part[1] = Header
  <2> SUFFICES ASSUME part # <<>> PROVE part[1] = Header OBVIOUS
  <2>1. Len(part) # 0 BY EmptySeq
  <2>2. 1 \in 1..Len(part) /\ Len(file) # 0 BY <1>2, <2>1
  <2>3. file # <<>> BY <1>1, <2>2, EmptySeq
  <2> QED BY <2>2, <2>3 DEF Sound
<1>6. ToSet(part) \subseteq ToSet(file)
  <2>1. \A k \in DOMAIN part : k \in DOMAIN file /\ part[k] = file[k] BY <1>2, <1>3
  <2> QED BY <2>1 DEF ToSet
<1>7. Sound(part, src) BY <1>4, <1>5, <1>6 DEF Sound
<1>8. RowsOf(part) \subseteq RowsOf(file) BY <1>6, <1>7, SoundFile
<1> QED BY <1>7, <1>8

LEMMA ConcatInjective ==
    ASSUME NEW T, NEW q \in Seq(T), NEW u \in Seq(T), IsInjective(q), IsInjective(u),
           ToSet(q) \cap ToSet(u) = {}
    PROVE  IsInjective(q \o u) /\ ToSet(q \o u) = ToSet(q) \cup ToSet(u) /\ q \o u \in Seq(T)
<1> DEFINE c == q \o u
           m == Len(q)
           n == Len(u)
<1>1. /\ c \in Seq(T) /\ m \in Nat /\ n \in Nat /\ DOMAIN q = 1..m /\ DOMAIN u = 1..n
      /\ DOMAIN c = 1..(m + n)
      /\ \A k \in 1..m : c[k] = q[k]
      /\ \A k \in 1..n : c[m + k] = u[k]
      BY ConcatTwo
<1> HIDE DEF c, m, n
<1>2. \A k \in 1..(m + n) : k \in 1..m \/ (k - m \in 1..n /\ m + (k - m) = k) BY <1>1
<1>3. \A k \in 1..(m + n) : k \notin 1..m => c[k] = u[k - m] BY <1>1, <1>2
<1>4. /\ \A k \in 1..m : q[k] \in ToSet(q) /\ k \in 1..(m + n)
      /\ \A k \in 1..n : u[k] \in ToSet(u) /\ m + k \in 1..(m + n)
  <2>1. \A k \in DOMAIN q : q[k] \in ToSet(q) BY DEF ToSet
  <2>2. \A k \in DOMAIN u : u[k] \in ToSet(u) BY DEF ToSet
  <2>3. \A k \in 1..m : k \in 1..(m + n) BY <1>1
  <2>4. \A k \in 1..n : m + k \in 1..(m + n) BY <1>1
  <2> QED BY <1>1, <2>1, <2>2, <2>3, <2>4
<1>5. IsInjective(c)
  <2> SUFFICES ASSUME NEW k \in 1..(m + n), NEW j \in 1..(m + n), c[k] = c[j] PROVE k = j
      BY <1>1 DEF IsInjective
  <2>1. CASE k \in 1..m /\ j \in 1..m BY <1>1, <2>1 DEF IsInjective
  <2>2. CASE k \in 1..m /\ j \notin 1..m
    <3>1. c[k] \in ToSet(q) /\ c[j] \in ToSet(u) BY <1>1, <1>2, <1>3, <1>4, <2>2
    <3> QED BY <3>1
  <2>3. CASE k \notin 1..m /\ j \in 1..m
    <3>1. c[j] \in ToSet(q) /\ c[k] \in ToSet(u) BY <1>1, <1>2, <1>3, <1>4, <2>3
    <3> QED BY <3>1
  <2>4. CASE k \notin 1..m /\ j \notin 1..m
    <3>1. u[k - m] = u[j - m] /\ k - m \in DOMAIN u /\ j - m \in DOMAIN u BY <1>1, <1>2, <1>3, <2>4
    <3>2. k - m = j - m BY <3>1 DEF IsInjective
    <3>3. k \in Int /\ j \in Int OBVIOUS
    <3> QED BY <1>1, <3>2, <3>3
  <2> QED BY <2>1, <2>2, <2>3, <2>4
<1>6. ToSet(c) = ToSet(q) \cup ToSet(u)
  <2>1. \A k \in 1..(m + n) : c[k] \in ToSet(q) \cup ToSet(u) BY <1>1, <1>2, <1>3, <1>4
  <2>2. \A k \in 1..m : q[k] \in ToSet(c) BY <1>1, <1>4 DEF ToSet
  <2>3. \A k \in 1..n : u[k] \in ToSet(c)
    <3> SUFFICES ASSUME NEW k \in 1..n PROVE u[k] \in ToSet(c) OBVIOUS
    <3>1. m + k \in DOMAIN c /\ c[m + k] = u[k] BY <1>1, <1>4
    <3> QED BY <3>1 DEF ToSet
  <2>4. ToSet(c) \subseteq ToSet(q) \cup ToSet(u) BY <1>1, <2>1 DEF ToSet
  <2>5. ToSet(q) \subseteq ToSet(c) BY <1>1, <2>2 DEF ToSet
  <2>6. ToSet(u) \subseteq ToSet(c) BY <1>1, <2>3 DEF ToSet
  <2> QED BY <2>4, <2>5, <2>6
<1> QED BY <1>1, <1>5, <1>6 DEF c

LEMMA JustHeader ==
    /\ <<Header>> \in Seq(Lines) /\ Len(<<Header>>) = 1 /\ DOMAIN <<Header>> = {1} /\ <<Header>>[1] = Header
    /\ ToSet(<<Header>>) = {Header} /\ IsInjective(<<Header>>)
    /\ <<>> \in Seq(Lines) /\ ToSet(<<>>) = {} /\ IsInjective(<<>>)
    /\ <<>> \o <<Header>> = <<Header>>
<1>1. Header \in Lines BY DEF Lines
<1>2. <<Header>> \in Seq(Lines) /\ Len(<<Header>>) = 1 /\ DOMAIN <<Header>> = {1} /\ <<Header>>[1] = Header
      BY <1>1
<1>3. ToSet(<<Header>>) = {Header} BY <1>2 DEF ToSet
<1>4. IsInjective(<<Header>>) BY <1>2 DEF IsInjective
<1>5. DOMAIN <<>> = {} /\ <<>> \in Seq(Lines) BY EmptySeq, LenProperties
<1>6. ToSet(<<>>) = {} /\ IsInjective(<<>>) BY <1>5 DEF ToSet, IsInjective
<1>7. <<>> \o <<Header>> = <<Header>> BY <1>2, ConcatEmptySeq
<1> QED BY <1>2, <1>3, <1>4, <1>5, <1>6, <1>7

\* A part may grow by rows it does not hold yet.
Growing(file, header, src) ==
    IF header THEN file = NoFile ELSE Sound(file, src) /\ RowsOf(file) # {}
NewRows(rows, file, src) ==
    /\ rows \in Seq(Rows) /\ IsInjective(rows)
    /\ \A r \in ToSet(rows) : r[1] = src
    /\ ToSet(rows) \cap RowsOf(file) = {}

\* to_csv(mode="a") keeps a part sound, also if it is cut off.
LEMMA AppendedSound ==
    ASSUME NEW src, NEW file, NEW header \in BOOLEAN, NEW rows,
           Growing(file, header, src), NewRows(rows, file, src)
    PROVE  /\ Sound(Append2(file, Appended(rows, header)), src)
           /\ RowsOf(Append2(file, Appended(rows, header))) = RowsOf(file) \cup ToSet(rows)
           /\ \A part \in CutOff(file, Appended(rows, header)) : Sound(part, src)
<1> DEFINE old == IF file = NoFile THEN <<>> ELSE file
           top == IF header THEN <<Header>> ELSE <<>>
           new == Appended(rows, header)
           all == Append2(file, new)
<1> USE DEF Growing, NewRows
<1>1. new = top \o rows /\ all = old \o new BY DEF Appended, Append2
<1>2. /\ rows \in Seq(Lines) /\ ToSet(rows) \subseteq Rows /\ Header \notin ToSet(rows)
  <2>1. \A i \in 1..Len(rows) : rows[i] \in Rows BY ElementOfSeq
  <2>2. DOMAIN rows = 1..Len(rows) /\ Len(rows) \in Nat /\ rows \in [1..Len(rows) -> Rows] BY LenProperties
  <2>3. rows \in [1..Len(rows) -> Lines] BY <2>2 DEF Lines
  <2>4. rows \in Seq(Lines) BY <2>2, <2>3, IsSeq
  <2>5. ToSet(rows) \subseteq Rows BY <2>1, <2>2 DEF ToSet
  <2> QED BY <2>4, <2>5, RowsAre
<1>3. /\ top \in Seq(Lines) /\ IsInjective(top)
      /\ ToSet(top) = IF header THEN {Header} ELSE {}
      BY JustHeader
<1>4. /\ old \in Seq(Lines) /\ IsInjective(old)
      /\ ToSet(old) \ {Header} = RowsOf(file) /\ (header => ToSet(old) = {})
  <2>1. CASE header BY <2>1, JustHeader, NoRows
  <2>2. CASE ~header
    <3>1. Sound(file, src) BY <2>2
    <3>2. old = file /\ file \in Seq(Lines) /\ RowsOf(file) = ToSet(file) \ {Header} BY <3>1, SoundFile
    <3> QED BY <2>2, <3>1, <3>2 DEF Sound
  <2> QED BY <2>1, <2>2
<1> HIDE DEF old, top, new, all
<1>5. IsInjective(new) /\ ToSet(new) = ToSet(top) \cup ToSet(rows) /\ new \in Seq(Lines)
  <2>1. ToSet(top) \cap ToSet(rows) = {} BY <1>2, <1>3
  <2> QED BY <1>1, <1>2, <1>3, <2>1, ConcatInjective
<1>6. IsInjective(all) /\ ToSet(all) = ToSet(old) \cup ToSet(new) /\ all \in Seq(Lines)
  <2>1. ToSet(old) \cap ToSet(new) = {}
    <3>1. CASE header BY <1>4, <3>1
    <3>2. CASE ~header BY <1>2, <1>3, <1>4, <1>5, <3>2
    <3> QED BY <3>1, <3>2
  <2>2. /\ IsInjective(old \o new) /\ ToSet(old \o new) = ToSet(old) \cup ToSet(new)
        /\ old \o new \in Seq(Lines)
    <3>1. old \in Seq(Lines) /\ IsInjective(old) BY <1>4
    <3>2. new \in Seq(Lines) /\ IsInjective(new) BY <1>5
    <3> QED BY <2>1, <3>1, <3>2, ConcatInjective
  <2> QED BY <1>1, <2>2
<1>7. /\ Len(old) \in Nat /\ Len(new) \in Nat /\ Len(all) = Len(old) + Len(new)
      /\ \A k \in 1..Len(old) : all[k] = old[k]
      /\ \A k \in 1..Len(new) : all[Len(old) + k] = new[k]
      BY <1>1, <1>4, <1>5, ConcatTwo
<1>8. all[1] = Header
  <2>1. CASE header
    <3>1. old = <<>> /\ Len(old) = 0 BY <2>1, EmptySeq DEF old
    <3>2. /\ Len(rows) \in Nat /\ Len(new) = 1 + Len(rows) /\ new[1] = Header
      <4>1. top = <<Header>> BY <2>1 DEF top
      <4>2. /\ Len(new) = Len(top) + Len(rows) /\ Len(rows) \in Nat
            /\ \A k \in 1..Len(top) : new[k] = top[k]
            BY <1>1, <1>2, <1>3, ConcatTwo
      <4> QED BY <4>1, <4>2, JustHeader
    <3>3. 1 \in 1..Len(new) /\ 0 + 1 = 1 BY <3>2
    <3> QED BY <1>7, <3>1, <3>2, <3>3
  <2>2. CASE ~header
    <3>1. Sound(file, src) /\ RowsOf(file) # {} BY <2>2
    <3>2. old = file BY <3>1, SoundFile DEF old
    <3>3. file # <<>> BY <1>4, <3>1, <3>2, JustHeader
    <3>4. Len(old) # 0 BY <1>4, <3>2, <3>3, EmptySeq
    <3>5. 1 \in 1..Len(old) BY <1>7, <3>4
    <3> QED BY <1>7, <3>1, <3>2, <3>3, <3>5 DEF Sound
  <2> QED BY <2>1, <2>2
<1>9. ToSet(all) \ {Header} = RowsOf(file) \cup ToSet(rows) BY <1>2, <1>3, <1>4, <1>5, <1>6
<1>10. Sound(all, src)
  <2>1. \A r \in ToSet(all) \ {Header} : r[1] = src
    <3>1. \A r \in RowsOf(file) : r[1] = src
      <4>1. CASE header BY <4>1, NoRows
      <4>2. CASE ~header BY <4>2, SoundFile DEF Sound
      <4> QED BY <4>1, <4>2
    <3> QED BY <1>9, <3>1
  <2> QED BY <1>6, <1>8, <2>1 DEF Sound
<1>11. RowsOf(all) = RowsOf(file) \cup ToSet(rows) BY <1>9, <1>10, SoundFile
<1>12. ASSUME NEW part \in CutOff(file, new) PROVE Sound(part, src)
  <2>1. PICK l \in 0..Len(new) : part = old \o SubSeq(new, 1, l)
        BY DEF CutOff, Prefixes, Append2, old
  <2> DEFINE cut == SubSeq(new, 1, l)
  <2>2. l \in Nat /\ l <= Len(new) BY <1>7
  <2>3. cut \in Seq(Lines) /\ Len(cut) = l /\ \A k \in 1..l : cut[k] = new[k]
    <3>1. \A k \in 1..l : new[k] \in Lines BY <1>5, <1>7, <2>2, ElementOfSeq
    <3>2. /\ cut \in Seq(Lines) /\ Len(cut) = IF 1 <= l THEN l - 1 + 1 ELSE 0
          /\ \A k \in 1..(l - 1 + 1) : cut[k] = new[1 + k - 1]
          BY <2>2, <3>1, SubSeqProperties
    <3>3. l - 1 + 1 = l /\ (1 <= l \/ l = 0) /\ \A k \in 1..l : 1 + k - 1 = k BY <2>2
    <3> QED BY <3>2, <3>3
  <2> HIDE DEF cut
  <2>4. /\ part \in Seq(Lines) /\ Len(part) = Len(old) + l
        /\ \A k \in 1..Len(old) : part[k] = old[k]
        /\ \A k \in 1..l : part[Len(old) + k] = cut[k]
    <3>1. part = old \o cut BY <2>1 DEF cut
    <3> QED BY <1>4, <2>3, <3>1, ConcatTwo
  <2>5. Len(part) <= Len(all) BY <1>7, <2>2, <2>4
  <2>6. \A k \in 1..Len(part) : part[k] = all[k]
    <3> SUFFICES ASSUME NEW k \in 1..Len(part) PROVE part[k] = all[k] OBVIOUS
    <3>1. CASE k \in 1..Len(old) BY <1>7, <2>4, <3>1
    <3>2. CASE k \notin 1..Len(old)
      <4> DEFINE j == k - Len(old)
      <4>1. j \in 1..l /\ k = Len(old) + j /\ j \in 1..Len(new) BY <1>7, <2>2, <2>4, <3>2
      <4> HIDE DEF j
      <4> QED BY <1>7, <2>3, <2>4, <4>1
    <3> QED BY <3>1, <3>2
  <2> QED BY <1>10, <2>4, <2>5, <2>6, BeginningSound
<1> QED BY <1>10, <1>11, <1>12 DEF all, new

LEMMA ListOfSet ==
    ASSUME NEW S, IsFiniteSet(S)
    PROVE  SetToSeq(S) \in Seq(S) /\ IsInjective(SetToSeq(S)) /\ ToSet(SetToSeq(S)) = S
<1> DEFINE n == Cardinality(S)
           q == SetToSeq(S)
<1>1. n \in Nat /\ ExistsBijection(1..n, S) BY FS_CardinalityType
<1>2. \E f \in [1..n -> S] : IsInjective(f) BY <1>1 DEF ExistsBijection, Bijection, Injection
<1>3. q \in [1..n -> S] /\ IsInjective(q) BY <1>2 DEF SetToSeq
<1>4. q \in Injection(1..n, S) BY <1>3 DEF Injection
<1>5. IsFiniteSet(1..n) /\ Cardinality(1..n) = n BY <1>1, FS_Interval
<1> HIDE DEF q
<1>6. q \in Surjection(1..n, S) BY <1>4, <1>5, FS_Injection
<1>7. q \in Seq(S) BY <1>1, <1>3, IsSeq
<1>8. ToSet(q) = S BY <1>3, <1>6 DEF Surjection, ToSet
<1> QED BY <1>3, <1>7, <1>8 DEF q

LEMMA WiderSeq ==
    ASSUME NEW S, NEW T, S \subseteq T, NEW q \in Seq(S)
    PROVE  q \in Seq(T)
<1>1. Len(q) \in Nat /\ q \in [1..Len(q) -> S] BY LenProperties
<1>2. q \in [1..Len(q) -> T] BY <1>1
<1> QED BY <1>1, <1>2, IsSeq

\* A csv file written at once is sound and holds the rows it was to hold.
LEMMA CsvSound ==
    ASSUME NEW src, NEW rows, rows \subseteq Rows, IsFiniteSet(rows), \A r \in rows : r[1] = src
    PROVE  Sound(CsvOf(rows), src) /\ RowsOf(CsvOf(rows)) = rows
<1> DEFINE q == SetToSeq(rows)
           csv == CsvOf(rows)
<1>1. q \in Seq(rows) /\ IsInjective(q) /\ ToSet(q) = rows BY ListOfSet
<1>2. rows \subseteq Lines /\ Header \notin rows BY RowsAre DEF Lines
<1> HIDE DEF q
<1>3. q \in Seq(Lines) BY <1>1, <1>2, WiderSeq
<1>4. csv = <<Header>> \o q BY DEF CsvOf, q
<1> HIDE DEF csv
<1>5. ToSet(<<Header>>) \cap ToSet(q) = {} BY <1>1, <1>2, JustHeader
<1>6. <<Header>> \in Seq(Lines) /\ IsInjective(<<Header>>) BY JustHeader
<1>7. IsInjective(<<Header>> \o q) /\ ToSet(<<Header>> \o q) = ToSet(<<Header>>) \cup ToSet(q)
      /\ <<Header>> \o q \in Seq(Lines)
      BY <1>1, <1>3, <1>5, <1>6, ConcatInjective
<1>8. csv[1] = Header
  <2>1. \A k \in 1..Len(<<Header>>) : (<<Header>> \o q)[k] = <<Header>>[k] BY <1>3, <1>6, ConcatTwo
  <2>2. 1 \in 1..Len(<<Header>>) /\ <<Header>>[1] = Header BY JustHeader
  <2> QED BY <1>4, <2>1, <2>2
<1>9. ToSet(csv) \ {Header} = rows BY <1>1, <1>2, <1>4, <1>7, JustHeader
<1>10. Sound(csv, src) BY <1>4, <1>7, <1>8, <1>9 DEF Sound
<1> QED BY <1>9, <1>10, SoundFile DEF csv

\* A write that is cut off in the header leaves a file without a row.
LEMMA HeaderOnly ==
    ASSUME NEW src, NEW file \in CutOff(NoFile, <<Header>>)
    PROVE  Sound(file, src) /\ RowsOf(file) = {} /\ Sources(file) = {}
<1>1. PICK l \in 0..Len(<<Header>>) : file = <<>> \o SubSeq(<<Header>>, 1, l)
      BY DEF CutOff, Prefixes, Append2
<1>2. l \in Nat /\ l <= 1 /\ Len(<<Header>>) = 1 BY <1>1, JustHeader
<1> DEFINE cut == SubSeq(<<Header>>, 1, l)
<1>3. cut \in Seq(Lines) /\ Len(cut) = l /\ \A k \in 1..l : cut[k] = <<Header>>[k]
  <2>1. \A k \in 1..l : <<Header>>[k] \in Lines
    <3>1. \A k \in 1..l : k = 1 BY <1>2
    <3>2. Header \in Lines BY DEF Lines
    <3> QED BY <3>1, <3>2, JustHeader
  <2>2. /\ cut \in Seq(Lines) /\ Len(cut) = IF 1 <= l THEN l - 1 + 1 ELSE 0
        /\ \A k \in 1..(l - 1 + 1) : cut[k] = <<Header>>[1 + k - 1]
        BY <1>2, <2>1, SubSeqProperties
  <2>3. l - 1 + 1 = l /\ (1 <= l \/ l = 0) /\ \A k \in 1..l : 1 + k - 1 = k BY <1>2
  <2> QED BY <2>2, <2>3
<1> HIDE DEF cut
<1>4. file = cut
  <2>1. file = <<>> \o cut BY <1>1 DEF cut
  <2> QED BY <1>3, <2>1, ConcatEmptySeq
<1>5. Sound(<<Header>>, src) /\ RowsOf(<<Header>>) = {}
  <2>1. Sound(<<Header>>, src) BY JustHeader DEF Sound
  <2> QED BY <2>1, SoundFile, JustHeader
<1>6. Sound(file, src) /\ RowsOf(file) \subseteq RowsOf(<<Header>>)
  <2>1. Len(cut) <= Len(<<Header>>) /\ \A k \in 1..Len(cut) : cut[k] = <<Header>>[k] BY <1>2, <1>3
  <2> QED BY <1>3, <1>4, <1>5, <2>1, BeginningSound
<1> QED BY <1>5, <1>6 DEF Sources

\* Taking the first chunk.
LEMMA HeadAndTail ==
    ASSUME NEW T, NEW chunks \in Seq(Seq(T)), Spread(chunks), chunks # <<>>
    PROVE  /\ Head(chunks) \in Seq(T) /\ IsInjective(Head(chunks))
           /\ Tail(chunks) \in Seq(Seq(T)) /\ Spread(Tail(chunks))
           /\ Remaining(chunks) = ToSet(Head(chunks)) \cup Remaining(Tail(chunks))
           /\ ToSet(Head(chunks)) \cap Remaining(Tail(chunks)) = {}
<1> DEFINE n == Len(chunks)
           rest == Tail(chunks)
<1>1. n \in Nat /\ n # 0 /\ DOMAIN chunks = 1..n /\ \A k \in 1..n : chunks[k] \in Seq(T)
      BY LenProperties, EmptySeq, ElementOfSeq
<1>2. Head(chunks) = chunks[1] /\ rest \in Seq(Seq(T)) /\ Len(rest) = n - 1
      /\ \A k \in 1..(n - 1) : rest[k] = chunks[k + 1]
      BY HeadTailProperties
<1>3. DOMAIN rest = 1..(n - 1) BY <1>2, LenProperties
<1> HIDE DEF n, rest
<1>4. 1 \in 1..n /\ \A k \in 1..(n - 1) : k + 1 \in 1..n /\ k + 1 # 1 BY <1>1
<1>5. \A k \in 1..n : k = 1 \/ (k - 1 \in 1..(n - 1) /\ (k - 1) + 1 = k) BY <1>1
<1>6. Head(chunks) \in Seq(T) /\ IsInjective(Head(chunks)) BY <1>1, <1>2, <1>4 DEF Spread
<1>7. Spread(rest)
  <2>1. \A k \in 1..(n - 1) : IsInjective(rest[k]) BY <1>1, <1>2, <1>4 DEF Spread
  <2>2. ASSUME NEW k \in 1..(n - 1), NEW j \in 1..(n - 1), k # j
        PROVE  ToSet(rest[k]) \cap ToSet(rest[j]) = {}
    <3>1. k + 1 # j + 1 BY <2>2
    <3>2. rest[k] = chunks[k + 1] /\ rest[j] = chunks[j + 1] BY <1>2
    <3>3. k + 1 \in DOMAIN chunks /\ j + 1 \in DOMAIN chunks BY <1>1, <1>4
    <3> QED BY <3>1, <3>2, <3>3 DEF Spread
  <2> QED BY <1>3, <2>1, <2>2 DEF Spread
<1>8. Remaining(chunks) = ToSet(chunks[1]) \cup Remaining(rest)
  <2>1. \A r : (\E k \in 1..n : r \in ToSet(chunks[k]))
                    => r \in ToSet(chunks[1]) \/ \E k \in 1..(n - 1) : r \in ToSet(rest[k])
        BY <1>2, <1>5
  <2>2. \A r : (\E k \in 1..(n - 1) : r \in ToSet(rest[k])) => \E k \in 1..n : r \in ToSet(chunks[k])
        BY <1>2, <1>4
  <2>3. Remaining(chunks) \subseteq ToSet(chunks[1]) \cup Remaining(rest)
        BY <1>1, <1>3, <2>1 DEF Remaining
  <2>4. ToSet(chunks[1]) \subseteq Remaining(chunks) BY <1>1, <1>4 DEF Remaining
  <2>5. Remaining(rest) \subseteq Remaining(chunks) BY <1>1, <1>3, <2>2 DEF Remaining
  <2> QED BY <2>3, <2>4, <2>5
<1>9. ToSet(chunks[1]) \cap Remaining(rest) = {}
  <2>1. \A k \in 1..(n - 1) : ToSet(chunks[1]) \cap ToSet(rest[k]) = {}
        BY <1>1, <1>2, <1>4 DEF Spread
  <2> QED BY <1>3, <2>1 DEF Remaining
<1> QED BY <1>2, <1>6, <1>7, <1>8, <1>9 DEF rest

LEMMA NoChunks == Remaining(<<>>) = {} /\ Spread(<<>>)
<1>1. DOMAIN <<>> = {} BY EmptySeq, LenProperties
<1> QED BY <1>1 DEF Remaining, Spread

LEMMA SomeRow ==
    ASSUME NEW T, NEW q \in Seq(T)
    PROVE  q = <<>> <=> ToSet(q) = {}
<1>1. Len(q) \in Nat /\ DOMAIN q = 1..Len(q) BY LenProperties
<1>2. q # <<>> => 1 \in DOMAIN q BY <1>1, EmptySeq
<1>3. q # <<>> => q[1] \in ToSet(q) BY <1>2 DEF ToSet
<1> QED BY <1>3, JustHeader

-----------------------------------------------------------------------------
(* The invariant holds at the start and is kept by every step              *)

LEMMA IdleIs ==
    /\ Idle \in Job /\ Idle.source \in DOMAIN Prepared /\ Idle.size \in TestSizes
    /\ NoCounts \in [Labels -> Nat]
<1>1. Idle.source \in DOMAIN Prepared BY DataAssumption DEF Idle
<1>2. Idle.size \in TestSizes BY SizesAssumption DEF Idle
<1>3. <<>> \in Seq(Seq(Rows)) BY EmptySeq
<1>4. NoCounts \in [Labels -> Nat] BY DEF NoCounts
<1>5. Idle \in Job BY <1>1, <1>2, <1>3, <1>4 DEF Idle, Job, AllSources
<1> QED BY <1>1, <1>2, <1>4, <1>5

LEMMA InitInv == Init => IInv
<1> SUFFICES ASSUME Init PROVE IInv OBVIOUS
<1>1. Shape
  <2>1. 0 \in 0..MaxRuns BY SizesAssumption
  <2>2. \A l \in Labels : tested[l] <= seen[l] BY DEF Init, NoCounts
  <2> QED BY <2>1, <2>2, IdleIs DEF Init, Shape, Steps, FileOK
<1>2. Begun /\ Parted /\ CountersTrue /\ Preparing BY DEF Init, Begun, Parted, CountersTrue, Preparing, Dealing
<1>3. MetaTrue /\ SplitMetaCurrent BY DEF Init, MetaTrue, SplitMetaCurrent, IsMeta
<1> QED BY <1>1, <1>2, <1>3 DEF IInv

\* Steps after which no row is being dealt out, with the files as they were.
Aside == pc' \notin {"choose", "append_train", "append_test"}
LEMMA AsideStays == Aside => Parted' /\ CountersTrue' BY DEF Aside, Parted, CountersTrue, Dealing
LEMMA FilesStay ==
    ASSUME IInv, UNCHANGED files
    PROVE  MetaTrue' /\ SplitMetaCurrent'
BY DEF IInv, files, MetaTrue, SplitMetaCurrent, IsMeta

LEMMA StartSplitInv ==
    ASSUME IInv, NEW source \in DOMAIN Prepared, NEW size \in TestSizes, NEW c \in ChunkSizes,
           NEW force \in BOOLEAN, StartSplit(source, size, c, force)
    PROVE  IInv'
<1> DEFINE chunks == CleanChunks[source][c]
<1>1. /\ pc' = "count" /\ runs < MaxRuns /\ runs' = runs + 1 /\ UNCHANGED <<files, counters>>
      /\ job' = [Idle EXCEPT !.source = source, !.size = size, !.chunks = chunks]
      BY DEF StartSplit, Goto
<1>2. Dealt(chunks, CleanRows[source]) BY ChunksDealt
<1>3. chunks \in Seq(Seq(Rows))
  <2>1. CleanRows[source] \subseteq Rows BY RowsAre
  <2>2. Seq(CleanRows[source]) \subseteq Seq(Rows) BY <2>1, WiderSeq
  <2> QED BY <1>2, <2>2, WiderSeq DEF Dealt
<1> HIDE DEF chunks
<1>4. /\ job' \in Job /\ job'.source = source /\ job'.chunks = chunks
      /\ job'.pick = {} /\ job'.train_header /\ job'.test_header
      BY <1>1, <1>3, IdleIs DEF Idle, Job, AllSources
<1>5. Shape'
  <2>1. runs' \in 0..MaxRuns BY <1>1, SizesAssumption DEF IInv, Shape
  <2> QED BY <1>1, <1>4, <2>1 DEF IInv, Shape, Steps, files, counters
<1>6. Begun' BY <1>1, <1>2, <1>4 DEF Begun
<1>7. Preparing' BY <1>1 DEF Preparing
<1> QED BY <1>1, <1>5, <1>6, <1>7, AsideStays, FilesStay DEF IInv, Aside

LEMMA CountLabelsInv ==
    ASSUME IInv, CountLabels
    PROVE  IInv'
<1>1. /\ pc = "count" /\ pc' \in {"idle", "unlink_train"} /\ UNCHANGED <<files, runs>>
      BY DEF CountLabels
<1>2. job \in Job /\ job.source \in DOMAIN Prepared BY <1>1 DEF IInv, Shape, Begun
<1>3. CASE job.chunks = <<>>
  <2>1. pc' = "idle" /\ UNCHANGED <<job, counters>> BY <1>3 DEF CountLabels
  <2>2. Shape' BY <1>1, <2>1 DEF IInv, Shape, Steps, files, counters
  <2>3. Begun' /\ Preparing' BY <2>1 DEF Begun, Preparing
  <2> QED BY <1>1, <2>1, <2>2, <2>3, AsideStays, FilesStay DEF IInv, Aside
<1>4. CASE job.chunks # <<>>
  <2> DEFINE totals == [l \in Labels |-> CountOf(CleanRows[job.source], l)]
             targets == TestTargets[job.source][job.size]
  <2>1. /\ pc' = "unlink_train" /\ seen' = NoCounts /\ tested' = NoCounts
        /\ job' = [job EXCEPT !.totals = totals, !.targets = targets]
        BY <1>4 DEF CountLabels
  <2>2. totals \in [Labels -> Nat] /\ targets \in [Labels -> Nat]
        BY <1>2, TargetsAre DEF Job
  <2> HIDE DEF totals, targets
  <2>3. /\ job' \in Job /\ job'.totals = totals /\ job'.targets = targets
        /\ job'.source = job.source /\ job'.size = job.size /\ job'.chunks = job.chunks /\ job'.pick = job.pick
        /\ job'.train_header = job.train_header /\ job'.test_header = job.test_header
        BY <1>2, <2>1, <2>2 DEF Job
  <2>4. Shape'
    <3>1. \A l \in Labels : tested'[l] <= seen'[l] BY <2>1 DEF NoCounts
    <3> QED BY <1>1, <2>1, <2>3, <3>1, IdleIs DEF IInv, Shape, Steps, files
  <2>5. Begun'
    <3>1. Counted' BY <2>3 DEF Counted, totals, targets
    <3>2. Dealt(job'.chunks, CleanRows[job'.source]) BY <1>1, <2>3 DEF IInv, Begun
    <3> QED BY <1>1, <1>2, <2>1, <2>3, <3>1, <3>2 DEF IInv, Begun
  <2>6. Preparing' BY <2>1 DEF Preparing
  <2> QED BY <1>1, <2>1, <2>4, <2>5, <2>6, AsideStays, FilesStay DEF IInv, Aside
<1> QED BY <1>3, <1>4

LEMMA UnlinkTrainInv ==
    ASSUME IInv, UnlinkTrain
    PROVE  IInv'
<1>1. /\ pc = "unlink_train" /\ pc' = "unlink_test" /\ train' = NoFile
      /\ UNCHANGED <<test, split_meta, job, seen, tested, runs>>
      BY DEF UnlinkTrain, Goto, counters
<1>2. Shape' BY <1>1 DEF IInv, Shape, Steps, FileOK
<1>3. Begun' BY <1>1 DEF IInv, Begun, Counted
<1>4. Preparing' /\ MetaTrue' BY <1>1 DEF IInv, Preparing, MetaTrue, IsMeta
<1>5. SplitMetaCurrent' BY <1>1 DEF IInv, SplitMetaCurrent, IsMeta
<1> QED BY <1>1, <1>2, <1>3, <1>4, <1>5, AsideStays DEF IInv, Aside

LEMMA UnlinkTestInv ==
    ASSUME IInv, UnlinkTest
    PROVE  IInv'
<1>1. /\ pc = "unlink_test" /\ pc' = "unlink_meta" /\ test' = NoFile
      /\ UNCHANGED <<train, split_meta, job, seen, tested, runs>>
      BY DEF UnlinkTest, Goto, counters
<1>2. Shape' BY <1>1 DEF IInv, Shape, Steps, FileOK
<1>3. Begun' BY <1>1 DEF IInv, Begun, Counted
<1>4. Preparing' /\ MetaTrue' BY <1>1 DEF IInv, Preparing, MetaTrue, IsMeta
<1>5. SplitMetaCurrent' BY <1>1 DEF IInv, SplitMetaCurrent, IsMeta
<1> QED BY <1>1, <1>2, <1>3, <1>4, <1>5, AsideStays DEF IInv, Aside

\* From here on the rows are dealt out; none of them is in a file.
LEMMA UnlinkMetaInv ==
    ASSUME IInv, UnlinkMeta
    PROVE  IInv'
<1> DEFINE R == CleanRows[job.source]
<1>1. /\ pc = "unlink_meta" /\ pc' = "choose" /\ split_meta' = NoFile
      /\ UNCHANGED <<train, test, job, seen, tested, runs>>
      BY DEF UnlinkMeta, Goto, counters
<1>2. /\ job.source \in DOMAIN Prepared /\ job \in Job /\ Dealt(job.chunks, R) /\ Counted
      /\ job.pick = {} /\ job.train_header /\ job.test_header
      /\ seen = NoCounts /\ tested = NoCounts /\ train = NoFile /\ test = NoFile
      BY <1>1 DEF IInv, Begun, Shape
<1>3. Shape' BY <1>1 DEF IInv, Shape, Steps
<1>4. Begun' /\ Preparing' BY <1>1 DEF Begun, Preparing
<1>5. MetaTrue' /\ SplitMetaCurrent' BY <1>1 DEF MetaTrue, SplitMetaCurrent, IsMeta
<1>6. Remaining(job.chunks) = R
  <2>1. R \subseteq Remaining(job.chunks) BY <1>2 DEF Dealt, Remaining
  <2>2. \A k \in DOMAIN job.chunks : ToSet(job.chunks[k]) \subseteq R
    <3> SUFFICES ASSUME NEW k \in DOMAIN job.chunks PROVE ToSet(job.chunks[k]) \subseteq R OBVIOUS
    <3> DEFINE chunks == job.chunks
    <3>1. chunks \in Seq(Seq(R)) BY <1>2 DEF Dealt
    <3> HIDE DEF chunks, R
    <3>2. k \in 1..Len(chunks) BY <3>1, LenProperties DEF chunks
    <3>3. chunks[k] \in Seq(R) BY <3>1, <3>2, ElementOfSeq
    <3>4. \A i \in 1..Len(chunks[k]) : chunks[k][i] \in R BY <3>3, ElementOfSeq
    <3>5. DOMAIN chunks[k] = 1..Len(chunks[k]) BY <3>3, LenProperties
    <3> QED BY <3>4, <3>5 DEF ToSet, chunks
  <2> QED BY <2>1, <2>2 DEF Remaining
<1> HIDE DEF R
<1>7. Left' = R /\ InHand' = {} BY <1>1, <1>6 DEF Left, InHand
<1>8. Parted'
  <2>1. job.chunks \in Seq(Seq(R)) /\ Spread(job.chunks) BY <1>2 DEF Dealt, Spread
  <2>2. RowsOf(train) = {} /\ RowsOf(test) = {} BY <1>2, NoRows
  <2>3. R' = R BY <1>1 DEF R
  <2>4. OpenPart(train, job.train_header)' /\ OpenPart(test, job.test_header)'
        BY <1>1, <1>2 DEF OpenPart
  <2>5. Counted' BY <1>1, <1>2 DEF Counted
  <2>6. ~IsMeta(split_meta)' BY <1>1 DEF IsMeta
  <2> QED BY <1>1, <1>2, <1>7, <2>1, <2>2, <2>3, <2>4, <2>5, <2>6 DEF Parted, R
<1>9. CountersTrue'
  <2> SUFFICES ASSUME NEW l \in Labels
               PROVE  /\ seen'[l] = CountOf(CleanRows[job'.source] \ Left', l)
                      /\ tested'[l] = CountOf(RowsOf(test') \cup job'.pick, l)
                      /\ tested'[l] <= job'.targets[l]
                      /\ job'.targets[l] - tested'[l] <= job'.totals[l] - seen'[l]
      BY DEF CountersTrue
  <2>1. seen'[l] = 0 /\ tested'[l] = 0 BY <1>1, <1>2 DEF NoCounts
  <2>2. CleanRows[job'.source] \ Left' = {} BY <1>1, <1>7 DEF R
  <2>3. RowsOf(test') \cup job'.pick = {} BY <1>1, <1>2, NoRows
  <2>4. job.targets[l] \in Nat /\ job.totals[l] \in Nat /\ job.targets[l] <= job.totals[l]
    <3>1. job.size \in TestSizes BY <1>2 DEF Job
    <3>2. job.totals[l] = CountOf(CleanRows[job.source], l) /\ job.targets = TestTargets[job.source][job.size]
          BY <1>2 DEF Counted
    <3>3. TestTargets[job.source][job.size] \in [Labels -> Nat] BY <1>2, <3>1, TargetsAre
    <3>4. /\ CountOf(CleanRows[job.source], l) \in Nat
          /\ TestTargets[job.source][job.size][l] <= CountOf(CleanRows[job.source], l)
          BY <1>2, <3>1, TargetsAre
    <3> DEFINE targets == TestTargets[job.source][job.size]
    <3>5. targets \in [Labels -> Nat] /\ job.targets = targets BY <3>2, <3>3
    <3>6. targets[l] <= CountOf(CleanRows[job.source], l) BY <3>4
    <3> HIDE DEF targets
    <3> QED BY <3>2, <3>4, <3>5, <3>6
  <2>5. CountOf({}, l) = 0 BY CountNone
  <2>6. seen'[l] = CountOf(CleanRows[job'.source] \ Left', l) /\ tested'[l] = CountOf(RowsOf(test') \cup job'.pick, l)
        BY <2>1, <2>2, <2>3, <2>5
  <2>7. job'.targets[l] = job.targets[l] /\ job'.totals[l] = job.totals[l] BY <1>1
  <2> QED BY <2>1, <2>4, <2>6, <2>7
<1> QED BY <1>3, <1>4, <1>5, <1>8, <1>9 DEF IInv

\* The rows of the chunk that ChooseRows takes.
LEMMA ChooseRowsInv ==
    ASSUME IInv, ChooseRows
    PROVE  IInv'
<1> DEFINE R == CleanRows[job.source]
           chunk == Head(job.chunks)
           rest == Tail(job.chunks)
           dealt == R \ Remaining(job.chunks)
<1>1. /\ pc = "choose" /\ pc' = "append_train" /\ job.chunks # <<>>
      /\ UNCHANGED <<train, test, split_meta, runs>>
      BY DEF ChooseRows, Goto, files
<1>2. PICK pick \in TestPicks(chunk) :
        /\ job' = [job EXCEPT !.pick = pick]
        /\ seen' = [l \in Labels |-> seen[l] + CountOf(ToSet(chunk), l)]
        /\ tested' = [l \in Labels |-> tested[l] + CountOf(pick, l)]
      BY DEF ChooseRows
<1>3. /\ job \in Job /\ job.source \in DOMAIN Prepared /\ Counted /\ ~IsMeta(split_meta)
      /\ job.chunks \in Seq(Seq(R)) /\ Spread(job.chunks) /\ job.pick = {}
      /\ RowsOf(train) \cup RowsOf(test) \cup Remaining(job.chunks) = R
      /\ RowsOf(train) \cap RowsOf(test) = {}
      /\ (RowsOf(train) \cup RowsOf(test)) \cap Remaining(job.chunks) = {}
      /\ OpenPart(train, job.train_header) /\ OpenPart(test, job.test_header)
      BY <1>1 DEF IInv, Shape, Parted, Dealing, Left, InHand
<1>4. \A l \in Labels : /\ seen[l] = CountOf(dealt, l) /\ tested[l] = CountOf(RowsOf(test), l)
                        /\ tested[l] <= job.targets[l]
                        /\ job.targets[l] - tested[l] <= job.totals[l] - seen[l]
  <2>1. RowsOf(test) \cup job.pick = RowsOf(test) BY <1>3
  <2> QED BY <1>1, <2>1 DEF IInv, CountersTrue, Dealing, Left
<1>5. /\ chunk \in Seq(R) /\ IsInjective(chunk)
      /\ Remaining(job.chunks) = ToSet(chunk) \cup Remaining(rest)
      /\ ToSet(chunk) \cap Remaining(rest) = {}
      BY <1>1, <1>3, HeadAndTail
<1>6. pick \subseteq ToSet(chunk) BY DEF TestPicks
<1>7. /\ IsFiniteSet(R) /\ R \subseteq Rows BY <1>3, CleanRowsFinite, RowsAre
<1>8. /\ job' \in Job /\ job'.source = job.source /\ job'.size = job.size /\ job'.chunks = job.chunks
      /\ job'.pick = pick /\ job'.totals = job.totals /\ job'.targets = job.targets
      /\ job'.train_header = job.train_header /\ job'.test_header = job.test_header
  <2>1. ToSet(chunk) \subseteq Rows BY <1>3, <1>5, <1>7
  <2>2. pick \in SUBSET Rows BY <1>6, <2>1
  <2> QED BY <1>2, <1>3, <2>2 DEF Job
<1> HIDE DEF R, chunk, rest, dealt
<1>9. Left' = Remaining(rest) /\ InHand' = ToSet(chunk)
      BY <1>1, <1>8 DEF Left, InHand, chunk, rest
<1>10. /\ R \ Remaining(rest) = dealt \cup ToSet(chunk) /\ dealt \cap ToSet(chunk) = {}
       /\ dealt \subseteq R /\ ToSet(chunk) \subseteq R
       BY <1>3, <1>5 DEF dealt
<1>11. ASSUME NEW l \in Labels
       PROVE  /\ seen[l] \in Nat /\ tested[l] \in Nat /\ tested[l] <= seen[l]
              /\ CountOf(pick, l) \in Nat /\ CountOf(ToSet(chunk), l) \in Nat
              /\ CountOf(pick, l) <= CountOf(ToSet(chunk), l)
              /\ seen[l] + CountOf(ToSet(chunk), l) = CountOf(R \ Remaining(rest), l)
              /\ tested[l] + CountOf(pick, l) = CountOf(RowsOf(test) \cup pick, l)
              /\ tested[l] + CountOf(pick, l) <= job.targets[l]
              /\ job.targets[l] - (tested[l] + CountOf(pick, l))
                    <= job.totals[l] - (seen[l] + CountOf(ToSet(chunk), l))
  <2>1. seen[l] \in Nat /\ tested[l] \in Nat /\ tested[l] <= seen[l] BY DEF IInv, Shape
  <2>2. job.totals[l] \in Nat /\ job.targets[l] \in Nat BY <1>3 DEF Job
  <2>3. IsFiniteSet(dealt) /\ IsFiniteSet(ToSet(chunk)) BY <1>7, <1>10, FS_Subset
  <2>4. seen[l] + CountOf(ToSet(chunk), l) = CountOf(R \ Remaining(rest), l)
        BY <1>4, <1>10, <2>3, CountBoth
  <2>5. seen[l] + CountOf(ToSet(chunk), l) <= job.totals[l]
    <3>1. job.totals[l] = CountOf(R, l) BY <1>3 DEF Counted, R
    <3>2. R \ Remaining(rest) \subseteq R OBVIOUS
    <3> QED BY <1>7, <2>4, <3>1, <3>2, CountIs
  <2>6. RowsOf(test) \cap pick = {} /\ IsFiniteSet(RowsOf(test)) /\ IsFiniteSet(pick)
    <3>1. IsFiniteSet(RowsOf(test)) BY FileRowsFinite DEF IInv, Shape
    <3>2. IsFiniteSet(pick) BY <1>6, <2>3, FS_Subset
    <3>3. pick \subseteq Remaining(job.chunks) BY <1>5, <1>6
    <3> QED BY <1>3, <3>1, <3>2, <3>3
  <2>7. tested[l] + CountOf(pick, l) = CountOf(RowsOf(test) \cup pick, l)
        BY <1>4, <2>6, CountBoth
  <2>8. /\ CountOf(pick, l) \in Nat /\ CountOf(ToSet(chunk), l) \in Nat
        /\ CountOf(pick, l) <= CountOf(ToSet(chunk), l)
        /\ tested[l] + CountOf(pick, l) <= job.targets[l]
        /\ job.targets[l] - (tested[l] + CountOf(pick, l))
                    <= job.totals[l] - (seen[l] + CountOf(ToSet(chunk), l))
    <3>1. pick \in TestPicks(chunk) BY <1>2 DEF chunk
    <3>2. tested[l] <= job.targets[l] /\ job.targets[l] - tested[l] <= job.totals[l] - seen[l] BY <1>4
    <3> QED BY <1>5, <2>1, <2>2, <2>5, <3>1, <3>2, PicksAre
  <2> QED BY <2>1, <2>4, <2>7, <2>8
<1>12. \A l \in Labels : seen'[l] = seen[l] + CountOf(ToSet(chunk), l) /\ tested'[l] = tested[l] + CountOf(pick, l)
       BY <1>2 DEF chunk
<1>13. Shape'
  <2>1. seen' \in [Labels -> Nat] /\ tested' \in [Labels -> Nat]
    <3>1. \A l \in Labels : seen[l] + CountOf(ToSet(chunk), l) \in Nat /\ tested[l] + CountOf(pick, l) \in Nat
          BY <1>11
    <3> QED BY <1>2, <3>1 DEF chunk
  <2>2. \A l \in Labels : tested'[l] <= seen'[l] BY <1>11, <1>12
  <2> QED BY <1>1, <1>8, <2>1, <2>2 DEF IInv, Shape, Steps
<1>14. Begun' /\ Preparing' BY <1>1 DEF Begun, Preparing
<1>15. Parted'
  <2>1. RowsOf(train) \cup RowsOf(test) \cup InHand' \cup Left' = R
        /\ (RowsOf(train) \cup RowsOf(test)) \cap (InHand' \cup Left') = {}
        BY <1>3, <1>5, <1>9
  <2>2. Counted' BY <1>3, <1>8 DEF Counted
  <2>3. pick \subseteq ToSet(Head(job'.chunks)) /\ job'.chunks # <<>> BY <1>1, <1>6, <1>8 DEF chunk
  <2>4. OpenPart(train, job.train_header)' /\ OpenPart(test, job.test_header)'
        BY <1>1, <1>3, <1>8 DEF OpenPart
  <2>5. ~IsMeta(split_meta)' BY <1>1, <1>3 DEF IsMeta
  <2>6. CleanRows[job'.source] = R BY <1>8 DEF R
  <2> QED BY <1>1, <1>3, <1>8, <2>1, <2>2, <2>3, <2>4, <2>5, <2>6 DEF Parted
<1>16. CountersTrue'
  <2> SUFFICES ASSUME NEW l \in Labels
               PROVE  /\ seen'[l] = CountOf(CleanRows[job'.source] \ Left', l)
                      /\ tested'[l] = CountOf(RowsOf(test') \cup job'.pick, l)
                      /\ tested'[l] <= job'.targets[l]
                      /\ job'.targets[l] - tested'[l] <= job'.totals[l] - seen'[l]
      BY DEF CountersTrue
  <2>1. CleanRows[job'.source] \ Left' = R \ Remaining(rest) BY <1>8, <1>9 DEF R
  <2>2. RowsOf(test') \cup job'.pick = RowsOf(test) \cup pick BY <1>1, <1>8
  <2> QED BY <1>8, <1>11, <1>12, <2>1, <2>2
<1>17. MetaTrue' /\ SplitMetaCurrent' BY <1>1, <1>3 DEF MetaTrue, SplitMetaCurrent, IsMeta
<1> QED BY <1>13, <1>14, <1>15, <1>16, <1>17 DEF IInv

\* What one write of a chunk appends: rows of the chunk that neither file holds.
LEMMA TrainRowsAre ==
    ASSUME IInv, pc = "append_train"
    PROVE  /\ TrainRows \in Seq(Rows) /\ IsInjective(TrainRows)
           /\ ToSet(TrainRows) = ToSet(Head(job.chunks)) \ job.pick
           /\ \A r \in ToSet(TrainRows) : r[1] = job.source
           /\ ToSet(TrainRows) \cap RowsOf(train) = {} /\ ToSet(TrainRows) \cap RowsOf(test) = {}
           /\ ToSet(TrainRows) \subseteq CleanRows[job.source]
<1> DEFINE chunk == Head(job.chunks)
           R == CleanRows[job.source]
<1>1. /\ job.source \in DOMAIN Prepared /\ job.chunks \in Seq(Seq(R)) /\ Spread(job.chunks)
      /\ job.chunks # <<>> /\ job.pick \subseteq ToSet(chunk)
      /\ RowsOf(train) \cup RowsOf(test) \cup ToSet(chunk) \cup Remaining(Tail(job.chunks)) = R
      /\ (RowsOf(train) \cup RowsOf(test)) \cap (ToSet(chunk) \cup Remaining(Tail(job.chunks))) = {}
      BY DEF IInv, Parted, Dealing, InHand, Left
<1>2. chunk \in Seq(R) /\ IsInjective(chunk) BY <1>1, HeadAndTail
<1>3. R \subseteq Rows /\ \A r \in R : r[1] = job.source BY <1>1, RowsAre
<1> HIDE DEF R, chunk
<1>4. TrainRows = Only(chunk, ToSet(chunk) \ job.pick) BY DEF TrainRows, chunk
<1>5. /\ Only(chunk, ToSet(chunk) \ job.pick) \in Seq(R)
      /\ ToSet(Only(chunk, ToSet(chunk) \ job.pick)) = ToSet(chunk) \cap (ToSet(chunk) \ job.pick)
      /\ IsInjective(Only(chunk, ToSet(chunk) \ job.pick))
      BY <1>2, OnlyKeeps
<1>6. TrainRows \in Seq(Rows) BY <1>3, <1>4, <1>5, WiderSeq
<1>7. ToSet(TrainRows) = ToSet(chunk) \ job.pick BY <1>4, <1>5
<1>8. ToSet(chunk) \subseteq R BY <1>1 DEF chunk
<1> QED BY <1>1, <1>3, <1>4, <1>5, <1>6, <1>7, <1>8 DEF chunk, R

LEMMA TestRowsAre ==
    ASSUME IInv, pc = "append_test"
    PROVE  /\ TestRows \in Seq(Rows) /\ IsInjective(TestRows)
           /\ ToSet(TestRows) = job.pick
           /\ \A r \in ToSet(TestRows) : r[1] = job.source
           /\ ToSet(TestRows) \cap RowsOf(train) = {} /\ ToSet(TestRows) \cap RowsOf(test) = {}
           /\ ToSet(TestRows) \subseteq CleanRows[job.source]
<1> DEFINE chunk == Head(job.chunks)
           R == CleanRows[job.source]
<1>1. /\ job.source \in DOMAIN Prepared /\ job.chunks \in Seq(Seq(R)) /\ Spread(job.chunks)
      /\ job.chunks # <<>> /\ job.pick \subseteq ToSet(chunk)
      /\ RowsOf(train) \cup RowsOf(test) \cup job.pick \cup Remaining(Tail(job.chunks)) = R
      /\ (RowsOf(train) \cup RowsOf(test)) \cap (job.pick \cup Remaining(Tail(job.chunks))) = {}
      BY DEF IInv, Parted, Dealing, InHand, Left
<1>2. chunk \in Seq(R) /\ IsInjective(chunk) BY <1>1, HeadAndTail
<1>3. R \subseteq Rows /\ \A r \in R : r[1] = job.source BY <1>1, RowsAre
<1> HIDE DEF R, chunk
<1>4. TestRows = Only(chunk, job.pick) BY DEF TestRows, chunk
<1>5. /\ Only(chunk, job.pick) \in Seq(R)
      /\ ToSet(Only(chunk, job.pick)) = ToSet(chunk) \cap job.pick
      /\ IsInjective(Only(chunk, job.pick))
      BY <1>2, OnlyKeeps
<1>6. TestRows \in Seq(Rows) BY <1>3, <1>4, <1>5, WiderSeq
<1>7. ToSet(TestRows) = job.pick BY <1>1, <1>4, <1>5
<1>8. job.pick \subseteq R BY <1>1
<1> QED BY <1>1, <1>3, <1>4, <1>5, <1>6, <1>7, <1>8 DEF chunk, R

\* What the write of a chunk to a part does, and what it leaves if it is cut off.
Grown(file, header, rows) == Append2(file, Appended(rows, header))
LEMMA TrainGrows ==
    ASSUME IInv, pc = "append_train"
    PROVE  /\ Sound(Grown(train, job.train_header, TrainRows), job.source)
           /\ RowsOf(Grown(train, job.train_header, TrainRows)) = RowsOf(train) \cup ToSet(TrainRows)
           /\ \A part \in CutOff(train, Appended(TrainRows, job.train_header)) : Sound(part, job.source)
<1>1. job.train_header \in BOOLEAN BY DEF IInv, Shape, Job
<1>2. Growing(train, job.train_header, job.source)
      BY DEF IInv, Parted, Dealing, OpenPart, Growing
<1>3. NewRows(TrainRows, train, job.source) BY TrainRowsAre DEF NewRows
<1> QED BY <1>1, <1>2, <1>3, AppendedSound DEF Grown

LEMMA TestGrows ==
    ASSUME IInv, pc = "append_test"
    PROVE  /\ Sound(Grown(test, job.test_header, TestRows), job.source)
           /\ RowsOf(Grown(test, job.test_header, TestRows)) = RowsOf(test) \cup ToSet(TestRows)
           /\ \A part \in CutOff(test, Appended(TestRows, job.test_header)) : Sound(part, job.source)
<1>1. job.test_header \in BOOLEAN BY DEF IInv, Shape, Job
<1>2. Growing(test, job.test_header, job.source)
      BY DEF IInv, Parted, Dealing, OpenPart, Growing
<1>3. NewRows(TestRows, test, job.source) BY TestRowsAre DEF NewRows
<1> QED BY <1>1, <1>2, <1>3, AppendedSound DEF Grown

LEMMA AppendTrainInv ==
    ASSUME IInv, AppendTrain
    PROVE  IInv'
<1> DEFINE R == CleanRows[job.source]
<1>1. /\ pc = "append_train" /\ pc' = "append_test" /\ UNCHANGED <<test, split_meta, seen, tested, runs>>
      BY DEF AppendTrain, Goto, counters
<1>2. /\ job \in Job /\ job.source \in DOMAIN Prepared /\ Counted /\ ~IsMeta(split_meta)
      /\ job.chunks \in Seq(Seq(R)) /\ Spread(job.chunks) /\ job.chunks # <<>>
      /\ job.pick \subseteq ToSet(Head(job.chunks))
      /\ RowsOf(train) \cup RowsOf(test) \cup ToSet(Head(job.chunks)) \cup Remaining(Tail(job.chunks)) = R
      /\ RowsOf(train) \cap RowsOf(test) = {}
      /\ (RowsOf(train) \cup RowsOf(test)) \cap (ToSet(Head(job.chunks)) \cup Remaining(Tail(job.chunks))) = {}
      /\ OpenPart(train, job.train_header) /\ OpenPart(test, job.test_header)
      /\ FileOK(train) /\ FileOK(test)
      BY <1>1 DEF IInv, Shape, Parted, Dealing, Left, InHand
<1>3. ToSet(Head(job.chunks)) \cap Remaining(Tail(job.chunks)) = {} BY <1>2, HeadAndTail
<1>4. /\ job' \in Job /\ job'.source = job.source /\ job'.size = job.size /\ job'.chunks = job.chunks
      /\ job'.pick = job.pick /\ job'.totals = job.totals /\ job'.targets = job.targets
      /\ job'.test_header = job.test_header
  <2>1. job' = job \/ job' = [job EXCEPT !.train_header = FALSE] BY DEF AppendTrain
  <2> QED BY <1>2, <2>1 DEF Job
<1>5. /\ RowsOf(train') = RowsOf(train) \cup (ToSet(Head(job.chunks)) \ job.pick)
      /\ OpenPart(train', job'.train_header) /\ FileOK(train')
  <2>1. CASE TrainRows = <<>>
    <3>1. train' = train /\ job' = job BY <2>1 DEF AppendTrain
    <3>2. ToSet(Head(job.chunks)) \ job.pick = {} BY <1>1, <2>1, TrainRowsAre, JustHeader
    <3>3. OpenPart(train', job'.train_header) BY <1>2, <3>1 DEF OpenPart
    <3> QED BY <1>2, <3>1, <3>2, <3>3
  <2>2. CASE TrainRows # <<>>
    <3>1. train' = Grown(train, job.train_header, TrainRows) /\ job' = [job EXCEPT !.train_header = FALSE]
          BY <2>2 DEF AppendTrain, Grown
    <3>2. Sound(train', job.source) /\ RowsOf(train') = RowsOf(train) \cup ToSet(TrainRows)
          BY <1>1, <3>1, TrainGrows
    <3>3. ToSet(TrainRows) = ToSet(Head(job.chunks)) \ job.pick /\ ToSet(TrainRows) # {}
          BY <1>1, <2>2, TrainRowsAre, SomeRow
    <3>4. job'.train_header = FALSE BY <1>2, <3>1 DEF Job
    <3>5. RowsOf(train') # {} BY <3>2, <3>3
    <3>6. OpenPart(train', job'.train_header) BY <1>4, <3>2, <3>4, <3>5 DEF OpenPart
    <3>7. FileOK(train') BY <1>2, <3>2 DEF FileOK, AllSources
    <3> QED BY <3>2, <3>3, <3>6, <3>7
  <2> QED BY <2>1, <2>2
<1>6. Shape' BY <1>1, <1>2, <1>4, <1>5 DEF IInv, Shape, Steps
<1>7. Begun' /\ Preparing' BY <1>1 DEF Begun, Preparing
<1> HIDE DEF R
<1>8. Left' = Remaining(Tail(job.chunks)) /\ InHand' = job.pick BY <1>1, <1>4 DEF Left, InHand
<1>9. Parted'
  <2>1. /\ RowsOf(train') \cup RowsOf(test) \cup InHand' \cup Left' = R
        /\ RowsOf(train') \cap RowsOf(test) = {}
        /\ (RowsOf(train') \cup RowsOf(test)) \cap (InHand' \cup Left') = {}
        BY <1>2, <1>3, <1>5, <1>8
  <2>2. Counted' BY <1>2, <1>4 DEF Counted
  <2>3. OpenPart(test, job.test_header)' BY <1>1, <1>2, <1>4 DEF OpenPart
  <2>4. ~IsMeta(split_meta)' BY <1>1, <1>2 DEF IsMeta
  <2>5. CleanRows[job'.source] = R BY <1>4 DEF R
  <2>6. job'.source \in DOMAIN Prepared /\ job'.chunks \in Seq(Seq(R)) /\ Spread(job'.chunks)
        BY <1>2, <1>4 DEF R
  <2>7. IF pc' = "choose" THEN job'.pick = {}
        ELSE job'.chunks # <<>> /\ job'.pick \subseteq ToSet(Head(job'.chunks))
        BY <1>1, <1>2, <1>4
  <2>8. OpenPart(train, job.train_header)' BY <1>4, <1>5 DEF OpenPart
  <2> QED BY <1>1, <2>1, <2>2, <2>3, <2>4, <2>5, <2>6, <2>7, <2>8 DEF Parted
<1>10. CountersTrue'
  <2>1. Left' = Left BY <1>1, <1>8 DEF Left
  <2> QED BY <1>1, <1>4, <2>1 DEF IInv, CountersTrue, Dealing
<1>11. MetaTrue' /\ SplitMetaCurrent' BY <1>1, <1>2 DEF MetaTrue, SplitMetaCurrent, IsMeta
<1> QED BY <1>6, <1>7, <1>9, <1>10, <1>11 DEF IInv

LEMMA AppendTestInv ==
    ASSUME IInv, AppendTest
    PROVE  IInv'
<1> DEFINE R == CleanRows[job.source]
<1>1. /\ pc = "append_test" /\ pc' = "choose" /\ UNCHANGED <<train, split_meta, seen, tested, runs>>
      BY DEF AppendTest, Goto, counters
<1>2. /\ job \in Job /\ job.source \in DOMAIN Prepared /\ Counted /\ ~IsMeta(split_meta)
      /\ job.chunks \in Seq(Seq(R)) /\ Spread(job.chunks) /\ job.chunks # <<>>
      /\ job.pick \subseteq ToSet(Head(job.chunks))
      /\ RowsOf(train) \cup RowsOf(test) \cup job.pick \cup Remaining(Tail(job.chunks)) = R
      /\ RowsOf(train) \cap RowsOf(test) = {}
      /\ (RowsOf(train) \cup RowsOf(test)) \cap (job.pick \cup Remaining(Tail(job.chunks))) = {}
      /\ OpenPart(train, job.train_header) /\ OpenPart(test, job.test_header)
      /\ FileOK(train) /\ FileOK(test)
      BY <1>1 DEF IInv, Shape, Parted, Dealing, Left, InHand
<1>3. /\ ToSet(Head(job.chunks)) \cap Remaining(Tail(job.chunks)) = {}
      /\ Tail(job.chunks) \in Seq(Seq(R)) /\ Spread(Tail(job.chunks))
      BY <1>2, HeadAndTail
<1>4. /\ job' \in Job /\ job'.source = job.source /\ job'.size = job.size /\ job'.chunks = Tail(job.chunks)
      /\ job'.pick = {} /\ job'.totals = job.totals /\ job'.targets = job.targets
      /\ job'.train_header = job.train_header
  <2>1. \/ job' = [job EXCEPT !.chunks = Tail(@), !.pick = {}]
        \/ job' = [job EXCEPT !.chunks = Tail(@), !.pick = {}, !.test_header = FALSE]
        BY DEF AppendTest
  <2>2. Tail(job.chunks) \in Seq(Seq(Rows))
    <3>1. job.chunks \in Seq(Seq(Rows)) BY <1>2 DEF Job
    <3> QED BY <1>2, <3>1, HeadTailProperties
  <2> QED BY <1>2, <2>1, <2>2 DEF Job
<1>5. /\ RowsOf(test') = RowsOf(test) \cup job.pick
      /\ OpenPart(test', job'.test_header) /\ FileOK(test')
  <2>1. CASE TestRows = <<>>
    <3>1. test' = test /\ job' = [job EXCEPT !.chunks = Tail(@), !.pick = {}] BY <2>1 DEF AppendTest
    <3>2. job.pick = {} BY <1>1, <2>1, TestRowsAre, JustHeader
    <3>3. job'.test_header = job.test_header BY <1>2, <3>1 DEF Job
    <3>4. OpenPart(test', job'.test_header) BY <1>2, <1>4, <3>1, <3>3 DEF OpenPart
    <3> QED BY <1>2, <3>1, <3>2, <3>4
  <2>2. CASE TestRows # <<>>
    <3>1. /\ test' = Grown(test, job.test_header, TestRows)
          /\ job' = [job EXCEPT !.chunks = Tail(@), !.pick = {}, !.test_header = FALSE]
          BY <2>2 DEF AppendTest, Grown
    <3>2. Sound(test', job.source) /\ RowsOf(test') = RowsOf(test) \cup ToSet(TestRows)
          BY <1>1, <3>1, TestGrows
    <3>3. ToSet(TestRows) = job.pick /\ ToSet(TestRows) # {} BY <1>1, <2>2, TestRowsAre, SomeRow
    <3>4. job'.test_header = FALSE BY <1>2, <3>1 DEF Job
    <3>5. RowsOf(test') # {} BY <3>2, <3>3
    <3>6. OpenPart(test', job'.test_header) BY <1>4, <3>2, <3>4, <3>5 DEF OpenPart
    <3>7. FileOK(test') BY <1>2, <3>2 DEF FileOK, AllSources
    <3> QED BY <3>2, <3>3, <3>6, <3>7
  <2> QED BY <2>1, <2>2
<1>6. Shape' BY <1>1, <1>2, <1>4, <1>5 DEF IInv, Shape, Steps
<1>7. Begun' /\ Preparing' BY <1>1 DEF Begun, Preparing
<1> HIDE DEF R
<1>8. Left' = Remaining(Tail(job.chunks)) /\ InHand' = {} BY <1>1, <1>4 DEF Left, InHand
<1>9. Parted'
  <2>1. /\ RowsOf(train) \cup RowsOf(test') \cup InHand' \cup Left' = R
        /\ RowsOf(train) \cap RowsOf(test') = {}
        /\ (RowsOf(train) \cup RowsOf(test')) \cap (InHand' \cup Left') = {}
    <3>1. job.pick \cap Remaining(Tail(job.chunks)) = {} BY <1>2, <1>3
    <3> QED BY <1>2, <1>5, <1>8, <3>1
  <2>2. Counted' BY <1>2, <1>4 DEF Counted
  <2>3. OpenPart(train, job.train_header)' BY <1>1, <1>2, <1>4 DEF OpenPart
  <2>4. ~IsMeta(split_meta)' BY <1>1, <1>2 DEF IsMeta
  <2>5. CleanRows[job'.source] = R BY <1>4 DEF R
  <2>6. job'.source \in DOMAIN Prepared /\ job'.chunks \in Seq(Seq(R)) /\ Spread(job'.chunks)
        BY <1>2, <1>3, <1>4 DEF R
  <2>7. IF pc' = "choose" THEN job'.pick = {}
        ELSE job'.chunks # <<>> /\ job'.pick \subseteq ToSet(Head(job'.chunks))
        BY <1>1, <1>2, <1>4
  <2>8. OpenPart(test, job.test_header)' BY <1>4, <1>5 DEF OpenPart
  <2> QED BY <1>1, <2>1, <2>2, <2>3, <2>4, <2>5, <2>6, <2>7, <2>8 DEF Parted
<1>10. CountersTrue'
  <2>1. Left' = Left BY <1>1, <1>8 DEF Left
  <2>2. RowsOf(test') \cup job'.pick = RowsOf(test) \cup job.pick BY <1>4, <1>5
  <2> QED BY <1>1, <1>4, <2>1, <2>2 DEF IInv, CountersTrue, Dealing
<1>11. MetaTrue' /\ SplitMetaCurrent' BY <1>1, <1>2 DEF MetaTrue, SplitMetaCurrent, IsMeta
<1> QED BY <1>6, <1>7, <1>9, <1>10, <1>11 DEF IInv

\* What a run that has dealt out every row leaves: the two parts of its source, on the targets.
LEMMA AllPlaced ==
    ASSUME IInv, pc = "choose", job.chunks = <<>>
    PROVE  LET R == CleanRows[job.source]
           IN  /\ job.source \in DOMAIN Prepared /\ job.size \in TestSizes
               /\ RowsOf(train) \cup RowsOf(test) = R /\ RowsOf(train) \cap RowsOf(test) = {}
               /\ \A l \in Labels : CountOf(RowsOf(test), l) = TestTargets[job.source][job.size][l]
               /\ train # NoFile => Sound(train, job.source) /\ RowsOf(train) # {}
               /\ test # NoFile => Sound(test, job.source) /\ RowsOf(test) # {}
<1> DEFINE R == CleanRows[job.source]
<1>1. /\ job \in Job /\ job.source \in DOMAIN Prepared /\ Counted /\ job.pick = {}
      /\ RowsOf(train) \cup RowsOf(test) \cup Remaining(<<>>) = R
      /\ RowsOf(train) \cap RowsOf(test) = {}
      /\ OpenPart(train, job.train_header) /\ OpenPart(test, job.test_header)
      BY DEF IInv, Shape, Parted, Dealing, Left, InHand
<1>2. Remaining(<<>>) = {} BY NoChunks
<1>3. job.size \in TestSizes BY <1>1 DEF Job
<1>4. ASSUME NEW l \in Labels PROVE CountOf(RowsOf(test), l) = TestTargets[job.source][job.size][l]
  <2>1. RowsOf(test) \cup job.pick = RowsOf(test) /\ R \ Left = R BY <1>1, <1>2 DEF Left
  <2>2. /\ seen[l] = CountOf(R, l) /\ tested[l] = CountOf(RowsOf(test), l)
        /\ tested[l] <= job.targets[l] /\ job.targets[l] - tested[l] <= job.totals[l] - seen[l]
        BY <2>1 DEF IInv, CountersTrue, Dealing
  <2>3. job.totals[l] = CountOf(R, l) /\ job.targets[l] = TestTargets[job.source][job.size][l]
        BY <1>1 DEF Counted
  <2>4. tested[l] \in Nat /\ seen[l] \in Nat /\ job.targets[l] \in Nat /\ job.totals[l] \in Nat
        BY <1>1 DEF IInv, Shape, Job
  <2>5. job.totals[l] = seen[l] BY <2>2, <2>3
  <2>6. tested[l] = job.targets[l] BY <2>2, <2>4, <2>5
  <2> QED BY <2>2, <2>3, <2>6
<1>5. /\ train # NoFile => Sound(train, job.source) /\ RowsOf(train) # {}
      /\ test # NoFile => Sound(test, job.source) /\ RowsOf(test) # {}
      BY <1>1 DEF OpenPart
<1> QED BY <1>1, <1>2, <1>3, <1>4, <1>5

LEMMA WriteMetadataInv ==
    ASSUME IInv, WriteMetadata
    PROVE  IInv'
<1>1. /\ pc = "choose" /\ pc' = "idle" /\ job.chunks = <<>>
      /\ UNCHANGED <<train, test, job, seen, tested, runs>>
      /\ split_meta' = IF NoFile \in {train, test} THEN NoFile
                       ELSE [source |-> job.source, size |-> job.size, train |-> train, test |-> test]
      BY DEF WriteMetadata, Goto, counters
<1>2. Shape' BY <1>1 DEF IInv, Shape, Steps
<1>3. Begun' /\ Preparing' BY <1>1 DEF Begun, Preparing
<1>4. CASE NoFile \in {train, test}
  <2>1. MetaTrue' /\ SplitMetaCurrent' BY <1>1, <1>4 DEF MetaTrue, SplitMetaCurrent, IsMeta
  <2> QED BY <1>1, <1>2, <1>3, <2>1, AsideStays DEF IInv, Aside
<1>5. CASE NoFile \notin {train, test}
  <2>1. split_meta'.source = job.source /\ split_meta'.size = job.size
        /\ split_meta'.train = train /\ split_meta'.test = test
        BY <1>1, <1>5
  <2>2. MetaTrue' BY <1>1, <1>5, <2>1, AllPlaced DEF MetaTrue
  <2>3. SplitMetaCurrent' BY <1>1, <2>1 DEF SplitMetaCurrent
  <2> QED BY <1>1, <1>2, <1>3, <2>2, <2>3, AsideStays DEF IInv, Aside
<1> QED BY <1>4, <1>5

LEMMA StartPrepareInv ==
    ASSUME IInv, NEW raw \in DOMAIN Raw, NEW size \in TestSizes, NEW force \in BOOLEAN,
           StartPrepare(raw, size, force)
    PROVE  IInv'
<1>1. /\ pc' = "prep_cleaned" /\ runs < MaxRuns /\ runs' = runs + 1 /\ UNCHANGED <<files, counters>>
      BY DEF StartPrepare, Goto
<1>2. PICK part \in TestParts(PreparedTable(raw), size) :
        job' = [Idle EXCEPT !.source = raw, !.size = size, !.pick = part]
      BY DEF StartPrepare
<1>3. part \subseteq PreparedTable(raw) BY DEF TestParts
<1>4. part \in SUBSET Rows BY <1>3, RowsAre
<1>5. job' \in Job /\ job'.source = raw /\ job'.pick = part
      BY <1>2, <1>4, IdleIs DEF Idle, Job, AllSources
<1>6. Shape'
  <2>1. runs' \in 0..MaxRuns BY <1>1, SizesAssumption DEF IInv, Shape
  <2> QED BY <1>1, <1>5, <2>1 DEF IInv, Shape, Steps, files, counters
<1>7. Begun' /\ Preparing' BY <1>1, <1>3, <1>5 DEF Begun, Preparing
<1> QED BY <1>1, <1>6, <1>7, AsideStays, FilesStay DEF IInv, Aside

\* The three csv files of prepare_dataset.
LEMMA PreparedFiles ==
    ASSUME IInv, pc \in {"prep_cleaned", "prep_train", "prep_test", "prep_meta"},
           NEW rows \in SUBSET PreparedTable(job.source)
    PROVE  FileOK(CsvOf(rows)) /\ Sources(CsvOf(rows)) \subseteq DOMAIN Raw
<1>1. job.source \in DOMAIN Raw BY DEF IInv, Preparing
<1>2. rows \subseteq Rows /\ \A r \in rows : r[1] = job.source BY <1>1, RowsAre
<1>3. IsFiniteSet(rows) BY <1>1, TableFinite, FS_Subset
<1>4. Sound(CsvOf(rows), job.source) BY <1>2, <1>3, CsvSound
<1>5. Sources(CsvOf(rows)) \subseteq {job.source} BY <1>4, SoundFile
<1> QED BY <1>1, <1>4, <1>5 DEF FileOK, AllSources

LEMMA WriteCleanedInv ==
    ASSUME IInv, WriteCleaned
    PROVE  IInv'
<1>1. /\ pc = "prep_cleaned" /\ pc' = "prep_train"
      /\ UNCHANGED <<train, test, split_meta, job, seen, tested, runs>>
      BY DEF WriteCleaned, Goto, counters
<1>2. Shape' BY <1>1 DEF IInv, Shape, Steps
<1>3. Begun' /\ Preparing' BY <1>1 DEF IInv, Begun, Preparing
<1>4. MetaTrue' /\ SplitMetaCurrent' BY <1>1 DEF IInv, MetaTrue, SplitMetaCurrent, IsMeta
<1> QED BY <1>1, <1>2, <1>3, <1>4, AsideStays DEF IInv, Aside

LEMMA WriteTrainInv ==
    ASSUME IInv, WriteTrain
    PROVE  IInv'
<1>1. /\ pc = "prep_train" /\ pc' = "prep_test" /\ train' = CsvOf(PreparedTable(job.source) \ job.pick)
      /\ UNCHANGED <<test, split_meta, job, seen, tested, runs>>
      BY DEF WriteTrain, Goto, counters
<1>2. FileOK(train') /\ Sources(train') \subseteq DOMAIN Raw
  <2>1. PreparedTable(job.source) \ job.pick \in SUBSET PreparedTable(job.source) OBVIOUS
  <2> QED BY <1>1, <2>1, PreparedFiles
<1>3. Shape' BY <1>1, <1>2 DEF IInv, Shape, Steps
<1>4. Begun' /\ Preparing' BY <1>1 DEF IInv, Begun, Preparing
<1>5. MetaTrue' BY <1>1 DEF IInv, MetaTrue, IsMeta
<1>6. SplitMetaCurrent' BY <1>1, <1>2 DEF IInv, SplitMetaCurrent, IsMeta
<1> QED BY <1>1, <1>3, <1>4, <1>5, <1>6, AsideStays DEF IInv, Aside

LEMMA WriteTestInv ==
    ASSUME IInv, WriteTest
    PROVE  IInv'
<1>1. /\ pc = "prep_test" /\ pc' = "prep_meta" /\ test' = CsvOf(job.pick)
      /\ UNCHANGED <<train, split_meta, job, seen, tested, runs>>
      BY DEF WriteTest, Goto, counters
<1>2. FileOK(test') /\ Sources(test') \subseteq DOMAIN Raw
  <2>1. job.pick \in SUBSET PreparedTable(job.source) BY <1>1 DEF IInv, Preparing
  <2> QED BY <1>1, <2>1, PreparedFiles
<1>3. Shape' BY <1>1, <1>2 DEF IInv, Shape, Steps
<1>4. Begun' /\ Preparing' BY <1>1 DEF IInv, Begun, Preparing
<1>5. MetaTrue' BY <1>1 DEF IInv, MetaTrue, IsMeta
<1>6. SplitMetaCurrent' BY <1>1, <1>2 DEF IInv, SplitMetaCurrent, IsMeta
<1> QED BY <1>1, <1>3, <1>4, <1>5, <1>6, AsideStays DEF IInv, Aside

LEMMA WritePrepMetaInv ==
    ASSUME IInv, WritePrepMeta
    PROVE  IInv'
<1>1. /\ pc = "prep_meta" /\ pc' = "idle"
      /\ UNCHANGED <<train, test, split_meta, job, seen, tested, runs>>
      BY DEF WritePrepMeta, Goto, counters
<1>2. Shape' BY <1>1 DEF IInv, Shape, Steps
<1>3. Begun' /\ Preparing' BY <1>1 DEF IInv, Begun, Preparing
<1>4. MetaTrue' /\ SplitMetaCurrent' BY <1>1 DEF IInv, MetaTrue, SplitMetaCurrent, IsMeta
<1> QED BY <1>1, <1>2, <1>3, <1>4, AsideStays DEF IInv, Aside

\* What an interrupted step leaves of the two parts and of the split's metadata.
LEMMA InterruptLeaves ==
    ASSUME IInv, Interrupt
    PROVE  /\ train' = train \/ (pc = "append_train" /\ Sound(train', job.source))
                \/ (pc = "prep_train" /\ FileOK(train') /\ Sources(train') = {})
           /\ test' = test \/ (pc = "append_test" /\ Sound(test', job.source))
                \/ (pc = "prep_test" /\ FileOK(test') /\ Sources(test') = {})
           /\ split_meta' \in {split_meta, Torn} /\ (split_meta' # split_meta => Dealing)
<1>1. ASSUME NEW file \in CutOff(NoFile, <<Header>>)
      PROVE  FileOK(file) /\ Sources(file) = {}
  <2>1. Idle.source \in AllSources BY IdleIs DEF AllSources
  <2> QED BY <2>1, HeaderOnly DEF FileOK
<1>2. train' = train \/ (pc = "append_train" /\ Sound(train', job.source))
         \/ (pc = "prep_train" /\ FileOK(train') /\ Sources(train') = {})
  <2>1. CASE pc = "append_train" /\ TrainRows # <<>>
    <3>1. train' \in {train} \cup CutOff(train, Appended(TrainRows, job.train_header))
          BY <2>1 DEF Interrupt
    <3> QED BY <2>1, <3>1, TrainGrows
  <2>2. CASE pc = "prep_train"
    <3>1. train' \in {train} \cup CutOff(NoFile, <<Header>>) BY <2>2 DEF Interrupt
    <3> QED BY <1>1, <2>2, <3>1
  <2>3. CASE ~(pc = "append_train" /\ TrainRows # <<>>) /\ pc # "prep_train"
    <3>1. train' \in {train} BY <2>3 DEF Interrupt
    <3> QED BY <3>1
  <2> QED BY <2>1, <2>2, <2>3
<1>3. test' = test \/ (pc = "append_test" /\ Sound(test', job.source))
         \/ (pc = "prep_test" /\ FileOK(test') /\ Sources(test') = {})
  <2>1. CASE pc = "append_test" /\ TestRows # <<>>
    <3>1. test' \in {test} \cup CutOff(test, Appended(TestRows, job.test_header))
          BY <2>1 DEF Interrupt
    <3> QED BY <2>1, <3>1, TestGrows
  <2>2. CASE pc = "prep_test"
    <3>1. test' \in {test} \cup CutOff(NoFile, <<Header>>) BY <2>2 DEF Interrupt
    <3> QED BY <1>1, <2>2, <3>1
  <2>3. CASE ~(pc = "append_test" /\ TestRows # <<>>) /\ pc # "prep_test"
    <3>1. test' \in {test} BY <2>3 DEF Interrupt
    <3> QED BY <3>1
  <2> QED BY <2>1, <2>2, <2>3
<1>4. split_meta' \in {split_meta, Torn} /\ (split_meta' # split_meta => Dealing)
      BY DEF Interrupt, Dealing
<1> QED BY <1>2, <1>3, <1>4

LEMMA InterruptInv ==
    ASSUME IInv, Interrupt
    PROVE  IInv'
<1>1. pc' = "idle" /\ UNCHANGED <<job, seen, tested, runs>> BY DEF Interrupt, counters
<1>2. pc \in {"append_train", "append_test"} => ~IsMeta(split_meta) /\ job.source \in AllSources
      BY DEF IInv, Parted, Dealing, AllSources
<1>3. FileOK(train') /\ FileOK(test') BY <1>2, InterruptLeaves DEF IInv, Shape, FileOK
<1>4. Shape' BY <1>1, <1>3 DEF IInv, Shape, Steps
<1>5. Begun' /\ Preparing' BY <1>1 DEF Begun, Preparing
<1>6. CASE split_meta' = split_meta
  <2>1. MetaTrue' BY <1>6 DEF IInv, MetaTrue, IsMeta
  <2>2. SplitMetaCurrent'
    <3> SUFFICES ASSUME IsMeta(split_meta)
                 PROVE  /\ train' \in {NoFile, split_meta.train} \/ Sources(train') \subseteq DOMAIN Raw
                        /\ test' \in {NoFile, split_meta.test} \/ Sources(test') \subseteq DOMAIN Raw
        BY <1>6 DEF SplitMetaCurrent, IsMeta
    <3>1. train' = train \/ Sources(train') = {} BY <1>2, InterruptLeaves
    <3>2. test' = test \/ Sources(test') = {} BY <1>2, InterruptLeaves
    <3>3. /\ train \in {NoFile, split_meta.train} \/ Sources(train) \subseteq DOMAIN Raw
          /\ test \in {NoFile, split_meta.test} \/ Sources(test) \subseteq DOMAIN Raw
          BY DEF IInv, SplitMetaCurrent
    <3> QED BY <3>1, <3>2, <3>3
  <2> QED BY <1>1, <1>4, <1>5, <2>1, <2>2, AsideStays DEF IInv, Aside
<1>7. CASE split_meta' # split_meta
  <2>1. MetaTrue' /\ SplitMetaCurrent' BY <1>7, InterruptLeaves DEF MetaTrue, SplitMetaCurrent, IsMeta
  <2> QED BY <1>1, <1>4, <1>5, <2>1, AsideStays DEF IInv, Aside
<1> QED BY <1>6, <1>7

LEMMA StutterInv ==
    ASSUME IInv, UNCHANGED vars
    PROVE  IInv'
<1>1. UNCHANGED <<train, test, split_meta, pc, job, seen, tested, runs>> BY DEF vars, files, counters
<1>2. Shape' BY <1>1 DEF IInv, Shape
<1>3. Begun' BY <1>1 DEF IInv, Begun, Counted
<1>4. Parted' BY <1>1 DEF IInv, Parted, Dealing, Counted, InHand, Left, OpenPart, IsMeta
<1>5. CountersTrue' BY <1>1 DEF IInv, CountersTrue, Dealing, Left
<1>6. Preparing' BY <1>1 DEF IInv, Preparing
<1>7. MetaTrue' /\ SplitMetaCurrent' BY <1>1 DEF IInv, MetaTrue, SplitMetaCurrent, IsMeta
<1> QED BY <1>2, <1>3, <1>4, <1>5, <1>6, <1>7 DEF IInv

LEMMA StepInv == IInv /\ [Next]_vars => IInv'
<1> SUFFICES ASSUME IInv, [Next]_vars PROVE IInv' OBVIOUS
<1>1. CASE Split
  <2>1. ASSUME NEW s \in DOMAIN Prepared, NEW size \in TestSizes, NEW c \in ChunkSizes, NEW force \in BOOLEAN,
               StartSplit(s, size, c, force)
        PROVE  IInv'
        BY <2>1, StartSplitInv
  <2>2. CASE CountLabels BY <2>2, CountLabelsInv
  <2>3. CASE UnlinkTrain BY <2>3, UnlinkTrainInv
  <2>4. CASE UnlinkTest BY <2>4, UnlinkTestInv
  <2>5. CASE UnlinkMeta BY <2>5, UnlinkMetaInv
  <2>6. CASE ChooseRows BY <2>6, ChooseRowsInv
  <2>7. CASE AppendTrain BY <2>7, AppendTrainInv
  <2>8. CASE AppendTest BY <2>8, AppendTestInv
  <2>9. CASE WriteMetadata BY <2>9, WriteMetadataInv
  <2> QED BY <1>1, <2>1, <2>2, <2>3, <2>4, <2>5, <2>6, <2>7, <2>8, <2>9 DEF Split
<1>2. CASE Prepare
  <2>1. ASSUME NEW raw \in DOMAIN Raw, NEW size \in TestSizes, NEW force \in BOOLEAN,
               StartPrepare(raw, size, force)
        PROVE  IInv'
        BY <2>1, StartPrepareInv
  <2>2. CASE WriteCleaned BY <2>2, WriteCleanedInv
  <2>3. CASE WriteTrain BY <2>3, WriteTrainInv
  <2>4. CASE WriteTest BY <2>4, WriteTestInv
  <2>5. CASE WritePrepMeta BY <2>5, WritePrepMetaInv
  <2> QED BY <1>2, <2>1, <2>2, <2>3, <2>4, <2>5 DEF Prepare
<1>3. CASE Interrupt BY <1>3, InterruptInv
<1>4. CASE UNCHANGED vars BY <1>4, StutterInv
<1> QED BY <1>1, <1>2, <1>3, <1>4 DEF Next

LEMMA Invariance == Spec => []IInv BY InitInv, StepInv, PTL DEF Spec

-----------------------------------------------------------------------------
(* What the files promise                                                  *)

\* Each tool runs its steps in order, and the counters of the sampling stay within the totals of
\* the first pass and the targets of _compute_test_targets, whatever the data.
THEOREM SplitTypes == Spec => []TypeOK
<1>1. IInv => TypeOK
  <2> SUFFICES ASSUME IInv PROVE TypeOK OBVIOUS
  <2>1. pc \in Steps /\ runs \in 0..MaxRuns BY DEF IInv, Shape
  <2>2. \A l \in Labels : tested[l] \in 0..seen[l] /\ seen[l] \in Nat
    <3> SUFFICES ASSUME NEW l \in Labels PROVE tested[l] \in 0..seen[l] /\ seen[l] \in Nat OBVIOUS
    <3>1. tested[l] \in Nat /\ seen[l] \in Nat /\ tested[l] <= seen[l] BY DEF IInv, Shape
    <3> QED BY <3>1
  <2>3. ASSUME Dealing, NEW l \in Labels PROVE tested[l] <= job.targets[l] /\ seen[l] <= job.totals[l]
    <3> DEFINE R == CleanRows[job.source]
    <3>1. job.source \in DOMAIN Prepared /\ Counted BY <2>3 DEF IInv, Parted
    <3>2. seen[l] = CountOf(R \ Left, l) /\ tested[l] <= job.targets[l] BY <2>3 DEF IInv, CountersTrue
    <3>3. job.totals[l] = CountOf(R, l) BY <3>1 DEF Counted
    <3>4. IsFiniteSet(R) /\ R \ Left \subseteq R BY <3>1, CleanRowsFinite
    <3> HIDE DEF R
    <3>5. CountOf(R \ Left, l) <= CountOf(R, l) BY <3>4, CountIs
    <3> QED BY <3>2, <3>3, <3>5
  <2> QED BY <2>1, <2>2, <2>3 DEF TypeOK, Steps, Dealing
<1> QED BY <1>1, Invariance, PTL

\* split_prepared_dataset and prepare_dataset share the names of the parts: however runs of
\* both are cut off and repeated, the metadata that can be read describes the parts of its run or
\* none of them, and no file mixes sources, repeats a row or has a second header.
THEOREM SplitFilesSound == Spec => []FilesSound
<1>1. IInv => FilesSound
  <2> SUFFICES ASSUME IInv PROVE FilesSound OBVIOUS
  <2>1. SplitMetaCurrent BY DEF IInv
  <2>2. ASSUME NEW file \in {train, test} \ {NoFile}
        PROVE  Cardinality(Sources(file)) <= 1 /\ IsInjective(file) /\ (file # <<>> => file[1] = Header)
    <3>1. PICK src \in AllSources : Sound(file, src) BY <2>2 DEF IInv, Shape, FileOK
    <3>2. Sources(file) \subseteq {src} BY <3>1, SoundFile
    <3>3. IsFiniteSet({src}) /\ Cardinality({src}) = 1 BY FS_Singleton
    <3>4. Cardinality(Sources(file)) <= 1 BY <3>2, <3>3, FS_Subset
    <3> QED BY <3>1, <3>4 DEF Sound
  <2> QED BY <2>1, <2>2 DEF FilesSound, OneRunPerFile
<1> QED BY <1>1, Invariance, PTL

\* The cap of _compute_test_targets holds to the end: a finished split leaves every label with
\* two rows or more at least one to train on.
THEOREM SplitKeepsLabels == Spec => []TrainKnowsLabels
<1>1. IInv => TrainKnowsLabels
  <2> SUFFICES ASSUME IInv, IsMeta(split_meta), NEW l \in Labels,
                      CountOf(CleanRows[split_meta.source], l) > 1
               PROVE  CountOf(RowsOf(split_meta.train), l) > 0
      BY DEF TrainKnowsLabels
  <2> DEFINE source == split_meta.source
             size == split_meta.size
             tr == RowsOf(split_meta.train)
             te == RowsOf(split_meta.test)
  <2>1. /\ source \in DOMAIN Prepared /\ size \in TestSizes
        /\ Sound(split_meta.train, source) /\ Sound(split_meta.test, source)
        /\ tr \cup te = CleanRows[source] /\ tr \cap te = {}
        /\ CountOf(te, l) = TestTargets[source][size][l]
        BY DEF IInv, MetaTrue
  <2>2. IsFiniteSet(tr) /\ IsFiniteSet(te) BY <2>1, SoundFile
  <2>3. CountOf(CleanRows[source], l) > 1 OBVIOUS
  <2> HIDE DEF source, size, tr, te
  <2>4. CountOf(te, l) < CountOf(CleanRows[source], l) BY <2>1, <2>3, TargetsAre
  <2>5. CountOf(CleanRows[source], l) = CountOf(tr, l) + CountOf(te, l) BY <2>1, <2>2, CountBoth
  <2>6. CountOf(tr, l) \in Nat /\ CountOf(te, l) \in Nat BY <2>2, CountIs
  <2>7. CountOf(tr, l) > 0 BY <2>4, <2>5, <2>6
  <2> QED BY <2>7 DEF tr
<1> QED BY <1>1, Invariance, PTL

-----------------------------------------------------------------------------
(* The split is a stratified split                                         *)

Req == IF SplitStatus = "complete" THEN RequestOf(split_meta.source, split_meta.size)
       ELSE IF job.source \in DOMAIN Prepared THEN RequestOf(job.source, job.size)
       ELSE RequestOf(Idle.source, Idle.size)
TrainPart == IF SplitStatus = "none" THEN {} ELSE RowsOf(train)
TestPart == IF SplitStatus = "none" THEN {} ELSE RowsOf(test)

\* The abstract steps in these terms.
AbstractStep == [Abstract!Next]_(Abstract!vars)

Requested == IInv => Req \in Requests
LEMMA RequestIs == Requested
<1> SUFFICES ASSUME IInv PROVE Req \in Requests BY DEF Requested
<1>1. SplitStatus = "complete" => IsMeta(split_meta) BY DEF SplitStatus, Complete
<1>2. IsMeta(split_meta) => split_meta.source \in DOMAIN Prepared /\ split_meta.size \in TestSizes
      BY DEF IInv, MetaTrue
<1>3. job.size \in TestSizes BY DEF IInv, Shape, Job
<1> QED BY <1>1, <1>2, <1>3, IdleIs DEF Req, Requests

LEMMA SplitLoses ==
    ASSUME IInv', SplitStatus' = "none"
    PROVE  AbstractStep
<1>1. Req' \in Requests
  <2>1. Requested' BY RequestIs, PTL
  <2> QED BY <2>1 DEF Requested
<1>2. Abstract!Lose BY <1>1 DEF Abstract!Lose, Req
<1> QED BY <1>2 DEF AbstractStep, Abstract!Next

\* Steps outside the dealing of rows, which leave a part alone, remove it or put another's there.
Quiet ==
    /\ pc' \notin {"choose", "append_train", "append_test"}
    /\ ~Dealing
    /\ split_meta' = split_meta \/ ~IsMeta(split_meta')
    /\ train' \in {train, NoFile} \/ Sources(train') \subseteq DOMAIN Raw
    /\ test' \in {test, NoFile} \/ Sources(test') \subseteq DOMAIN Raw

\* A file that is neither missing nor of prepare's making is the one of a split.
LEMMA SplitFile ==
    ASSUME NEW src \in DOMAIN Prepared, NEW file, Sound(file, src), RowsOf(file) # {}
    PROVE  file # NoFile /\ ~(Sources(file) \subseteq DOMAIN Raw)
<1>1. file # NoFile /\ Sources(file) \subseteq {src} BY SoundFile
<1>2. Sources(file) # {} BY DEF Sources
<1>3. src \in Sources(file) BY <1>1, <1>2
<1> QED BY <1>1, <1>3, DataAssumption

LEMMA QuietStep ==
    ASSUME IInv, IInv', Quiet
    PROVE  AbstractStep
<1>1. CASE ~Complete'
  <2>1. SplitStatus' = "none" BY <1>1 DEF SplitStatus, Quiet
  <2> QED BY <2>1, SplitLoses
<1>2. CASE Complete'
  <2>1. IsMeta(split_meta') /\ split_meta'.train = train' /\ split_meta'.test = test' BY <1>2 DEF Complete
  <2>2. split_meta' = split_meta /\ IsMeta(split_meta) /\ ~Dealing BY <2>1 DEF Quiet
  <2>3. /\ split_meta.source \in DOMAIN Prepared
        /\ Sound(train', split_meta.source) /\ Sound(test', split_meta.source)
        /\ RowsOf(train') # {} /\ RowsOf(test') # {}
        BY <2>1, <2>2 DEF IInv, MetaTrue
  <2>4. train' = train
    <3>1. train' # NoFile /\ ~(Sources(train') \subseteq DOMAIN Raw) BY <2>3, SplitFile
    <3> QED BY <3>1 DEF Quiet
  <2>5. test' = test
    <3>1. test' # NoFile /\ ~(Sources(test') \subseteq DOMAIN Raw) BY <2>3, SplitFile
    <3> QED BY <3>1 DEF Quiet
  <2>6. Complete BY <2>1, <2>2, <2>4, <2>5 DEF Complete
  <2>7. SplitStatus = "complete" BY <2>2, <2>6 DEF SplitStatus, Dealing
  <2>8. SplitStatus' = "complete" BY <1>2 DEF SplitStatus, Quiet
  <2>9. Req' = Req /\ TrainPart' = TrainPart /\ TestPart' = TestPart
        BY <2>2, <2>4, <2>5, <2>7, <2>8 DEF Req, TrainPart, TestPart
  <2> QED BY <2>7, <2>8, <2>9 DEF AbstractStep, Abstract!vars, Req, TrainPart, TestPart
<1> QED BY <1>1, <1>2

\* The steps with rows in hand: the split is running, for the request of its job.
LEMMA DealingIs ==
    ASSUME IInv, Dealing
    PROVE  /\ SplitStatus = "running" /\ Req = RequestOf(job.source, job.size)
           /\ TrainPart = RowsOf(train) /\ TestPart = RowsOf(test)
           /\ Req.rows = CleanRows[job.source] /\ Req.quota = job.targets /\ DOMAIN Req.quota = Labels
<1>1. SplitStatus = "running" BY DEF Dealing, SplitStatus
<1>2. job.source \in DOMAIN Prepared /\ Counted /\ job \in Job BY DEF IInv, Parted, Shape
<1>3. Req = RequestOf(job.source, job.size) BY <1>1, <1>2 DEF Req
<1>4. Req.rows = CleanRows[job.source] /\ Req.quota = TestTargets[job.source][job.size] BY <1>3 DEF RequestOf
<1>5. Req.quota = job.targets /\ job.targets \in [Labels -> Nat] BY <1>2, <1>4 DEF Counted, Job
<1> QED BY <1>1, <1>3, <1>4, <1>5 DEF TrainPart, TestPart

DealtRows == IInv /\ Dealing =>
                /\ SplitStatus = "running" /\ Req = RequestOf(job.source, job.size)
                /\ TrainPart = RowsOf(train) /\ TestPart = RowsOf(test)
LEMMA DealtRowsAre == DealtRows BY DealingIs DEF DealtRows

LEMMA UnlinkMetaBegins ==
    ASSUME IInv, IInv', UnlinkMeta
    PROVE  AbstractStep
<1>1. pc = "unlink_meta" /\ pc' = "choose" /\ train' = train /\ test' = test
      BY DEF UnlinkMeta, Goto
<1>2. train = NoFile /\ test = NoFile BY <1>1 DEF IInv, Begun
<1>3. SplitStatus # "running" BY <1>1 DEF SplitStatus
<1>4. SplitStatus' = "running" BY <1>1 DEF SplitStatus
<1>5. Req' \in Requests
  <2>1. Requested' BY RequestIs, PTL
  <2> QED BY <2>1 DEF Requested
<1>6. TrainPart' = {} /\ TestPart' = {} BY <1>1, <1>2, <1>4, NoRows DEF TrainPart, TestPart
<1>7. Abstract!Begin BY <1>3, <1>4, <1>5, <1>6 DEF Abstract!Begin, Req, TrainPart, TestPart
<1> QED BY <1>7 DEF AbstractStep, Abstract!Next

\* Dealing goes on: the request stays.
LEMMA DealingStays ==
    ASSUME IInv, IInv', Dealing, Dealing', job'.source = job.source, job'.size = job.size
    PROVE  /\ SplitStatus = "running" /\ SplitStatus' = "running" /\ Req' = Req
           /\ TrainPart' = RowsOf(train') /\ TestPart' = RowsOf(test')
<1>1. DealtRows /\ DealtRows'
  <2>1. DealtRows' BY DealtRowsAre, PTL
  <2> QED BY <2>1, DealtRowsAre
<1> QED BY <1>1 DEF DealtRows

LEMMA ChooseRowsStutters ==
    ASSUME IInv, IInv', ChooseRows
    PROVE  AbstractStep
<1>1. pc = "choose" /\ pc' = "append_train" /\ train' = train /\ test' = test
      BY DEF ChooseRows, Goto, files
<1>2. job'.source = job.source /\ job'.size = job.size
  <2>1. \E pick : job' = [job EXCEPT !.pick = pick] BY DEF ChooseRows
  <2>2. job \in Job BY DEF IInv, Shape
  <2> QED BY <2>1, <2>2 DEF Job
<1>3. Dealing /\ Dealing' BY <1>1 DEF Dealing
<1>4. SplitStatus' = SplitStatus /\ Req' = Req /\ TrainPart' = TrainPart /\ TestPart' = TestPart
      BY <1>1, <1>2, <1>3, DealingStays, DealingIs
<1> QED BY <1>4 DEF AbstractStep, Abstract!vars, Req, TrainPart, TestPart

\* The abstract shares are the counts of the code.
LEMMA SharesAre == \A part, l : Abstract!Share(part, l) = CountOf(part, l)
<1>1. \A S : Abstract!Cardinality(S) = Cardinality(S) BY DEF Abstract!Cardinality, Cardinality
<1> QED BY <1>1 DEF Abstract!Share, CountOf

\* Rows that neither part holds join one of them.
LEMMA PlacesInTrain ==
    ASSUME SplitStatus = "running", SplitStatus' = "running", Req' = Req, TestPart' = TestPart,
           NEW new, new \subseteq Req.rows \ (TrainPart \cup TestPart), TrainPart' = TrainPart \cup new
    PROVE  AbstractStep
<1>1. CASE new = {}
  <2>1. TrainPart' = TrainPart BY <1>1
  <2> QED BY <2>1 DEF AbstractStep, Abstract!vars, Req, TrainPart, TestPart
<1>2. CASE new # {}
  <2>1. new \in (SUBSET (Req.rows \ (TrainPart \cup TestPart))) \ {{}} BY <1>2
  <2>2. Abstract!Place BY <2>1 DEF Abstract!Place, Abstract!Placed, Req, TrainPart, TestPart
  <2> QED BY <2>2 DEF AbstractStep, Abstract!Next
<1> QED BY <1>1, <1>2

LEMMA PlacesInTest ==
    ASSUME SplitStatus = "running", SplitStatus' = "running", Req' = Req, TrainPart' = TrainPart,
           NEW new, new \subseteq Req.rows \ (TrainPart \cup TestPart), TestPart' = TestPart \cup new,
           \A l \in DOMAIN Req.quota : CountOf(TestPart', l) <= Req.quota[l]
    PROVE  AbstractStep
<1>1. CASE new = {}
  <2>1. TestPart' = TestPart BY <1>1
  <2> QED BY <2>1 DEF AbstractStep, Abstract!vars, Req, TrainPart, TestPart
<1>2. CASE new # {}
  <2>1. new \in (SUBSET (Req.rows \ (TrainPart \cup TestPart))) \ {{}} BY <1>2
  <2>2. Abstract!WithinQuota(TestPart') BY SharesAre DEF Abstract!WithinQuota, Req
  <2>3. Abstract!Place BY <2>1, <2>2 DEF Abstract!Place, Abstract!Placed, Req, TrainPart, TestPart
  <2> QED BY <2>3 DEF AbstractStep, Abstract!Next
<1> QED BY <1>1, <1>2

LEMMA AppendTrainPlaces ==
    ASSUME IInv, IInv', AppendTrain
    PROVE  AbstractStep
<1>1. pc = "append_train" /\ pc' = "append_test" /\ test' = test BY DEF AppendTrain, Goto
<1>2. job'.source = job.source /\ job'.size = job.size
  <2>1. job' = job \/ job' = [job EXCEPT !.train_header = FALSE] BY DEF AppendTrain
  <2>2. job \in Job BY DEF IInv, Shape
  <2> QED BY <2>1, <2>2 DEF Job
<1>3. Dealing /\ Dealing' BY <1>1 DEF Dealing
<1>4. /\ SplitStatus = "running" /\ SplitStatus' = "running" /\ Req' = Req
      /\ TrainPart' = RowsOf(train') /\ TestPart' = RowsOf(test')
      BY <1>2, <1>3, DealingStays
<1>5. TrainPart = RowsOf(train) /\ TestPart = RowsOf(test) /\ Req.rows = CleanRows[job.source]
      BY <1>3, DealingIs
<1>6. /\ ToSet(TrainRows) \cap RowsOf(train) = {} /\ ToSet(TrainRows) \cap RowsOf(test) = {}
      /\ ToSet(TrainRows) \subseteq CleanRows[job.source]
      BY <1>1, TrainRowsAre
<1>7. RowsOf(train') = RowsOf(train) \cup ToSet(TrainRows)
  <2>1. CASE TrainRows = <<>> BY <2>1, JustHeader DEF AppendTrain
  <2>2. CASE TrainRows # <<>>
    <3>1. train' = Grown(train, job.train_header, TrainRows) BY <2>2 DEF AppendTrain, Grown
    <3> QED BY <1>1, <3>1, TrainGrows
  <2> QED BY <2>1, <2>2
<1> DEFINE new == ToSet(TrainRows)
<1>8. new \subseteq Req.rows \ (TrainPart \cup TestPart) BY <1>5, <1>6
<1>9. TrainPart' = TrainPart \cup new /\ TestPart' = TestPart BY <1>1, <1>4, <1>5, <1>7
<1> HIDE DEF new
<1> QED BY <1>4, <1>8, <1>9, PlacesInTrain

LEMMA AppendTestPlaces ==
    ASSUME IInv, IInv', AppendTest
    PROVE  AbstractStep
<1>1. pc = "append_test" /\ pc' = "choose" /\ train' = train BY DEF AppendTest, Goto
<1>2. job'.source = job.source /\ job'.size = job.size
  <2>1. \/ job' = [job EXCEPT !.chunks = Tail(@), !.pick = {}]
        \/ job' = [job EXCEPT !.chunks = Tail(@), !.pick = {}, !.test_header = FALSE]
        BY DEF AppendTest
  <2>2. job \in Job BY DEF IInv, Shape
  <2> QED BY <2>1, <2>2 DEF Job
<1>3. Dealing /\ Dealing' BY <1>1 DEF Dealing
<1>4. /\ SplitStatus = "running" /\ SplitStatus' = "running" /\ Req' = Req
      /\ TrainPart' = RowsOf(train') /\ TestPart' = RowsOf(test')
      BY <1>2, <1>3, DealingStays
<1>5. /\ TrainPart = RowsOf(train) /\ TestPart = RowsOf(test) /\ Req.rows = CleanRows[job.source]
      /\ Req.quota = job.targets /\ DOMAIN Req.quota = Labels
      BY <1>3, DealingIs
<1>6. /\ job.pick \cap RowsOf(train) = {} /\ job.pick \cap RowsOf(test) = {}
      /\ job.pick \subseteq CleanRows[job.source]
      BY <1>1, TestRowsAre
<1>7. RowsOf(test') = RowsOf(test) \cup job.pick
  <2>1. ToSet(TestRows) = job.pick BY <1>1, TestRowsAre
  <2>2. CASE TestRows = <<>> BY <2>1, <2>2, JustHeader DEF AppendTest
  <2>3. CASE TestRows # <<>>
    <3>1. test' = Grown(test, job.test_header, TestRows) BY <2>3 DEF AppendTest, Grown
    <3> QED BY <1>1, <2>1, <3>1, TestGrows
  <2> QED BY <2>2, <2>3
<1> DEFINE new == job.pick
<1>8. new \subseteq Req.rows \ (TrainPart \cup TestPart) BY <1>5, <1>6
<1>9. TestPart' = TestPart \cup new /\ TrainPart' = TrainPart BY <1>1, <1>4, <1>5, <1>7
<1>10. \A l \in DOMAIN Req.quota : CountOf(TestPart', l) <= Req.quota[l]
  <2>1. \A l \in Labels : CountOf(RowsOf(test) \cup job.pick, l) <= job.targets[l]
        BY <1>3 DEF IInv, CountersTrue
  <2> QED BY <1>4, <1>5, <1>7, <2>1
<1> HIDE DEF new
<1> QED BY <1>4, <1>8, <1>9, <1>10, PlacesInTest

LEMMA WriteMetadataCompletes ==
    ASSUME IInv, IInv', WriteMetadata
    PROVE  AbstractStep
<1>1. /\ pc = "choose" /\ pc' = "idle" /\ job.chunks = <<>> /\ train' = train /\ test' = test
      /\ split_meta' = IF NoFile \in {train, test} THEN NoFile
                       ELSE [source |-> job.source, size |-> job.size, train |-> train, test |-> test]
      BY DEF WriteMetadata, Goto
<1>2. CASE ~IsMeta(split_meta')
  <2>1. SplitStatus' = "none" BY <1>1, <1>2 DEF SplitStatus, Complete
  <2> QED BY <2>1, SplitLoses
<1>3. CASE IsMeta(split_meta')
  <2>1. /\ split_meta'.source = job.source /\ split_meta'.size = job.size
        /\ split_meta'.train = train /\ split_meta'.test = test
        BY <1>1, <1>3 DEF IsMeta
  <2>2. SplitStatus' = "complete" BY <1>1, <1>3, <2>1 DEF SplitStatus, Complete
  <2>3. Dealing BY <1>1 DEF Dealing
  <2>4. /\ SplitStatus = "running" /\ Req = RequestOf(job.source, job.size)
        /\ TrainPart = RowsOf(train) /\ TestPart = RowsOf(test)
        /\ Req.rows = CleanRows[job.source] /\ Req.quota = job.targets /\ DOMAIN Req.quota = Labels
        BY <2>3, DealingIs
  <2>5. Req' = RequestOf(job.source, job.size) BY <2>1, <2>2 DEF Req
  <2>6. TrainPart' = TrainPart /\ TestPart' = TestPart BY <1>1, <2>2, <2>4 DEF TrainPart, TestPart
  <2>7. /\ RowsOf(train) \cup RowsOf(test) = CleanRows[job.source]
        /\ \A l \in Labels : CountOf(RowsOf(test), l) = TestTargets[job.source][job.size][l]
        BY <1>1, AllPlaced
  <2>8. job.targets = TestTargets[job.source][job.size] BY <2>3 DEF IInv, Parted, Counted
  <2>9. \A l \in DOMAIN Req.quota : Abstract!Share(TestPart, l) = Req.quota[l]
        BY <2>4, <2>7, <2>8, SharesAre
  <2>10. TrainPart \cup TestPart = Req.rows BY <2>4, <2>7
  <2>11. Req' = Req BY <2>4, <2>5
  <2>12. Abstract!Complete
         BY <2>2, <2>4, <2>6, <2>9, <2>10, <2>11
         DEF Abstract!Complete, Abstract!Placed, Req, TrainPart, TestPart
  <2> QED BY <2>12 DEF AbstractStep, Abstract!Next
<1> QED BY <1>2, <1>3

LEMMA QuietSteps ==
    ASSUME IInv,
           \/ \E s \in DOMAIN Prepared, size \in TestSizes, c \in ChunkSizes, force \in BOOLEAN :
                    StartSplit(s, size, c, force)
           \/ CountLabels \/ UnlinkTrain \/ UnlinkTest \/ Prepare
           \/ (Interrupt /\ ~Dealing)
    PROVE  Quiet
<1>1. CASE \E s \in DOMAIN Prepared, size \in TestSizes, c \in ChunkSizes, force \in BOOLEAN :
                StartSplit(s, size, c, force)
      BY <1>1 DEF StartSplit, Goto, Quiet, Dealing, files
<1>2. CASE CountLabels BY <1>2 DEF CountLabels, Quiet, Dealing, files
<1>3. CASE UnlinkTrain BY <1>3 DEF UnlinkTrain, Goto, Quiet, Dealing
<1>4. CASE UnlinkTest BY <1>4 DEF UnlinkTest, Goto, Quiet, Dealing
<1>5. CASE Prepare
  <2>1. CASE \E raw \in DOMAIN Raw, size \in TestSizes, force \in BOOLEAN : StartPrepare(raw, size, force)
        BY <2>1 DEF StartPrepare, Goto, Quiet, Dealing, files
  <2>2. CASE WriteCleaned BY <2>2 DEF WriteCleaned, Goto, Quiet, Dealing
  <2>3. CASE WriteTrain
    <3>1. pc = "prep_train" /\ train' = CsvOf(PreparedTable(job.source) \ job.pick) BY <2>3 DEF WriteTrain, Goto
    <3>2. PreparedTable(job.source) \ job.pick \in SUBSET PreparedTable(job.source) OBVIOUS
    <3>3. Sources(train') \subseteq DOMAIN Raw BY <3>1, <3>2, PreparedFiles
    <3> QED BY <2>3, <3>3 DEF WriteTrain, Goto, Quiet, Dealing
  <2>4. CASE WriteTest
    <3>1. pc = "prep_test" /\ test' = CsvOf(job.pick) BY <2>4 DEF WriteTest, Goto
    <3>2. job.pick \in SUBSET PreparedTable(job.source) BY <3>1 DEF IInv, Preparing
    <3>3. Sources(test') \subseteq DOMAIN Raw BY <3>1, <3>2, PreparedFiles
    <3> QED BY <2>4, <3>3 DEF WriteTest, Goto, Quiet, Dealing
  <2>5. CASE WritePrepMeta BY <2>5 DEF WritePrepMeta, Goto, Quiet, Dealing
  <2> QED BY <1>5, <2>1, <2>2, <2>3, <2>4, <2>5 DEF Prepare
<1>6. CASE Interrupt /\ ~Dealing
  <2>1. pc' = "idle" BY <1>6 DEF Interrupt
  <2>2. split_meta' = split_meta \/ ~IsMeta(split_meta') BY <1>6, InterruptLeaves DEF IsMeta
  <2>3. train' = train \/ Sources(train') = {} BY <1>6, InterruptLeaves DEF Dealing
  <2>4. test' = test \/ Sources(test') = {} BY <1>6, InterruptLeaves DEF Dealing
  <2> QED BY <1>6, <2>1, <2>2, <2>3, <2>4 DEF Quiet
<1> QED BY <1>1, <1>2, <1>3, <1>4, <1>5, <1>6

\* A run cut off while it deals out rows has no metadata yet.
LEMMA CutOffLoses ==
    ASSUME IInv, IInv', Interrupt, Dealing
    PROVE  AbstractStep
<1>1. pc' = "idle" BY DEF Interrupt
<1>2. ~IsMeta(split_meta) BY DEF IInv, Parted
<1>3. ~IsMeta(split_meta') BY <1>2, InterruptLeaves DEF IsMeta
<1>4. SplitStatus' = "none" BY <1>1, <1>3 DEF SplitStatus, Complete
<1> QED BY <1>4, SplitLoses

LEMMA StutterStutters ==
    ASSUME IInv, UNCHANGED vars
    PROVE  AbstractStep
<1>1. train' = train /\ test' = test /\ split_meta' = split_meta /\ pc' = pc /\ job' = job BY DEF vars, files
<1>2. SplitStatus' = SplitStatus BY <1>1 DEF SplitStatus, Complete, IsMeta
<1>3. Req' = Req /\ TrainPart' = TrainPart /\ TestPart' = TestPart BY <1>1, <1>2 DEF Req, TrainPart, TestPart
<1> QED BY <1>2, <1>3 DEF AbstractStep, Abstract!vars, Req, TrainPart, TestPart

LEMMA StepRefines == IInv /\ IInv' /\ [Next]_vars => AbstractStep
<1> SUFFICES ASSUME IInv, IInv', [Next]_vars PROVE AbstractStep OBVIOUS
<1>1. CASE Split
  <2>1. CASE UnlinkMeta BY <2>1, UnlinkMetaBegins
  <2>2. CASE ChooseRows BY <2>2, ChooseRowsStutters
  <2>3. CASE AppendTrain BY <2>3, AppendTrainPlaces
  <2>4. CASE AppendTest BY <2>4, AppendTestPlaces
  <2>5. CASE WriteMetadata BY <2>5, WriteMetadataCompletes
  <2>6. CASE \/ \E s \in DOMAIN Prepared, size \in TestSizes, c \in ChunkSizes, force \in BOOLEAN :
                    StartSplit(s, size, c, force)
             \/ CountLabels \/ UnlinkTrain \/ UnlinkTest
    <3>1. Quiet BY <2>6, QuietSteps
    <3> QED BY <3>1, QuietStep
  <2> QED BY <1>1, <2>1, <2>2, <2>3, <2>4, <2>5, <2>6 DEF Split
<1>2. CASE Prepare
  <2>1. Quiet BY <1>2, QuietSteps
  <2> QED BY <2>1, QuietStep
<1>3. CASE Interrupt
  <2>1. CASE Dealing BY <1>3, <2>1, CutOffLoses
  <2>2. CASE ~Dealing
    <3>1. Quiet BY <1>3, <2>2, QuietSteps
    <3> QED BY <3>1, QuietStep
  <2> QED BY <2>1, <2>2
<1>4. CASE UNCHANGED vars BY <1>4, StutterStutters
<1> QED BY <1>1, <1>2, <1>3, <1>4 DEF Next

LEMMA InitRefines == Init => Abstract!Init
<1> SUFFICES ASSUME Init PROVE Abstract!Init OBVIOUS
<1>1. SplitStatus = "none" BY DEF Init, SplitStatus, Complete, IsMeta
<1>2. Req \in Requests
  <2>1. job = Idle BY DEF Init
  <2> QED BY <1>1, <2>1, IdleIs DEF Req, Requests
<1> QED BY <1>1, <1>2 DEF Abstract!Init, Req

\* split_prepared_dataset is a stratified split for every data set, chunk size and test size: each
\* clean row goes to one part, no label exceeds its target, and only a run that placed all rows and
\* met every target completes; prepare_dataset and cut off runs only ever lose a result.
THEOREM SplitRefines == Spec => ImplementsSplit
<1>1. Init => Abstract!Init BY InitRefines
<1>2. IInv /\ IInv' /\ [Next]_vars => [Abstract!Next]_(Abstract!vars) BY StepRefines DEF AbstractStep
<1> QED BY <1>1, <1>2, Invariance, PTL DEF Spec, ImplementsSplit, Abstract!Spec

LEMMA AbstractStratified == Abstract!Spec => []Abstract!Stratified
<1>1. Abstract!Init => Abstract!Stratified BY DEF Abstract!Init, Abstract!Stratified, Abstract!Placed
<1>2. Abstract!Stratified /\ [Abstract!Next]_(Abstract!vars) => Abstract!Stratified'
  <2> SUFFICES ASSUME Abstract!Stratified, [Abstract!Next]_(Abstract!vars) PROVE Abstract!Stratified' OBVIOUS
  <2>1. CASE Abstract!Begin BY <2>1 DEF Abstract!Begin, Abstract!Stratified, Abstract!Placed
  <2>2. CASE Abstract!Place BY <2>2 DEF Abstract!Place, Abstract!Stratified, Abstract!Placed
  <2>3. CASE Abstract!Complete BY <2>3 DEF Abstract!Complete, Abstract!Stratified, Abstract!Placed, Abstract!Share
  <2>4. CASE Abstract!Lose BY <2>4 DEF Abstract!Lose, Abstract!Stratified, Abstract!Placed
  <2>5. CASE UNCHANGED Abstract!vars BY <2>5 DEF Abstract!vars, Abstract!Stratified, Abstract!Placed, Abstract!Share
  <2> QED BY <2>1, <2>2, <2>3, <2>4, <2>5 DEF Abstract!Next
<1> QED BY <1>1, <1>2, PTL DEF Abstract!Spec

\* The parts of a split never share a row and hold only clean rows of its source; once it is
\* complete they hold all of them, with the target of every label in the test part.
THEOREM SplitIsStratified == Spec => []Abstract!Stratified
BY SplitRefines, AbstractStratified, PTL DEF ImplementsSplit
=============================================================================
