--------------------------- MODULE ResponseProofs ---------------------------
(***************************************************************************)
(* What the packet heuristics and the blocker guarantee, for every set of  *)
(* packets, sources, addresses and threads, and all windows, thresholds,   *)
(* intervals and bounds.  The first part is about HeuristicDetector, the   *)
(* second about AutoBlocker.                                               *)
(***************************************************************************)
EXTENDS HeuristicDetector, AutoBlocker, FiniteSetTheorems, SequenceTheorems, WellFoundedInduction, TLAPS

Entries == Nat \X {p.port : p \in Packets}
Record == [p : Packets, at : Nat \ {0}]
Entry(r) == <<r.at, r.p.port>>

\* A log as the clock and the disorder of the timestamps allow it.
Orderly(L) ==
    /\ L \in Seq(Record)
    /\ \A i, k \in 1..Len(L) : i < k => L[k].at >= L[i].at - Lag

\* A deque holds entries of packets of mine, in their order, and misses none of kept.
Reflects(q, L, mine, kept) ==
    /\ q \in Seq(Entries)
    /\ \E f \in [1..Len(q) -> mine] :
        /\ \A j \in 1..Len(q) : q[j] = Entry(L[f[j]])
        /\ \A j, k \in 1..Len(q) : j < k => f[j] < f[k]
        /\ \A i \in kept : \E j \in 1..Len(q) : f[j] = i

-----------------------------------------------------------------------------
(* Least and greatest elements, and what trimming leaves.                  *)

LEMMA LeastNumber ==
    ASSUME NEW T, T \subseteq Nat, T # {}
    PROVE  \E m \in T : \A k \in T : m <= k
<1> DEFINE R == OpToRel(<, Nat)
<1>1. IsWellFoundedOn(R, Nat) BY NatLessThanWellFounded
<1>2. \A m, k \in Nat : k < m => <<k, m>> \in R BY DEF OpToRel
<1> HIDE DEF R
<1>3. PICK m \in T : \A k \in T : ~(<<k, m>> \in R) BY <1>1, WFMin
<1>4. \A k \in T : ~(k < m) BY <1>2, <1>3
<1>5. T \subseteq Int OBVIOUS
<1>6. \A k \in T : m <= k BY <1>4, <1>5
<1> QED BY <1>6

LEMMA MinIs ==
    ASSUME NEW S, S \subseteq Nat, S # {}
    PROVE  Min(S) \in S /\ \A y \in S : Min(S) <= y
BY LeastNumber DEF Min

LEMMA MaxIs ==
    ASSUME NEW S, S \subseteq Int, NEW x \in S, \A y \in S : y <= x
    PROVE  Max(S) = x
<1>1. \A z \in S : (\A y \in S : z >= y) => z = x OBVIOUS
<1>2. \A y \in S : x >= y OBVIOUS
<1> QED BY <1>1, <1>2 DEF Max

LEMMA LastIndex ==
    ASSUME NEW n \in Nat, NEW S, S \subseteq 1..n, S # {}
    PROVE  Max(S) \in S /\ \A y \in S : y <= Max(S)
<1> DEFINE T == {n - i : i \in S}
<1>1. T \subseteq Nat /\ T # {} OBVIOUS
<1>2. PICK m \in T : \A k \in T : m <= k
  <2> HIDE DEF T
  <2> QED BY <1>1, LeastNumber
<1>3. PICK x \in S : m = n - x BY <1>2
<1>4. x \in Int /\ n - m = x BY <1>3
<1>5. ASSUME NEW y \in S PROVE y <= x
  <2>1. n - x <= n - y BY <1>2, <1>3
  <2> QED BY <1>3, <2>1
<1>6. S \subseteq Int OBVIOUS
<1>7. Max(S) = x BY <1>3, <1>5, <1>6, MaxIs
<1> QED BY <1>3, <1>5, <1>7

\* A trimmed deque has lost a beginning, all of it older than the cutoff.
LEMMA TrimmedIs ==
    ASSUME NEW q \in Seq(Entries), NEW c \in Int
    PROVE  \E k \in 1..(Len(q) + 1) :
             /\ Trimmed(q, c) \in Seq(Entries)
             /\ Len(Trimmed(q, c)) = Len(q) + 1 - k
             /\ \A i \in 1..(Len(q) + 1 - k) : Trimmed(q, c)[i] = q[k + i - 1]
             /\ \A i \in 1..(k - 1) : q[i][1] < c
             /\ k <= Len(q) => q[k][1] >= c
<1> DEFINE S == {i \in 1..Len(q) : q[i][1] >= c} \cup {Len(q) + 1}
           k == Min(S)
<1>1. Len(q) \in Nat /\ \A i \in 1..Len(q) : q[i] \in Entries BY ElementOfSeq, LenProperties
<1>2. S \subseteq Nat /\ S # {} BY <1>1
<1>3. k \in S /\ \A y \in S : k <= y
  <2> HIDE DEF S
  <2> QED BY <1>2, MinIs
<1>4. k \in 1..(Len(q) + 1) BY <1>1, <1>3
<1>5. \A i \in 1..Len(q) : q[i][1] \in Int BY <1>1 DEF Entries
<1>6. ASSUME NEW i \in 1..(k - 1) PROVE q[i][1] < c
  <2>1. i \in 1..Len(q) /\ ~(k <= i) BY <1>1, <1>4
  <2>2. i \notin S BY <1>3, <2>1
  <2> HIDE DEF k
  <2> QED BY <1>5, <2>1, <2>2
<1>7. k <= Len(q) => q[k][1] >= c BY <1>1, <1>3
<1>8. Trimmed(q, c) = SubSeq(q, k, Len(q)) BY DEF Trimmed
<1> HIDE DEF k
<1>9. \A i \in k..Len(q) : q[i] \in Entries BY <1>1, <1>4
<1>10. /\ SubSeq(q, k, Len(q)) \in Seq(Entries)
       /\ Len(SubSeq(q, k, Len(q))) = IF k <= Len(q) THEN Len(q) - k + 1 ELSE 0
       /\ \A i \in 1..(Len(q) - k + 1) : SubSeq(q, k, Len(q))[i] = q[k + i - 1]
  <2>1. k \in Int /\ Len(q) \in Int BY <1>1, <1>4
  <2> QED BY <1>9, <2>1, SubSeqProperties
<1>11. Len(q) - k + 1 = Len(q) + 1 - k /\ (~(k <= Len(q)) => Len(q) + 1 - k = 0) BY <1>1, <1>4
<1> QED BY <1>4, <1>6, <1>7, <1>8, <1>10, <1>11

LEMMA LastIsKept ==
    ASSUME NEW q \in Seq(Entries), NEW c \in Int, q # <<>>, q[Len(q)][1] >= c
    PROVE  LET t == Trimmed(q, c) IN t # <<>> /\ t[Len(t)] = q[Len(q)]
<1> DEFINE t == Trimmed(q, c)
<1>1. Len(q) \in Nat \ {0} /\ q[Len(q)] \in Entries
  <2>1. Len(q) \in Nat \ {0} BY EmptySeq
  <2> QED BY <2>1, ElementOfSeq
<1>2. PICK k \in 1..(Len(q) + 1) :
        /\ Len(t) = Len(q) + 1 - k
        /\ \A i \in 1..(Len(q) + 1 - k) : t[i] = q[k + i - 1]
        /\ \A i \in 1..(k - 1) : q[i][1] < c
      BY TrimmedIs
<1> HIDE DEF t
<1>3. ~(q[Len(q)][1] < c) BY <1>1 DEF Entries
<1>4. Len(q) \notin 1..(k - 1) BY <1>2, <1>3
<1>5. Len(t) \in 1..(Len(q) + 1 - k) /\ k + Len(t) - 1 = Len(q) BY <1>1, <1>2, <1>4
<1>6. t # <<>>
  <2>1. Len(<<>>) = 0 BY EmptySeq
  <2> QED BY <1>5, <2>1
<1>7. t[Len(t)] = q[Len(q)] BY <1>2, <1>5
<1> QED BY <1>6, <1>7 DEF t

-----------------------------------------------------------------------------
(* What a deque reflects, when the log grows and when it is trimmed.       *)

LEMMA NothingReflected ==
    ASSUME NEW L, NEW mine PROVE Reflects(<<>>, L, mine, {})
<1>1. <<>> \in Seq(Entries) /\ Len(<<>>) = 0 BY EmptySeq
<1>2. 1..Len(<<>>) = {} BY <1>1
<1>3. [i \in {} |-> i] \in [{} -> mine] OBVIOUS
<1> QED BY <1>1, <1>2, <1>3 DEF Reflects

LEMMA LogAppended ==
    ASSUME NEW L, Orderly(L), NEW r \in Record
    PROVE  /\ Len(L) \in Nat /\ DOMAIN L = 1..Len(L)
           /\ \A i \in 1..Len(L) : L[i] \in Record
           /\ Len(Append(L, r)) = Len(L) + 1
           /\ DOMAIN Append(L, r) = 1..(Len(L) + 1)
           /\ \A i \in 1..Len(L) : Append(L, r)[i] = L[i]
           /\ Append(L, r)[Len(L) + 1] = r
           /\ Append(L, r) \in Seq(Record)
<1>1. L \in Seq(Record) BY DEF Orderly
<1> QED BY <1>1, AppendProperties, LenProperties, ElementOfSeq

LEMMA StillReflected ==
    ASSUME NEW L, Orderly(L), NEW r \in Record, NEW q, NEW mine, NEW kept, NEW some,
           mine \subseteq 1..Len(L), some \subseteq kept, Reflects(q, L, mine, kept)
    PROVE  Reflects(q, Append(L, r), mine, some)
<1>1. \A i \in 1..Len(L) : Append(L, r)[i] = L[i] BY LogAppended
<1>2. PICK f \in [1..Len(q) -> mine] :
        /\ \A j \in 1..Len(q) : q[j] = Entry(L[f[j]])
        /\ \A j, k \in 1..Len(q) : j < k => f[j] < f[k]
        /\ \A i \in kept : \E j \in 1..Len(q) : f[j] = i
      BY DEF Reflects
<1>3. \A j \in 1..Len(q) : q[j] = Entry(Append(L, r)[f[j]]) BY <1>1, <1>2
<1>4. q \in Seq(Entries) BY DEF Reflects
<1> QED BY <1>2, <1>3, <1>4 DEF Reflects

LEMMA NewReflected ==
    ASSUME NEW L, Orderly(L), NEW r \in Record, NEW q, NEW mine, NEW kept,
           mine \subseteq 1..Len(L), Reflects(q, L, mine, kept)
    PROVE  Reflects(Append(q, Entry(r)), Append(L, r),
                    mine \cup {Len(L) + 1}, kept \cup {Len(L) + 1})
<1>1. /\ Len(L) \in Nat
      /\ \A i \in 1..Len(L) : Append(L, r)[i] = L[i]
      /\ Append(L, r)[Len(L) + 1] = r
      BY LogAppended
<1>2. PICK f \in [1..Len(q) -> mine] :
        /\ \A j \in 1..Len(q) : q[j] = Entry(L[f[j]])
        /\ \A j, k \in 1..Len(q) : j < k => f[j] < f[k]
        /\ \A i \in kept : \E j \in 1..Len(q) : f[j] = i
      BY DEF Reflects
<1>3. q \in Seq(Entries) /\ Entry(r) \in Entries BY DEF Reflects, Record, Entry, Entries
<1> DEFINE n == Len(q)
           g == [j \in 1..(n + 1) |-> IF j = n + 1 THEN Len(L) + 1 ELSE f[j]]
           a == Append(q, Entry(r))
<1>4. /\ a \in Seq(Entries) /\ Len(a) = n + 1
      /\ \A i \in 1..n : a[i] = q[i]
      /\ a[n + 1] = Entry(r) /\ n \in Nat
      BY <1>3, AppendProperties, LenProperties
<1> HIDE DEF a
<1>5. g \in [1..(n + 1) -> mine \cup {Len(L) + 1}] BY <1>2, <1>4
<1>6. ASSUME NEW j \in 1..n PROVE g[j] = f[j] /\ f[j] \in 1..Len(L)
  <2>1. j \in 1..(n + 1) /\ j # n + 1 BY <1>4
  <2>2. f[j] \in mine BY <1>2
  <2> QED BY <2>1, <2>2
<1>7. g[n + 1] = Len(L) + 1 BY <1>4
<1> HIDE DEF g
<1>8. \A j \in 1..(n + 1) : j = n + 1 \/ j \in 1..n BY <1>4
<1>9. ASSUME NEW j \in 1..(n + 1) PROVE a[j] = Entry(Append(L, r)[g[j]])
  <2>1. CASE j = n + 1 BY <2>1, <1>1, <1>4, <1>7
  <2>2. CASE j \in 1..n BY <2>2, <1>1, <1>2, <1>4, <1>6
  <2> QED BY <1>8, <2>1, <2>2
<1>10. ASSUME NEW j \in 1..(n + 1), NEW k \in 1..(n + 1), j < k PROVE g[j] < g[k]
  <2>1. j \in 1..n /\ (k = n + 1 \/ k \in 1..n) BY <1>4, <1>10
  <2>2. CASE k = n + 1 BY <2>1, <2>2, <1>1, <1>6, <1>7
  <2>3. CASE k \in 1..n BY <1>2, <1>6, <1>10, <2>1, <2>3
  <2> QED BY <2>1, <2>2, <2>3
<1>11. ASSUME NEW i \in kept \cup {Len(L) + 1} PROVE \E j \in 1..(n + 1) : g[j] = i
  <2>1. CASE i = Len(L) + 1 BY <2>1, <1>4, <1>7
  <2>2. CASE i \in kept
    <3>1. PICK j \in 1..n : f[j] = i BY <1>2, <2>2
    <3> QED BY <1>4, <1>6, <3>1
  <2> QED BY <2>1, <2>2
<1>12. Reflects(a, Append(L, r), mine \cup {Len(L) + 1}, kept \cup {Len(L) + 1})
  <2> DEFINE M == mine \cup {Len(L) + 1}
             K == kept \cup {Len(L) + 1}
             A == Append(L, r)
             m == n + 1
  <2>1. /\ g \in [1..m -> M]
        /\ \A j \in 1..m : a[j] = Entry(A[g[j]])
        /\ \A j, k \in 1..m : j < k => g[j] < g[k]
        /\ \A i \in K : \E j \in 1..m : g[j] = i
        BY <1>5, <1>9, <1>10, <1>11
  <2>2. a \in Seq(Entries) /\ Len(a) = m BY <1>4
  <2> HIDE DEF M, K, A, m
  <2>3. Reflects(a, A, M, K) BY <2>1, <2>2 DEF Reflects
  <2> QED BY <2>3 DEF A, M, K
<1> QED BY <1>12 DEF a

LEMMA TrimmedReflected ==
    ASSUME NEW L, NEW q, NEW mine, NEW kept, NEW some, NEW c \in Int,
           Reflects(q, L, mine, kept), some \subseteq kept, \A i \in some : L[i].at >= c
    PROVE  Reflects(Trimmed(q, c), L, mine, some)
<1>1. PICK f \in [1..Len(q) -> mine] :
        /\ \A j \in 1..Len(q) : q[j] = Entry(L[f[j]])
        /\ \A j, k \in 1..Len(q) : j < k => f[j] < f[k]
        /\ \A i \in kept : \E j \in 1..Len(q) : f[j] = i
      BY DEF Reflects
<1>2. q \in Seq(Entries) /\ Len(q) \in Nat BY LenProperties DEF Reflects
<1> DEFINE n == Len(q)
           t == Trimmed(q, c)
<1>3. PICK k \in 1..(n + 1) :
        /\ t \in Seq(Entries)
        /\ Len(t) = n + 1 - k
        /\ \A i \in 1..(n + 1 - k) : t[i] = q[k + i - 1]
        /\ \A i \in 1..(k - 1) : q[i][1] < c
      BY <1>2, TrimmedIs
<1> HIDE DEF t
<1> DEFINE m == n + 1 - k
           g == [j \in 1..m |-> f[k + j - 1]]
<1>4. \A j \in 1..m : k + j - 1 \in 1..n BY <1>2, <1>3
<1>5. g \in [1..m -> mine] BY <1>1, <1>4
<1>6. \A j \in 1..m : g[j] = f[k + j - 1] OBVIOUS
<1> HIDE DEF g
<1>7. \A j \in 1..m : t[j] = Entry(L[g[j]]) BY <1>1, <1>3, <1>4, <1>6
<1>8. ASSUME NEW i \in 1..m, NEW j \in 1..m, i < j PROVE g[i] < g[j]
  <2>1. k + i - 1 < k + j - 1 BY <1>2, <1>3, <1>8
  <2> QED BY <1>1, <1>4, <1>6, <2>1
<1>9. ASSUME NEW i \in some PROVE \E j \in 1..m : g[j] = i
  <2>1. PICK j \in 1..n : f[j] = i BY <1>1
  <2>2. q[j][1] = L[i].at BY <1>1, <2>1 DEF Entry
  <2>3. L[i].at >= c OBVIOUS
  <2>4. q[j] \in Entries BY <1>2, ElementOfSeq
  <2>5. ~(q[j][1] < c) BY <2>2, <2>3, <2>4 DEF Entries
  <2>6. j \notin 1..(k - 1) BY <1>3, <2>5
  <2>7. j - k + 1 \in 1..m /\ k + (j - k + 1) - 1 = j BY <1>2, <1>3, <2>6
  <2> QED BY <1>6, <2>1, <2>7
<1>10. Len(t) = m BY <1>3
<1>11. Reflects(t, L, mine, some)
  <2> HIDE DEF m
  <2> QED BY <1>3, <1>5, <1>7, <1>8, <1>9, <1>10 DEF Reflects
<1> QED BY <1>11 DEF t

-----------------------------------------------------------------------------
(* How much a deque counts, against the packets of the log.                *)

\* The first entry left is no older than the cutoff, and the clock goes back by Lag at most.
LEMMA TrimmedIsRecent ==
    ASSUME NEW L, Orderly(L), NEW q, NEW mine, NEW kept, NEW c \in Int, Lag \in Nat,
           mine \subseteq 1..Len(L), Reflects(q, L, mine, kept)
    PROVE  \A j \in 1..Len(Trimmed(q, c)) : Trimmed(q, c)[j][1] >= c - Lag
<1>1. PICK f \in [1..Len(q) -> mine] :
        /\ \A j \in 1..Len(q) : q[j] = Entry(L[f[j]])
        /\ \A j, k \in 1..Len(q) : j < k => f[j] < f[k]
      BY DEF Reflects
<1>2. q \in Seq(Entries) /\ Len(q) \in Nat BY LenProperties DEF Reflects
<1>3. PICK k \in 1..(Len(q) + 1) :
        /\ Len(Trimmed(q, c)) = Len(q) + 1 - k
        /\ \A i \in 1..(Len(q) + 1 - k) : Trimmed(q, c)[i] = q[k + i - 1]
        /\ k <= Len(q) => q[k][1] >= c
      BY <1>2, TrimmedIs
<1> SUFFICES ASSUME NEW j \in 1..(Len(q) + 1 - k) PROVE q[k + j - 1][1] >= c - Lag
    BY <1>3
<1>4. k + j - 1 \in 1..Len(q) /\ k \in 1..Len(q) /\ k <= Len(q) BY <1>2, <1>3
<1>5. q[k][1] >= c /\ q[k] \in Entries /\ q[k + j - 1] \in Entries BY <1>2, <1>3, <1>4, ElementOfSeq
<1>6. CASE j = 1 BY <1>2, <1>3, <1>5, <1>6 DEF Entries
<1>7. CASE j # 1
  <2>1. k < k + j - 1 BY <1>2, <1>3, <1>7
  <2>2. f[k] < f[k + j - 1] BY <1>1, <1>4, <2>1
  <2>3. f[k] \in 1..Len(L) /\ f[k + j - 1] \in 1..Len(L) BY <1>1, <1>4
  <2>4. L[f[k + j - 1]].at >= L[f[k]].at - Lag BY <2>2, <2>3 DEF Orderly
  <2>5. q[k][1] = L[f[k]].at /\ q[k + j - 1][1] = L[f[k + j - 1]].at BY <1>1, <1>4 DEF Entry
  <2>6. q[k][1] \in Nat /\ q[k + j - 1][1] \in Nat BY <1>5 DEF Entries
  <2> QED BY <1>5, <2>4, <2>5, <2>6
<1> QED BY <1>6, <1>7

PortsOf(L, indices) == {L[i].p.port : i \in indices}
EntryPorts(q) == {q[j][2] : j \in DOMAIN q}
AsRecent(L, mine, c) == {i \in mine : L[i].at >= c}

\* No fewer entries and ports than packets that must be there, no more than the packets that
\* are as recent as all entries.
LEMMA Counts ==
    ASSUME NEW L, Orderly(L), NEW q, NEW mine, NEW kept, NEW c \in Int,
           mine \subseteq 1..Len(L), kept \subseteq mine, Reflects(q, L, mine, kept),
           \A j \in 1..Len(q) : q[j][1] >= c
    PROVE  LET all == AsRecent(L, mine, c)
           IN  /\ Cardinality(kept) <= Len(q) /\ Len(q) <= Cardinality(all)
               /\ Cardinality(PortsOf(L, kept)) <= Cardinality(EntryPorts(q))
               /\ Cardinality(EntryPorts(q)) <= Cardinality(PortsOf(L, all))
               /\ Cardinality(kept) \in Nat /\ Cardinality(all) \in Nat /\ Len(q) \in Nat
               /\ Cardinality(PortsOf(L, kept)) \in Nat /\ Cardinality(PortsOf(L, all)) \in Nat
               /\ Cardinality(EntryPorts(q)) \in Nat
<1> DEFINE all == {i \in mine : L[i].at >= c}
           Ports(indices) == {L[i].p.port : i \in indices}
           ports == {q[j][2] : j \in DOMAIN q}
<1>1. PICK f \in [1..Len(q) -> mine] :
        /\ \A j \in 1..Len(q) : q[j] = Entry(L[f[j]])
        /\ \A j, k \in 1..Len(q) : j < k => f[j] < f[k]
        /\ \A i \in kept : \E j \in 1..Len(q) : f[j] = i
      BY DEF Reflects
<1>2. q \in Seq(Entries) /\ Len(q) \in Nat /\ DOMAIN q = 1..Len(q) BY LenProperties DEF Reflects
<1>3. Len(L) \in Nat BY LenProperties DEF Orderly
<1>4. IsFiniteSet(mine)
  <2>1. IsFiniteSet(1..Len(L)) BY <1>3, FS_Interval
  <2> QED BY <2>1, FS_Subset
<1>5. IsFiniteSet(all) /\ IsFiniteSet(kept) /\ Cardinality(all) \in Nat /\ Cardinality(kept) \in Nat
      BY <1>4, FS_Subset, FS_CardinalityType
<1>6. /\ \A j \in 1..Len(q) : q[j][1] = L[f[j]].at /\ q[j][2] = L[f[j]].p.port
      BY <1>1 DEF Entry
<1>7. \A j \in 1..Len(q) : f[j] \in all BY <1>1, <1>6
<1>8. Len(q) <= Cardinality(all)
  <2>1. f \in [1..Len(q) -> all] BY <1>1, <1>7
  <2>2. ASSUME NEW j \in 1..Len(q), NEW k \in 1..Len(q), f[j] = f[k] PROVE j = k
    <3>1. f[j] \in 1..Len(L) /\ f[k] \in 1..Len(L) BY <1>1
    <3>2. ~(j < k) /\ ~(k < j) BY <1>1, <2>2, <3>1
    <3> QED BY <3>2
  <2>3. f \in Injection(1..Len(q), all) BY <2>1, <2>2 DEF Injection, IsInjective
  <2> HIDE DEF all
  <2>4. Cardinality(1..Len(q)) <= Cardinality(all) BY <1>5, <2>3, FS_Injection
  <2> QED BY <1>2, <2>4, FS_Interval
<1>9. Cardinality(kept) <= Len(q)
  <2> DEFINE P == {j \in 1..Len(q) : f[j] \in kept}
             g == [j \in P |-> f[j]]
  <2>1. g \in [P -> kept] OBVIOUS
  <2>2. \A i \in kept : \E j \in P : g[j] = i BY <1>1
  <2>3. g \in Surjection(P, kept)
    <3> HIDE DEF P, g
    <3> QED BY <2>1, <2>2 DEF Surjection
  <2>4. IsFiniteSet(1..Len(q)) /\ Cardinality(1..Len(q)) = Len(q) BY <1>2, FS_Interval
  <2>5. IsFiniteSet(P) /\ Cardinality(P) <= Len(q) /\ Cardinality(P) \in Nat
        BY <2>4, FS_Subset, FS_CardinalityType
  <2> HIDE DEF P, g
  <2>6. Cardinality(kept) <= Cardinality(P) BY <2>3, <2>5, FS_Surjection
  <2> QED BY <1>2, <1>5, <2>5, <2>6
<1>10. /\ IsFiniteSet(Ports(all)) /\ Cardinality(Ports(all)) \in Nat
  <2> DEFINE g == [i \in all |-> L[i].p.port]
  <2>1. g \in Surjection(all, Ports(all)) BY DEF Surjection
  <2> HIDE DEF all, g, Ports
  <2> QED BY <1>5, <2>1, FS_Surjection, FS_CardinalityType
<1>11. ports \subseteq Ports(all) BY <1>2, <1>6, <1>7
<1>12. Ports(kept) \subseteq ports
  <2> SUFFICES ASSUME NEW i \in kept PROVE L[i].p.port \in ports OBVIOUS
  <2>1. PICK j \in 1..Len(q) : f[j] = i BY <1>1
  <2> QED BY <1>2, <1>6, <2>1
<1> HIDE DEF all, ports, Ports
<1>13. IsFiniteSet(ports) /\ Cardinality(ports) <= Cardinality(Ports(all)) /\ Cardinality(ports) \in Nat
       BY <1>10, <1>11, FS_Subset, FS_CardinalityType
<1>14. Cardinality(Ports(kept)) <= Cardinality(ports) /\ Cardinality(Ports(kept)) \in Nat
       BY <1>12, <1>13, FS_Subset, FS_CardinalityType
<1>15. /\ Cardinality(kept) <= Len(q) /\ Len(q) <= Cardinality(all)
       /\ Cardinality(Ports(kept)) <= Cardinality(ports)
       /\ Cardinality(ports) <= Cardinality(Ports(all))
       /\ Cardinality(kept) \in Nat /\ Cardinality(all) \in Nat /\ Len(q) \in Nat
       /\ Cardinality(Ports(kept)) \in Nat /\ Cardinality(Ports(all)) \in Nat
       /\ Cardinality(ports) \in Nat
      BY <1>2, <1>5, <1>8, <1>9, <1>10, <1>13, <1>14
<1> QED BY <1>15 DEF all, ports, Ports, AsRecent, PortsOf, EntryPorts

-----------------------------------------------------------------------------
(* The inductive invariant.                                                *)

\* The packets of a log that belong to a window, and those of an attempt.
Mine(L, w, s) == {i \in 1..Len(L) : L[i].p.src = s /\ w \in Feeds(L[i].p)}
Within(L, w, s, after, cutoff) == {i \in Mine(L, w, s) : i > after /\ L[i].at >= cutoff}
Tried(L, key) == {i \in 1..Len(L) : <<L[i].p.src, L[i].p.dst, L[i].p.port>> = key}
TriedSince(L, key, cutoff) == {i \in Tried(L, key) : L[i].at >= cutoff}

Keys == Sources \X Hosts \X ServicePorts

Shape ==
    /\ recent \in [Windows -> [Sources -> Seq(Entries)]]
    /\ last_seen \in [Sources -> Nat]
    /\ last_pruned \in Nat \cup {Never}
    /\ attempts \in [Keys -> Seq(Entries)]
    /\ verdict \subseteq {"heuristic", "bruteforce"}
    /\ Orderly(log) /\ Len(log) <= MaxPackets
    /\ evicted \in [Sources -> 0..Len(log)]

\* The newest timestamp is one of the log's, or the 1 the clock starts with.
Ahead ==
    /\ Newest \in {log[i].at : i \in 1..Len(log)} \cup {1}
    /\ \A i \in 1..Len(log) : log[i].at <= Newest
    /\ Newest >= 1

\* The deques hold packets of their source, all that are within the window and not evicted.
DequesTrue ==
    \A w \in Windows, s \in Sources :
        Reflects(recent[w][s], log, Mine(log, w, s),
                 Within(log, w, s, evicted[s], Newest - Width[w]))

AttemptsTrue ==
    \A key \in Keys :
        Reflects(attempts[key], log, Tried(log, key), TriedSince(log, key, Newest - AttemptWindow))

\* Nothing is older than the last sweep allows, and that was not long ago.
Slack == Max({PruneInterval - 1, Lag})
Fresh ==
    /\ log = <<>> => last_pruned = Never
    /\ log # <<>> =>
        /\ last_pruned \in Nat
        /\ last_pruned <= Newest /\ Newest <= last_pruned + Slack
        /\ \A w \in Windows, s \in Sources : \A j \in 1..Len(recent[w][s]) :
               recent[w][s][j][1] >= last_pruned - Width[w] - Lag

\* _last_seen is the timestamp of a source's last packet, for the sources that are tracked.
OfSource(L, s) == {i \in 1..Len(L) : L[i].p.src = s}
Known ==
    \A s \in Sources :
        /\ s \in TrackedSources(recent) => OfSource(log, s) # {} /\ last_seen[s] = log[Max(OfSource(log, s))].at
        /\ s \notin TrackedSources(recent) => last_seen[s] = 0

\* The sources tracked without a packet since the last sweep are those it left.
Silent(L, deques, since) == {s \in TrackedSources(deques) : Within(L, "burst", s, 0, since) = {}}
Few == log # <<>> => Cardinality(Silent(log, recent, last_pruned - Lag)) <= MaxTracked

DetectorIInv == Shape /\ Ahead /\ DequesTrue /\ AttemptsTrue /\ Fresh /\ Known /\ Few

\* What DetectorNext says of the packet that arrives.
Arrives(p, at) == at \in Nat \ {0} /\ at >= Newest - Lag /\ Process(p, at)

-----------------------------------------------------------------------------
LEMMA InitIInv == DetectorInit => DetectorIInv
<1> SUFFICES ASSUME DetectorInit PROVE DetectorIInv OBVIOUS
<1>1. \A S : <<>> \in Seq(S) /\ Len(<<>>) = 0 BY EmptySeq
<1>2. 1..0 = {} /\ DOMAIN <<>> = {} OBVIOUS
<1>3. log = <<>> /\ Len(log) = 0 /\ 1..Len(log) = {} BY <1>1, <1>2 DEF DetectorInit
<1>4. Newest = 1
  <2>1. {log[i].at : i \in DOMAIN log} \cup {1} = {1} BY <1>2, <1>3
  <2>2. Max({1}) = 1 BY MaxIs
  <2> QED BY <2>1, <2>2 DEF Newest
<1>5. Ahead BY <1>3, <1>4 DEF Ahead
<1>6. Orderly(log) BY <1>1, <1>3 DEF Orderly
<1>7. Shape BY <1>1, <1>3, <1>6, HeuristicAssumption DEF DetectorInit, Shape, Keys
<1>8. \A w, s, a, c : Mine(log, w, s) = {} /\ Within(log, w, s, a, c) = {} BY <1>3 DEF Mine, Within
<1>9. \A key, c : Tried(log, key) = {} /\ TriedSince(log, key, c) = {} BY <1>3 DEF Tried, TriedSince
<1>10. DequesTrue
  <2>1. \A w \in Windows, s \in Sources : recent[w][s] = <<>> BY DEF DetectorInit
  <2> QED BY <1>8, <2>1, NothingReflected DEF DequesTrue
<1>11. AttemptsTrue
  <2>1. \A key \in Keys : attempts[key] = <<>> BY DEF DetectorInit, Keys
  <2> QED BY <1>9, <2>1, NothingReflected DEF AttemptsTrue
<1>12. Known BY DEF DetectorInit, Known, TrackedSources
<1>13. Fresh BY <1>3 DEF DetectorInit, Fresh
<1> QED BY <1>3, <1>5, <1>7, <1>10, <1>11, <1>12, <1>13 DEF DetectorIInv, Few

-----------------------------------------------------------------------------
(* A packet arrives.                                                       *)

\* The log and the clock after it.
LEMMA Clock ==
    ASSUME DetectorIInv, NEW p \in Packets, NEW at, Arrives(p, at)
    PROVE  LET r == [p |-> p, at |-> at]
           IN  /\ r \in Record /\ log' = Append(log, r) /\ Entry(r) = <<at, p.port>>
               /\ Len(log) \in Nat /\ Len(log)' = Len(log) + 1 /\ Len(log)' <= MaxPackets
               /\ \A i \in 1..Len(log) : log'[i] = log[i] /\ log[i] \in Record
               /\ log'[Len(log) + 1] = r
               /\ Orderly(log)'
               /\ Newest \in Nat \ {0} /\ Newest' \in Nat \ {0}
               /\ Newest' = IF at > Newest THEN at ELSE Newest
               /\ Ahead'
<1> DEFINE r == [p |-> p, at |-> at]
<1>1. r \in Record /\ log' = Append(log, r) /\ Entry(r) = <<at, p.port>>
      BY DEF Arrives, Process, Record, Entry
<1>2. Orderly(log) /\ Len(log) < MaxPackets BY DEF DetectorIInv, Shape, Arrives, Process
<1>3. /\ Len(log) \in Nat /\ Len(log') = Len(log) + 1 /\ DOMAIN log' = 1..(Len(log) + 1)
      /\ DOMAIN log = 1..Len(log)
      /\ \A i \in 1..Len(log) : log'[i] = log[i] /\ log[i] \in Record
      /\ log'[Len(log) + 1] = r /\ log' \in Seq(Record)
      BY <1>1, <1>2, LogAppended
<1>4. r.at = at OBVIOUS
<1> HIDE DEF r
<1>5. \A i \in 1..Len(log) : log[i].at \in Nat \ {0} /\ log[i].at <= Newest
      BY <1>3 DEF Record, DetectorIInv, Ahead
<1>6. Newest \in Nat \ {0}
  <2>1. Newest \in {log[i].at : i \in 1..Len(log)} \cup {1} BY DEF DetectorIInv, Ahead
  <2> QED BY <1>5, <2>1
<1>7. at \in Nat \ {0} /\ at >= Newest - Lag /\ Lag \in Nat BY HeuristicAssumption DEF Arrives
<1>8. \A i \in 1..Len(log') : i \in 1..Len(log) \/ i = Len(log) + 1 BY <1>3
<1>9. Orderly(log)'
  <2> SUFFICES ASSUME NEW i \in 1..Len(log'), NEW k \in 1..Len(log'), i < k
               PROVE  log'[k].at >= log'[i].at - Lag
      BY <1>3 DEF Orderly
  <2>1. i \in 1..Len(log) BY <1>3
  <2>2. CASE k \in 1..Len(log) BY <1>2, <1>3, <2>1, <2>2 DEF Orderly
  <2>3. CASE k = Len(log) + 1 BY <1>3, <1>4, <1>5, <1>6, <1>7, <2>1, <2>3
  <2> QED BY <1>8, <2>2, <2>3
<1> DEFINE top == IF at > Newest THEN at ELSE Newest
           T == {log'[i].at : i \in 1..Len(log')} \cup {1}
<1>10. top \in T
  <2>1. CASE at > Newest BY <1>3, <1>4, <2>1
  <2>2. CASE ~(at > Newest)
    <3>1. Newest \in {log[i].at : i \in 1..Len(log)} \cup {1} BY DEF DetectorIInv, Ahead
    <3>2. CASE Newest = 1 BY <2>2, <3>2
    <3>3. CASE Newest # 1
      <4>1. PICK i \in 1..Len(log) : Newest = log[i].at BY <3>1, <3>3
      <4>2. i \in 1..Len(log') /\ log'[i].at = Newest BY <1>3, <4>1
      <4> QED BY <2>2, <4>2
    <3> QED BY <3>2, <3>3
  <2> QED BY <2>1, <2>2
<1>11. \A i \in 1..Len(log') : log'[i].at \in Nat \ {0} /\ log'[i].at <= top
       BY <1>3, <1>4, <1>5, <1>6, <1>7, <1>8
<1>12. top \in Nat \ {0} /\ top >= 1 BY <1>6, <1>7
<1>13. T \subseteq Int /\ \A y \in T : y <= top BY <1>11, <1>12
<1>14. Newest' = top
  <2>1. Newest' = Max(T) BY <1>3 DEF Newest
  <2> HIDE DEF T, top
  <2> QED BY <1>10, <1>13, <2>1, MaxIs
<1>15. Ahead' BY <1>10, <1>11, <1>12, <1>14 DEF Ahead
<1> HIDE DEF top
<1> QED BY <1>1, <1>2, <1>3, <1>6, <1>9, <1>12, <1>14, <1>15, HeuristicAssumption DEF r, top

\* Which packets count for a window once the packet has come, and which for an attempt.
LEMMA Grown ==
    ASSUME DetectorIInv, NEW p \in Packets, NEW at, Arrives(p, at)
    PROVE  /\ \A w \in Windows, s \in Sources :
                LET fed == s = p.src /\ w \in Feeds(p)
                    kept == Within(log', w, s, evicted[s], Newest' - Width[w])
                    before == Within(log, w, s, evicted[s], Newest - Width[w])
                IN  /\ Mine(log, w, s) \subseteq 1..Len(log)
                    /\ Mine(log', w, s) \subseteq 1..Len(log')
                    /\ fed => Mine(log', w, s) = Mine(log, w, s) \cup {Len(log) + 1}
                    /\ ~fed => Mine(log', w, s) = Mine(log, w, s)
                    /\ fed => kept \subseteq before \cup {Len(log) + 1}
                    /\ ~fed => kept \subseteq before
                    /\ \A i \in kept : log'[i].at >= at - Width[w]
           /\ \A key \in Keys :
                LET hit == key = <<p.src, p.dst, p.port>>
                    kept == TriedSince(log', key, Newest' - AttemptWindow)
                    before == TriedSince(log, key, Newest - AttemptWindow)
                IN  /\ Tried(log, key) \subseteq 1..Len(log)
                    /\ Tried(log', key) \subseteq 1..Len(log')
                    /\ hit => Tried(log', key) = Tried(log, key) \cup {Len(log) + 1}
                    /\ ~hit => Tried(log', key) = Tried(log, key)
                    /\ hit => kept \subseteq before \cup {Len(log) + 1}
                    /\ ~hit => kept \subseteq before
                    /\ \A i \in kept : log'[i].at >= at - AttemptWindow
<1>1. /\ Len(log) \in Nat /\ Len(log') = Len(log) + 1
      /\ \A i \in 1..Len(log) : log'[i] = log[i] /\ log[i] \in Record
      /\ log'[Len(log) + 1].p = p /\ log'[Len(log) + 1].at = at
      /\ Newest \in Nat /\ Newest' \in Nat /\ Newest' >= Newest /\ Newest' >= at
      /\ at \in Nat
  <2>1. /\ Len(log) \in Nat /\ Len(log)' = Len(log) + 1
        /\ \A i \in 1..Len(log) : log'[i] = log[i] /\ log[i] \in Record
        /\ log'[Len(log) + 1] = [p |-> p, at |-> at]
        /\ Newest \in Nat /\ Newest' \in Nat
        /\ Newest' = IF at > Newest THEN at ELSE Newest
        BY Clock
  <2>2. at \in Nat BY DEF Arrives
  <2> QED BY <2>1, <2>2
<1>2. \A i \in 1..Len(log') : i \in 1..Len(log) \/ i = Len(log) + 1 BY <1>1
<1>3. 1..Len(log) \subseteq 1..Len(log') /\ Len(log) + 1 \in 1..Len(log') BY <1>1
<1>4. \A i \in 1..Len(log) : log[i].at \in Nat BY <1>1 DEF Record
<1>5. ASSUME NEW w \in Windows, NEW s \in Sources
      PROVE  LET fed == s = p.src /\ w \in Feeds(p)
                 kept == Within(log', w, s, evicted[s], Newest' - Width[w])
                 before == Within(log, w, s, evicted[s], Newest - Width[w])
             IN  /\ Mine(log, w, s) \subseteq 1..Len(log)
                 /\ Mine(log', w, s) \subseteq 1..Len(log')
                 /\ fed => Mine(log', w, s) = Mine(log, w, s) \cup {Len(log) + 1}
                 /\ ~fed => Mine(log', w, s) = Mine(log, w, s)
                 /\ fed => kept \subseteq before \cup {Len(log) + 1}
                 /\ ~fed => kept \subseteq before
                 /\ \A i \in kept : log'[i].at >= at - Width[w]
  <2> DEFINE fed == s = p.src /\ w \in Feeds(p)
             kept == Within(log', w, s, evicted[s], Newest' - Width[w])
             before == Within(log, w, s, evicted[s], Newest - Width[w])
  <2>1. Width[w] \in Nat BY HeuristicAssumption
  <2>2. Mine(log, w, s) \subseteq 1..Len(log) /\ Mine(log', w, s) \subseteq 1..Len(log') BY DEF Mine
  <2>3. \A i \in 1..Len(log) : i \in Mine(log', w, s) <=> i \in Mine(log, w, s) BY <1>1, <1>3 DEF Mine
  <2>4. Len(log) + 1 \in Mine(log', w, s) <=> fed BY <1>1, <1>3 DEF Mine
  <2>5. /\ fed => Mine(log', w, s) = Mine(log, w, s) \cup {Len(log) + 1}
        /\ ~fed => Mine(log', w, s) = Mine(log, w, s)
        BY <1>2, <1>3, <2>2, <2>3, <2>4
  <2>6. ASSUME NEW i \in kept, i \in Mine(log, w, s) PROVE i \in before
    <3>1. log'[i] = log[i] /\ log[i].at \in Nat BY <1>1, <1>4, <2>2, <2>6
    <3>2. i > evicted[s] /\ log'[i].at >= Newest' - Width[w] BY DEF Within
    <3>3. log[i].at >= Newest - Width[w] BY <1>1, <2>1, <3>1, <3>2
    <3> QED BY <2>6, <3>2, <3>3 DEF Within
  <2>7. kept \subseteq Mine(log', w, s) BY DEF Within
  <2>8. ASSUME NEW i \in kept PROVE log'[i].at >= at - Width[w]
    <3>1. i \in 1..Len(log) \/ i = Len(log) + 1 BY <1>2, <2>2, <2>7
    <3>2. log'[i].at \in Nat BY <1>1, <1>4, <3>1
    <3>3. log'[i].at >= Newest' - Width[w] BY DEF Within
    <3> QED BY <1>1, <2>1, <3>2, <3>3
  <2> HIDE DEF kept, before, fed
  <2>9. /\ fed => kept \subseteq before \cup {Len(log) + 1}
        /\ ~fed => kept \subseteq before
        BY <2>5, <2>6, <2>7
  <2> QED BY <2>2, <2>5, <2>8, <2>9 DEF kept, before, fed
<1>6. ASSUME NEW key \in Keys
      PROVE  LET hit == key = <<p.src, p.dst, p.port>>
                 kept == TriedSince(log', key, Newest' - AttemptWindow)
                 before == TriedSince(log, key, Newest - AttemptWindow)
             IN  /\ Tried(log, key) \subseteq 1..Len(log)
                 /\ Tried(log', key) \subseteq 1..Len(log')
                 /\ hit => Tried(log', key) = Tried(log, key) \cup {Len(log) + 1}
                 /\ ~hit => Tried(log', key) = Tried(log, key)
                 /\ hit => kept \subseteq before \cup {Len(log) + 1}
                 /\ ~hit => kept \subseteq before
                 /\ \A i \in kept : log'[i].at >= at - AttemptWindow
  <2> DEFINE hit == key = <<p.src, p.dst, p.port>>
             kept == TriedSince(log', key, Newest' - AttemptWindow)
             before == TriedSince(log, key, Newest - AttemptWindow)
  <2>1. AttemptWindow \in Nat BY HeuristicAssumption
  <2>2. Tried(log, key) \subseteq 1..Len(log) /\ Tried(log', key) \subseteq 1..Len(log') BY DEF Tried
  <2>3. \A i \in 1..Len(log) : i \in Tried(log', key) <=> i \in Tried(log, key) BY <1>1, <1>3 DEF Tried
  <2>4. Len(log) + 1 \in Tried(log', key) <=> hit BY <1>1, <1>3 DEF Tried
  <2>5. /\ hit => Tried(log', key) = Tried(log, key) \cup {Len(log) + 1}
        /\ ~hit => Tried(log', key) = Tried(log, key)
        BY <1>2, <1>3, <2>2, <2>3, <2>4
  <2>6. ASSUME NEW i \in kept, i \in Tried(log, key) PROVE i \in before
    <3>1. log'[i] = log[i] /\ log[i].at \in Nat BY <1>1, <1>4, <2>2, <2>6
    <3>2. log'[i].at >= Newest' - AttemptWindow BY DEF TriedSince
    <3>3. log[i].at >= Newest - AttemptWindow BY <1>1, <2>1, <3>1, <3>2
    <3> QED BY <2>6, <3>3 DEF TriedSince
  <2>7. kept \subseteq Tried(log', key) BY DEF TriedSince
  <2>8. ASSUME NEW i \in kept PROVE log'[i].at >= at - AttemptWindow
    <3>1. i \in 1..Len(log) \/ i = Len(log) + 1 BY <1>2, <2>2, <2>7
    <3>2. log'[i].at \in Nat BY <1>1, <1>4, <3>1
    <3>3. log'[i].at >= Newest' - AttemptWindow BY DEF TriedSince
    <3> QED BY <1>1, <2>1, <3>2, <3>3
  <2> HIDE DEF kept, before, hit
  <2>9. /\ hit => kept \subseteq before \cup {Len(log) + 1}
        /\ ~hit => kept \subseteq before
        BY <2>5, <2>6, <2>7
  <2> QED BY <2>2, <2>5, <2>8, <2>9 DEF kept, before, hit
<1> QED BY <1>5, <1>6

\* The deques once the packet is appended.
LEMMA AfterAppend ==
    ASSUME DetectorIInv, NEW p \in Packets, NEW at, Arrives(p, at), NEW w \in Windows, NEW s \in Sources
    PROVE  LET q == Appended(p, at)[w][s]
               fed == s = p.src /\ w \in Feeds(p)
           IN  /\ Reflects(q, log', Mine(log', w, s),
                           Within(log', w, s, evicted[s], Newest' - Width[w]))
               /\ fed => /\ q # <<>> /\ q[Len(q)][1] = at
                         /\ \A j \in 1..Len(q) : q[j][1] >= at - Width[w] - Lag
               /\ ~fed => q = recent[w][s]
               /\ \A j \in 1..Len(q) : q[j][1] = at \/ \E k \in 1..Len(recent[w][s]) : q[j] = recent[w][s][k]
<1> DEFINE q == Appended(p, at)[w][s]
           r == [p |-> p, at |-> at]
           fed == s = p.src /\ w \in Feeds(p)
           mine == Mine(log, w, s)
           kept == Within(log', w, s, evicted[s], Newest' - Width[w])
           before == Within(log, w, s, evicted[s], Newest - Width[w])
<1>1. /\ r \in Record /\ log' = Append(log, r) /\ Entry(r) = <<at, p.port>>
      /\ Orderly(log') /\ Len(log) \in Nat
      BY Clock
<1>2. Orderly(log) BY DEF DetectorIInv, Shape
<1>3. /\ mine \subseteq 1..Len(log) /\ Mine(log', w, s) \subseteq 1..Len(log')
      /\ fed => Mine(log', w, s) = mine \cup {Len(log) + 1}
      /\ ~fed => Mine(log', w, s) = mine
      /\ fed => kept \subseteq before \cup {Len(log) + 1}
      /\ ~fed => kept \subseteq before
      /\ \A i \in kept : log'[i].at >= at - Width[w]
      BY Grown
<1>4. Reflects(recent[w][s], log, mine, before) BY DEF DetectorIInv, DequesTrue
<1>5. recent \in [Windows -> [Sources -> Seq(Entries)]] BY DEF DetectorIInv, Shape
<1>6. Width[w] \in Nat /\ Lag \in Nat /\ at \in Nat BY HeuristicAssumption DEF Arrives
<1> HIDE DEF r, mine, kept, before
<1>7. CASE ~fed
  <2>1. q = recent[w][s] BY <1>5, <1>7 DEF Appended
  <2>2. Reflects(q, log', Mine(log', w, s), kept) BY <1>1, <1>2, <1>3, <1>4, <1>7, <2>1, StillReflected
  <2> QED BY <1>7, <2>1, <2>2 DEF kept
<1>8. CASE fed
  <2> DEFINE new == Append(recent[w][s], Entry(r))
             c == at - Width[w]
  <2>1. q = Trimmed(new, c) BY <1>1, <1>5, <1>8 DEF Appended
  <2>2. Reflects(new, log', Mine(log', w, s), before \cup {Len(log) + 1})
        BY <1>1, <1>2, <1>3, <1>4, <1>8, NewReflected
  <2>3. c \in Int BY <1>6
  <2>4. new \in Seq(Entries) /\ Len(new) \in Nat BY <2>2, LenProperties DEF Reflects
  <2>5. /\ Len(new) = Len(recent[w][s]) + 1 /\ new[Len(new)] = Entry(r) /\ Len(recent[w][s]) \in Nat
        /\ \A k \in 1..Len(recent[w][s]) : new[k] = recent[w][s][k]
    <3>1. recent[w][s] \in Seq(Entries) /\ Entry(r) \in Entries BY <1>1, <1>5 DEF Record, Entry, Entries
    <3> QED BY <3>1, AppendProperties, LenProperties
  <2> HIDE DEF c, new, q
  <2>6. Reflects(q, log', Mine(log', w, s), kept)
    <3>1. kept \subseteq before \cup {Len(log) + 1} BY <1>3, <1>8
    <3>2. \A i \in kept : log'[i].at >= c BY <1>3 DEF c
    <3> QED BY <2>1, <2>2, <2>3, <3>1, <3>2, TrimmedReflected
  <2>7. \A j \in 1..Len(q) : q[j][1] >= c - Lag
        BY <1>1, <1>3, <1>6, <2>1, <2>2, <2>3, TrimmedIsRecent
  <2>8. q # <<>> /\ q[Len(q)][1] = at
    <3>1. new[Len(new)][1] = at BY <1>1, <2>5
    <3>2. new # <<>>
      <4>1. Len(<<>>) = 0 BY EmptySeq
      <4> QED BY <2>5, <4>1
    <3>3. at >= c BY <1>6 DEF c
    <3> QED BY <2>1, <2>3, <2>4, <3>1, <3>2, <3>3, LastIsKept
  <2>9. \A j \in 1..Len(q) : q[j][1] = at \/ \E k \in 1..Len(recent[w][s]) : q[j] = recent[w][s][k]
    <3>1. PICK k \in 1..(Len(new) + 1) :
            /\ Len(q) = Len(new) + 1 - k
            /\ \A i \in 1..(Len(new) + 1 - k) : q[i] = new[k + i - 1]
          BY <2>1, <2>3, <2>4, TrimmedIs
    <3> SUFFICES ASSUME NEW j \in 1..Len(q)
                 PROVE  q[j][1] = at \/ \E i \in 1..Len(recent[w][s]) : q[j] = recent[w][s][i]
        OBVIOUS
    <3>2. q[j] = new[k + j - 1] /\ k + j - 1 \in 1..Len(new) BY <2>4, <3>1
    <3>3. k + j - 1 = Len(new) \/ k + j - 1 \in 1..Len(recent[w][s]) BY <2>5, <3>2
    <3>4. new[Len(new)][1] = at BY <1>1, <2>5
    <3> QED BY <2>5, <3>2, <3>3, <3>4
  <2> QED BY <1>8, <2>6, <2>7, <2>8, <2>9 DEF q, kept, c
<1> QED BY <1>7, <1>8

\* The deques once the sweep has run, if it was due: as true as before, and with nothing
\* older than the last sweep allows.
LastSweep(at) == IF PruneDue(at) THEN at ELSE last_pruned

LEMMA AfterSweep ==
    ASSUME DetectorIInv, NEW p \in Packets, NEW at, Arrives(p, at), NEW w \in Windows, NEW s \in Sources
    PROVE  LET q == Swept(Appended(p, at), at)[w][s]
               fed == s = p.src /\ w \in Feeds(p)
           IN  /\ Reflects(q, log', Mine(log', w, s),
                           Within(log', w, s, evicted[s], Newest' - Width[w]))
               /\ fed => q # <<>> /\ \A j \in 1..Len(q) : q[j][1] >= at - Width[w] - Lag
               /\ \A j \in 1..Len(q) : q[j][1] >= LastSweep(at) - Width[w] - Lag
               /\ q # <<>> => recent[w][s] # <<>> \/ fed
<1> DEFINE q == Swept(Appended(p, at), at)[w][s]
           a == Appended(p, at)[w][s]
           fed == s = p.src /\ w \in Feeds(p)
           mine == Mine(log', w, s)
           kept == Within(log', w, s, evicted[s], Newest' - Width[w])
           c == at - Width[w]
<1>1. /\ Reflects(a, log', mine, kept)
      /\ fed => /\ a # <<>> /\ a[Len(a)][1] = at
                /\ \A j \in 1..Len(a) : a[j][1] >= c - Lag
      /\ ~fed => a = recent[w][s]
      /\ \A j \in 1..Len(a) : a[j][1] = at \/ \E k \in 1..Len(recent[w][s]) : a[j] = recent[w][s][k]
      BY AfterAppend
<1>2. mine \subseteq 1..Len(log') /\ \A i \in kept : log'[i].at >= c BY Grown
<1>3. Width[w] \in Nat /\ Lag \in Nat /\ at \in Nat /\ PruneInterval \in Nat \ {0} /\ c \in Int
      BY HeuristicAssumption DEF Arrives
<1>4. a \in Seq(Entries) /\ Len(a) \in Nat BY <1>1, LenProperties DEF Reflects
<1>5. /\ Orderly(log') /\ (log = <<>> => Len(log) = 0) /\ log \in Seq(Record) BY Clock, EmptySeq DEF DetectorIInv, Shape, Orderly
<1>6. \A j \in 1..Len(a) : a[j] \in Entries BY <1>4, ElementOfSeq
<1> HIDE DEF kept, mine, a
<1>7. CASE PruneDue(at)
  <2>1. q = Trimmed(a, c) BY <1>7 DEF Swept, a
  <2>2. LastSweep(at) = at BY <1>7 DEF LastSweep
  <2> HIDE DEF c, q
  <2>3. Reflects(q, log', mine, kept) BY <1>1, <1>2, <1>3, <2>1, TrimmedReflected
  <2>4. \A j \in 1..Len(q) : q[j][1] >= c - Lag BY <1>1, <1>2, <1>3, <1>5, <2>1, TrimmedIsRecent
  <2>5. PICK k \in 1..(Len(a) + 1) :
          /\ Len(q) = Len(a) + 1 - k
          /\ \A i \in 1..(k - 1) : a[i][1] < c
          /\ q \in Seq(Entries)
        BY <1>3, <1>4, <2>1, TrimmedIs
  <2>6. a = <<>> => q = <<>>
    <3>1. Len(<<>>) = 0 BY EmptySeq
    <3>2. a = <<>> => Len(q) = 0 BY <2>5, <3>1
    <3> QED BY <2>5, <3>2, EmptySeq
  <2>7. fed => q # <<>>
    <3>1. at >= c BY <1>3 DEF c
    <3> QED BY <1>1, <1>3, <1>4, <2>1, <3>1, LastIsKept
  <2>8. q # <<>> => recent[w][s] # <<>> \/ fed BY <1>1, <2>6
  <2> QED BY <2>2, <2>3, <2>4, <2>7, <2>8 DEF q, c, kept, mine
<1>8. CASE ~PruneDue(at)
  <2>1. q = a /\ LastSweep(at) = last_pruned BY <1>8 DEF Swept, a, LastSweep
  <2>2. log # <<>> /\ last_pruned \in Nat /\ last_pruned <= Newest /\ Newest \in Nat
    <3>1. last_pruned # Never BY <1>8 DEF PruneDue
    <3>2. log # <<>> BY <3>1 DEF DetectorIInv, Fresh
    <3> QED BY <3>2, Clock DEF DetectorIInv, Fresh
  <2>3. ASSUME NEW j \in 1..Len(a) PROVE a[j][1] >= last_pruned - Width[w] - Lag
    <3>1. CASE a[j][1] = at
      <4>1. at >= Newest - Lag BY DEF Arrives
      <4> QED BY <1>3, <2>2, <3>1, <4>1
    <3>2. ASSUME NEW k \in 1..Len(recent[w][s]), a[j] = recent[w][s][k]
          PROVE  a[j][1] >= last_pruned - Width[w] - Lag
          BY <2>2, <3>2 DEF DetectorIInv, Fresh
    <3> QED BY <1>1, <3>1, <3>2
  <2> QED BY <1>1, <2>1, <2>3 DEF kept, mine, c
<1> QED BY <1>7, <1>8

-----------------------------------------------------------------------------
(* The packet is evaluated: each part of the invariant afterwards.         *)

\* What evaluate_packet does when the sources in gone are evicted.
Evicts(p, at, gone) ==
    LET swept == Swept(Appended(p, at), at)
    IN  /\ gone \in Evictions(swept, Seen(p, at), at)
        /\ recent' = Without(swept, gone)
        /\ last_seen' = Kept(Seen(p, at), TrackedSources(recent'))
        /\ evicted' = [s \in Sources |-> IF s \in gone THEN Len(log) + 1 ELSE evicted[s]]

LEMMA Evaluated ==
    ASSUME NEW p, NEW at, Arrives(p, at)
    PROVE  \E gone : Evicts(p, at, gone) /\ last_pruned' = LastSweep(at)
BY DEF Arrives, Process, EvaluatePacket, Evicts, LastSweep

\* The deques after it, and who is tracked.
LEMMA AfterEviction ==
    ASSUME DetectorIInv, NEW p \in Packets, NEW at, Arrives(p, at), NEW gone, Evicts(p, at, gone)
    PROVE  LET swept == Swept(Appended(p, at), at)
           IN  /\ gone \subseteq TrackedSources(swept) /\ TrackedSources(swept) \subseteq Sources
               /\ recent' \in [Windows -> [Sources -> Seq(Entries)]]
               /\ \A w \in Windows, s \in Sources :
                    recent'[w][s] = IF s \in gone THEN <<>> ELSE swept[w][s]
               /\ TrackedSources(recent)' = TrackedSources(swept) \ gone
               /\ TrackedSources(swept) \subseteq TrackedSources(recent) \cup {p.src}
               /\ p.src \in TrackedSources(swept)
<1> DEFINE swept == Swept(Appended(p, at), at)
<1>1. gone \subseteq TrackedSources(swept) BY DEF Evicts, Evictions
<1>2. TrackedSources(swept) \subseteq Sources BY DEF TrackedSources
<1>3. \A w \in Windows, s \in Sources :
        /\ recent'[w][s] = IF s \in gone THEN <<>> ELSE swept[w][s]
        /\ swept[w][s] \in Seq(Entries)
        /\ s = p.src /\ w \in Feeds(p) => swept[w][s] # <<>>
        /\ swept[w][s] # <<>> => recent[w][s] # <<>> \/ s = p.src
  <2> SUFFICES ASSUME NEW w \in Windows, NEW s \in Sources
               PROVE  /\ recent'[w][s] = IF s \in gone THEN <<>> ELSE swept[w][s]
                      /\ swept[w][s] \in Seq(Entries)
                      /\ s = p.src /\ w \in Feeds(p) => swept[w][s] # <<>>
                      /\ swept[w][s] # <<>> => recent[w][s] # <<>> \/ s = p.src
      OBVIOUS
  <2>1. recent' = Without(swept, gone) BY DEF Evicts
  <2>2. recent'[w][s] = IF s \in gone THEN <<>> ELSE swept[w][s] BY <2>1 DEF Without
  <2> QED BY <2>2, AfterSweep DEF Reflects
<1>4. recent' \in [Windows -> [Sources -> Seq(Entries)]]
  <2>1. recent' = Without(swept, gone) BY DEF Evicts
  <2>2. \A s : <<>> \in Seq(Entries) BY EmptySeq
  <2> HIDE DEF swept
  <2> QED BY <1>3, <2>1, <2>2 DEF Without
<1> HIDE DEF swept
<1>5. TrackedSources(recent') = TrackedSources(swept) \ gone BY <1>3 DEF TrackedSources
<1>6. TrackedSources(swept) \subseteq TrackedSources(recent) \cup {p.src} BY <1>3 DEF TrackedSources
<1>7. p.src \in TrackedSources(swept)
  <2>1. p.src \in Sources /\ "burst" \in Windows /\ "burst" \in Feeds(p)
        BY HeuristicAssumption DEF Windows, Feeds
  <2> QED BY <1>3, <2>1 DEF TrackedSources
<1> QED BY <1>1, <1>2, <1>3, <1>4, <1>5, <1>6, <1>7 DEF swept

LEMMA DequesStayTrue ==
    ASSUME DetectorIInv, NEW p \in Packets, NEW at, Arrives(p, at)
    PROVE  DequesTrue'
<1>1. PICK gone : Evicts(p, at, gone) BY Evaluated
<1> SUFFICES ASSUME NEW w \in Windows, NEW s \in Sources
             PROVE  Reflects(recent'[w][s], log', Mine(log', w, s),
                             Within(log', w, s, evicted'[s], Newest' - Width[w]))
    BY DEF DequesTrue
<1>2. recent'[w][s] = IF s \in gone THEN <<>> ELSE Swept(Appended(p, at), at)[w][s]
      BY <1>1, AfterEviction
<1>3. evicted'[s] = IF s \in gone THEN Len(log) + 1 ELSE evicted[s] BY <1>1 DEF Evicts
<1>4. CASE s \in gone
  <2>1. Len(log) \in Nat /\ Len(log)' = Len(log) + 1 BY Clock
  <2>2. \A i \in 1..Len(log') : ~(i > Len(log) + 1) BY <2>1
  <2>3. Within(log', w, s, evicted'[s], Newest' - Width[w]) = {}
        BY <1>3, <1>4, <2>2 DEF Within, Mine
  <2> QED BY <1>2, <1>4, <2>3, NothingReflected
<1>5. CASE s \notin gone BY <1>2, <1>3, <1>5, AfterSweep
<1> QED BY <1>4, <1>5

\* The attempts of a key after it, none too old when the packet is one of them.
LEMMA AttemptsStayTrue ==
    ASSUME DetectorIInv, NEW p \in Packets, NEW at, Arrives(p, at)
    PROVE  /\ attempts' \in [Keys -> Seq(Entries)]
           /\ AttemptsTrue'
           /\ LET key == <<p.src, p.dst, p.port>>
              IN  key \in Keys =>
                    \A j \in 1..Len(attempts'[key]) : attempts'[key][j][1] >= at - AttemptWindow - Lag
<1> DEFINE mine(key) == Tried(log', key)
           kept(key) == TriedSince(log', key, Newest' - AttemptWindow)
           own == <<p.src, p.dst, p.port>>
           r == [p |-> p, at |-> at]
           new == Append(attempts[own], Entry(r))
           c == at - AttemptWindow
<1>1. /\ r \in Record /\ log' = Append(log, r) /\ Entry(r) = <<at, p.port>> /\ Orderly(log')
      BY Clock
<1>2. Orderly(log) /\ attempts \in [Keys -> Seq(Entries)] BY DEF DetectorIInv, Shape
<1>3. c \in Int /\ Lag \in Nat BY HeuristicAssumption DEF Arrives
<1>4. own \in Keys => p.port \in ServicePorts BY DEF Keys
<1>5. p.port \in ServicePorts => own \in Keys BY HeuristicAssumption DEF Keys
<1>6. attempts' = IF p.port \in ServicePorts
                  THEN [attempts EXCEPT ![own] = Trimmed(Append(@, Entry(r)), c)] ELSE attempts
      BY <1>1 DEF Arrives, Process, RecordAttempt
<1> HIDE DEF r, c, kept
<1>7. ASSUME NEW key \in Keys, key # own
      PROVE  attempts'[key] = attempts[key] /\ Reflects(attempts'[key], log', mine(key), kept(key))
  <2>1. attempts'[key] = attempts[key] BY <1>2, <1>6, <1>7
  <2>2. Reflects(attempts[key], log, Tried(log, key), TriedSince(log, key, Newest - AttemptWindow))
        BY DEF DetectorIInv, AttemptsTrue
  <2>3. /\ Tried(log, key) \subseteq 1..Len(log) /\ mine(key) = Tried(log, key)
        /\ kept(key) \subseteq TriedSince(log, key, Newest - AttemptWindow)
        BY <1>7, Grown DEF kept
  <2> QED BY <1>1, <1>2, <2>1, <2>2, <2>3, StillReflected
<1>8. ASSUME own \in Keys
      PROVE  /\ Reflects(attempts'[own], log', mine(own), kept(own))
             /\ \A j \in 1..Len(attempts'[own]) : attempts'[own][j][1] >= c - Lag
  <2>1. attempts'[own] = Trimmed(new, c) BY <1>2, <1>4, <1>6, <1>8
  <2>2. Reflects(attempts[own], log, Tried(log, own), TriedSince(log, own, Newest - AttemptWindow))
        BY <1>8 DEF DetectorIInv, AttemptsTrue
  <2>3. /\ Tried(log, own) \subseteq 1..Len(log) /\ mine(own) \subseteq 1..Len(log')
        /\ mine(own) = Tried(log, own) \cup {Len(log) + 1}
        /\ kept(own) \subseteq TriedSince(log, own, Newest - AttemptWindow) \cup {Len(log) + 1}
        /\ \A i \in kept(own) : log'[i].at >= c
        BY <1>8, Grown DEF kept, c
  <2>4. Reflects(new, log', mine(own),
                 TriedSince(log, own, Newest - AttemptWindow) \cup {Len(log) + 1})
    <3> HIDE DEF own
    <3>1. r \in Record /\ Orderly(log) /\ Tried(log, own) \subseteq 1..Len(log) BY <1>1, <1>2, <2>3
    <3>2. Reflects(new, Append(log, r), Tried(log, own) \cup {Len(log) + 1},
                   TriedSince(log, own, Newest - AttemptWindow) \cup {Len(log) + 1})
          BY <2>2, <3>1, NewReflected
    <3> HIDE DEF new, mine
    <3> QED BY <1>1, <2>3, <3>2
  <2> HIDE DEF new, own, mine
  <2>5. Reflects(attempts'[own], log', mine(own), kept(own))
        BY <1>3, <2>1, <2>3, <2>4, TrimmedReflected
  <2>6. \A j \in 1..Len(attempts'[own]) : attempts'[own][j][1] >= c - Lag
        BY <1>1, <1>3, <2>1, <2>3, <2>4, TrimmedIsRecent
  <2> QED BY <2>5, <2>6
<1>9. AttemptsTrue' BY <1>7, <1>8 DEF AttemptsTrue, kept
<1>10. attempts' \in [Keys -> Seq(Entries)]
  <2>1. own \in Keys => attempts'[own] \in Seq(Entries) BY <1>8 DEF Reflects
  <2>2. \A key \in Keys : attempts'[key] \in Seq(Entries) BY <1>2, <1>7, <2>1
  <2>3. DOMAIN attempts' = Keys /\ attempts' = [key \in DOMAIN attempts' |-> attempts'[key]]
        BY <1>2, <1>6
  <2> QED BY <2>2, <2>3
<1> QED BY <1>8, <1>9, <1>10 DEF c

LEMMA SlackIs == Slack \in Nat /\ Slack >= PruneInterval - 1 /\ Slack >= Lag
<1>1. PruneInterval - 1 \in Nat /\ Lag \in Nat BY HeuristicAssumption
<1> DEFINE m == IF PruneInterval - 1 >= Lag THEN PruneInterval - 1 ELSE Lag
           S == {PruneInterval - 1, Lag}
<1>2. m \in S /\ S \subseteq Int /\ \A y \in S : y <= m BY <1>1
<1>3. Max(S) = m
  <2> HIDE DEF m, S
  <2> QED BY <1>2, MaxIs
<1> QED BY <1>1, <1>3 DEF Slack

LEMMA StaysFresh ==
    ASSUME DetectorIInv, NEW p \in Packets, NEW at, Arrives(p, at)
    PROVE  Fresh'
<1>1. PICK gone : Evicts(p, at, gone) /\ last_pruned' = LastSweep(at) BY Evaluated
<1>2. /\ Len(log) \in Nat /\ Len(log)' = Len(log) + 1
      /\ Newest \in Nat /\ Newest' \in Nat
      /\ Newest' = IF at > Newest THEN at ELSE Newest
      BY Clock
<1>3. at \in Nat /\ at >= Newest - Lag /\ Lag \in Nat /\ PruneInterval \in Nat \ {0}
      BY HeuristicAssumption DEF Arrives
<1>4. log' # <<>>
  <2>1. Len(<<>>) = 0 BY EmptySeq
  <2> QED BY <1>2, <2>1
<1>5. /\ last_pruned' \in Nat
      /\ last_pruned' <= Newest' /\ Newest' <= last_pruned' + Slack
  <2>1. CASE PruneDue(at)
    <3>1. last_pruned' = at BY <1>1, <2>1 DEF LastSweep
    <3> QED BY <1>2, <1>3, <3>1, SlackIs
  <2>2. CASE ~PruneDue(at)
    <3>1. last_pruned' = last_pruned /\ last_pruned # Never BY <1>1, <2>2 DEF LastSweep, PruneDue
    <3>2. last_pruned \in Nat /\ last_pruned <= Newest /\ Newest <= last_pruned + Slack
          BY <3>1 DEF DetectorIInv, Fresh
    <3>3. ~(at - last_pruned >= PruneInterval) BY <2>2 DEF PruneDue
    <3>4. at <= last_pruned + (PruneInterval - 1) BY <1>3, <3>2, <3>3
    <3> QED BY <1>2, <1>3, <3>1, <3>2, <3>4, SlackIs
  <2> QED BY <2>1, <2>2
<1>6. ASSUME NEW w \in Windows, NEW s \in Sources, NEW j \in 1..Len(recent'[w][s])
      PROVE  recent'[w][s][j][1] >= last_pruned' - Width[w] - Lag
  <2>1. recent'[w][s] = IF s \in gone THEN <<>> ELSE Swept(Appended(p, at), at)[w][s]
        BY <1>1, AfterEviction
  <2>2. s \notin gone
    <3>1. Len(<<>>) = 0 BY EmptySeq
    <3> QED BY <2>1, <3>1
  <2> QED BY <1>1, <2>1, <2>2, AfterSweep
<1> QED BY <1>4, <1>5, <1>6 DEF Fresh

\* Whoever is tracked after the packet is seen at its last packet.
LEMMA SeenLast ==
    ASSUME DetectorIInv, NEW p \in Packets, NEW at, Arrives(p, at),
           NEW s \in TrackedSources(Swept(Appended(p, at), at))
    PROVE  /\ OfSource(log', s) # {}
           /\ Seen(p, at)[s] = log'[Max(OfSource(log', s))].at
           /\ Max(OfSource(log', s)) \in OfSource(log', s)
<1>1. s \in Sources /\ (s = p.src \/ s \in TrackedSources(recent))
  <2>1. PICK gone : Evicts(p, at, gone) BY Evaluated
  <2> QED BY <2>1, AfterEviction
<1>2. /\ Len(log) \in Nat /\ Len(log') = Len(log) + 1
      /\ \A i \in 1..Len(log) : log'[i] = log[i]
      /\ log'[Len(log) + 1] = [p |-> p, at |-> at]
      BY Clock
<1>3. /\ OfSource(log', s) \subseteq 1..Len(log') /\ Len(log') \in Nat
      /\ OfSource(log, s) \subseteq 1..Len(log)
      BY <1>2 DEF OfSource
<1>4. last_seen \in [Sources -> Nat] BY DEF DetectorIInv, Shape
<1>5. CASE s = p.src
  <2>1. Len(log) + 1 \in OfSource(log', s) BY <1>2, <1>5 DEF OfSource
  <2>2. \A i \in OfSource(log', s) : i <= Len(log) + 1 BY <1>2, <1>3
  <2>3. OfSource(log', s) \subseteq Int BY <1>3
  <2>4. Max(OfSource(log', s)) = Len(log) + 1 BY <2>1, <2>2, <2>3, MaxIs
  <2>5. Seen(p, at)[s] = at BY <1>1, <1>4, <1>5 DEF Seen
  <2> QED BY <1>2, <2>1, <2>4, <2>5
<1>6. CASE s # p.src
  <2>1. OfSource(log, s) # {} /\ last_seen[s] = log[Max(OfSource(log, s))].at
        BY <1>1, <1>6 DEF DetectorIInv, Known
  <2>2. OfSource(log', s) = OfSource(log, s)
    <3>1. \A i \in 1..Len(log') : i \in 1..Len(log) \/ i = Len(log) + 1 BY <1>2
    <3>2. 1..Len(log) \subseteq 1..Len(log') BY <1>2
    <3>3. Len(log) + 1 \notin OfSource(log', s) BY <1>2, <1>6 DEF OfSource
    <3>4. \A i \in 1..Len(log) : i \in OfSource(log', s) <=> i \in OfSource(log, s)
          BY <1>2, <3>2 DEF OfSource
    <3> QED BY <1>3, <3>1, <3>3, <3>4
  <2>3. Max(OfSource(log, s)) \in OfSource(log, s) BY <1>2, <1>3, <2>1, LastIndex
  <2>4. Seen(p, at)[s] = last_seen[s] BY <1>1, <1>4, <1>6 DEF Seen
  <2> QED BY <1>2, <1>3, <2>1, <2>2, <2>3, <2>4
<1> QED BY <1>5, <1>6

LEMMA StaysKnown ==
    ASSUME DetectorIInv, NEW p \in Packets, NEW at, Arrives(p, at)
    PROVE  Known' /\ last_seen' \in [Sources -> Nat]
<1>1. PICK gone : Evicts(p, at, gone) BY Evaluated
<1>2. /\ TrackedSources(recent)' \subseteq TrackedSources(Swept(Appended(p, at), at))
      BY <1>1, AfterEviction
<1>3. last_seen' = [s \in Sources |-> IF s \in TrackedSources(recent') THEN Seen(p, at)[s] ELSE 0]
      BY <1>1 DEF Evicts, Kept
<1>4. Known' BY <1>2, <1>3, SeenLast DEF Known
<1>5. Seen(p, at) \in [Sources -> Nat] BY DEF Seen, DetectorIInv, Shape, Arrives
<1> QED BY <1>3, <1>4, <1>5

LEMMA TrackedSourcesFinite ==
    ASSUME DetectorIInv
    PROVE  IsFiniteSet(TrackedSources(recent)) /\ (log = <<>> => TrackedSources(recent) = {})
<1>1. Len(log) \in Nat /\ (log = <<>> => Len(log) = 0)
  <2>1. log \in Seq(Record) BY DEF DetectorIInv, Shape, Orderly
  <2> QED BY <2>1, LenProperties, EmptySeq
<1> DEFINE S == {log[i].p.src : i \in 1..Len(log)}
           g == [i \in 1..Len(log) |-> log[i].p.src]
<1>2. g \in Surjection(1..Len(log), S) BY DEF Surjection
<1>3. IsFiniteSet(1..Len(log)) BY <1>1, FS_Interval
<1>4. TrackedSources(recent) \subseteq S
  <2> SUFFICES ASSUME NEW s \in TrackedSources(recent) PROVE s \in S OBVIOUS
  <2>1. s \in Sources BY DEF TrackedSources
  <2>2. OfSource(log, s) # {} BY <2>1 DEF DetectorIInv, Known
  <2> QED BY <2>2 DEF OfSource
<1>5. log = <<>> => S = {} BY <1>1
<1> HIDE DEF S, g
<1>6. IsFiniteSet(S) BY <1>2, <1>3, FS_Surjection
<1> QED BY <1>4, <1>5, <1>6, FS_Subset

\* The eviction leaves as many as max_tracked_ips allows.
LEMMA AfterDueSweep ==
    ASSUME NEW deques, NEW seen, NEW at, PruneDue(at), IsFiniteSet(TrackedSources(deques)),
           NEW gone \in Evictions(deques, seen, at)
    PROVE  /\ IsFiniteSet(TrackedSources(deques) \ gone)
           /\ Cardinality(TrackedSources(deques) \ gone) <= MaxTracked
<1> DEFINE T == TrackedSources(deques)
           overflow == Cardinality(T) - MaxTracked
<1>1. MaxTracked \in Nat /\ Cardinality(T) \in Nat BY HeuristicAssumption, FS_CardinalityType
<1>2. gone \subseteq T /\ Cardinality(gone) = IF overflow > 0 THEN overflow ELSE 0 BY DEF Evictions
<1> HIDE DEF T
<1>3. IsFiniteSet(T) BY DEF T
<1>4. /\ IsFiniteSet(gone) /\ Cardinality(gone) \in Nat
      /\ IsFiniteSet(T \ gone) /\ Cardinality(T \ gone) \in Nat
      BY <1>2, <1>3, FS_Subset, FS_CardinalityType
<1>5. Cardinality(T) = Cardinality(gone) + Cardinality(T \ gone)
  <2>1. gone \cup (T \ gone) = T /\ gone \cap (T \ gone) = {} BY <1>2
  <2>2. Cardinality({}) = 0 BY FS_EmptySet
  <2> DEFINE rest == T \ gone
  <2>3. IsFiniteSet(gone) /\ IsFiniteSet(rest) /\ gone \cup rest = T /\ gone \cap rest = {}
        BY <1>4, <2>1
  <2>4. Cardinality(gone) \in Nat /\ Cardinality(rest) \in Nat BY <1>4
  <2> HIDE DEF rest
  <2>5. Cardinality(gone \cup rest)
            = Cardinality(gone) + Cardinality(rest) - Cardinality(gone \cap rest)
        BY <2>3, FS_Union
  <2>6. Cardinality(gone \cup rest) = Cardinality(T) /\ Cardinality(gone \cap rest) = 0 BY <2>2, <2>3
  <2>7. Cardinality(T) = Cardinality(gone) + Cardinality(rest) BY <2>4, <2>5, <2>6
  <2> QED BY <2>7 DEF rest
<1>6. Cardinality(T \ gone) <= MaxTracked
  <2>1. CASE overflow > 0 BY <1>1, <1>2, <1>4, <1>5, <2>1
  <2>2. CASE ~(overflow > 0) BY <1>1, <1>2, <1>4, <1>5, <2>2
  <2> QED BY <2>1, <2>2
<1> QED BY <1>4, <1>6 DEF T

LEMMA NoEviction ==
    ASSUME NEW deques, NEW seen, NEW at, ~PruneDue(at), IsFiniteSet(TrackedSources(deques)),
           NEW gone \in Evictions(deques, seen, at)
    PROVE  gone = {}
<1>1. gone \subseteq TrackedSources(deques) /\ Cardinality(gone) = 0 BY DEF Evictions
<1> QED BY <1>1, FS_Subset, FS_EmptySet

LEMMA StaysFew ==
    ASSUME DetectorIInv, NEW p \in Packets, NEW at, Arrives(p, at)
    PROVE  Few'
<1>1. PICK gone : Evicts(p, at, gone) /\ last_pruned' = LastSweep(at) BY Evaluated
<1> DEFINE swept == Swept(Appended(p, at), at)
           left == Silent(log', recent', last_pruned' - Lag)
<1>2. /\ TrackedSources(recent') = TrackedSources(swept) \ gone
      /\ TrackedSources(swept) \subseteq TrackedSources(recent) \cup {p.src}
      BY <1>1, AfterEviction
<1>3. IsFiniteSet(TrackedSources(recent) \cup {p.src}) BY TrackedSourcesFinite, FS_AddElement
<1>4. IsFiniteSet(TrackedSources(swept)) BY <1>2, <1>3, FS_Subset
<1>5. gone \in Evictions(swept, Seen(p, at), at) BY <1>1 DEF Evicts
<1>6. left \subseteq TrackedSources(recent') BY DEF Silent
<1>7. MaxTracked \in Nat /\ PruneInterval \in Nat \ {0} /\ Lag \in Nat BY HeuristicAssumption
<1> HIDE DEF swept
<1>8. CASE PruneDue(at)
  <2>1. IsFiniteSet(TrackedSources(recent')) /\ Cardinality(TrackedSources(recent')) <= MaxTracked
        BY <1>2, <1>4, <1>5, <1>8, AfterDueSweep
  <2> HIDE DEF left
  <2>2. Cardinality(left) <= Cardinality(TrackedSources(recent')) /\ Cardinality(left) \in Nat
        BY <1>6, <2>1, FS_Subset, FS_CardinalityType
  <2>3. Cardinality(TrackedSources(recent')) \in Nat BY <2>1, FS_CardinalityType
  <2>4. Cardinality(left) <= MaxTracked BY <1>7, <2>1, <2>2, <2>3
  <2> QED BY <2>4 DEF Few, left
<1>9. CASE ~PruneDue(at)
  <2>1. last_pruned' = last_pruned /\ last_pruned # Never BY <1>1, <1>9 DEF LastSweep, PruneDue
  <2>2. log # <<>> BY <2>1 DEF DetectorIInv, Fresh
  <2>3. last_pruned \in Nat /\ last_pruned <= Newest BY <2>2 DEF DetectorIInv, Fresh
  <2>4. Cardinality(Silent(log, recent, last_pruned - Lag)) <= MaxTracked BY <2>2 DEF DetectorIInv, Few
  <2>5. /\ Len(log) \in Nat /\ Len(log') = Len(log) + 1 /\ Newest \in Nat
        /\ \A i \in 1..Len(log) : log'[i] = log[i]
        /\ log'[Len(log) + 1].p = p /\ log'[Len(log) + 1].at = at
    <3>1. log'[Len(log) + 1] = [p |-> p, at |-> at] BY Clock
    <3> QED BY <3>1, Clock
  <2>6. 1..Len(log) \subseteq 1..Len(log') /\ Len(log) + 1 \in 1..Len(log') BY <2>5
  <2>7. at \in Nat /\ at >= Newest - Lag BY DEF Arrives
  <2>8. left \subseteq Silent(log, recent, last_pruned - Lag)
    <3> SUFFICES ASSUME NEW s \in left PROVE s \in Silent(log, recent, last_pruned - Lag) OBVIOUS
    <3>1. Within(log', "burst", s, 0, last_pruned - Lag) = {} /\ s \in TrackedSources(recent')
          BY <2>1 DEF Silent
    <3>2. s # p.src
      <4> SUFFICES ASSUME s = p.src PROVE FALSE OBVIOUS
      <4>1. Len(log) + 1 \in Mine(log', "burst", s) BY <2>5, <2>6 DEF Mine, Feeds
      <4>2. at >= last_pruned - Lag BY <1>7, <2>3, <2>5, <2>7
      <4>3. Len(log) + 1 > 0 BY <2>5
      <4>4. Len(log) + 1 \in Within(log', "burst", s, 0, last_pruned - Lag)
            BY <2>5, <4>1, <4>2, <4>3 DEF Within
      <4> QED BY <3>1, <4>4
    <3>3. s \in TrackedSources(recent) BY <1>2, <3>1, <3>2
    <3>4. Within(log, "burst", s, 0, last_pruned - Lag) \subseteq Within(log', "burst", s, 0, last_pruned - Lag)
          BY <2>5, <2>6 DEF Within, Mine
    <3> QED BY <3>1, <3>3, <3>4 DEF Silent
  <2> DEFINE before == Silent(log, recent, last_pruned - Lag)
  <2>9. IsFiniteSet(before)
    <3>1. before \subseteq TrackedSources(recent) BY DEF Silent
    <3> QED BY <3>1, TrackedSourcesFinite, FS_Subset
  <2> HIDE DEF left, before
  <2>10. Cardinality(left) <= Cardinality(before) /\ Cardinality(left) \in Nat /\ Cardinality(before) \in Nat
    <3>1. left \subseteq before BY <2>8 DEF before
    <3> QED BY <2>9, <3>1, FS_Subset, FS_CardinalityType
  <2>11. Cardinality(before) <= MaxTracked BY <2>4 DEF before
  <2>12. Cardinality(left) <= MaxTracked BY <1>7, <2>10, <2>11
  <2> QED BY <2>12 DEF Few, left
<1> QED BY <1>8, <1>9

\* The invariant holds after any packet.
LEMMA ArrivalKeepsIInv ==
    ASSUME DetectorIInv, NEW p \in Packets, NEW at, Arrives(p, at)
    PROVE  DetectorIInv'
<1>1. PICK gone : Evicts(p, at, gone) /\ last_pruned' = LastSweep(at) BY Evaluated
<1>2. recent' \in [Windows -> [Sources -> Seq(Entries)]] BY <1>1, AfterEviction
<1>3. Ahead' /\ Orderly(log)' /\ Len(log)' <= MaxPackets /\ Len(log) \in Nat /\ Len(log)' = Len(log) + 1
      BY Clock
<1>4. last_pruned' \in Nat \cup {Never} BY <1>1 DEF LastSweep, DetectorIInv, Shape, Arrives
<1>5. verdict' \subseteq {"heuristic", "bruteforce"} BY DEF Arrives, Process, Verdict
<1>6. evicted' \in [Sources -> 0..Len(log')]
  <2>1. evicted' = [s \in Sources |-> IF s \in gone THEN Len(log) + 1 ELSE evicted[s]]
        BY <1>1 DEF Evicts
  <2>2. \A s \in Sources : evicted[s] \in 0..Len(log) BY DEF DetectorIInv, Shape
  <2>3. 0..Len(log) \subseteq 0..Len(log') /\ Len(log) + 1 \in 0..Len(log') BY <1>3
  <2> QED BY <2>1, <2>2, <2>3
<1>7. Shape' BY <1>2, <1>3, <1>4, <1>5, <1>6, StaysKnown, AttemptsStayTrue DEF Shape
<1> QED BY <1>3, <1>7, DequesStayTrue, AttemptsStayTrue, StaysFresh, StaysKnown, StaysFew DEF DetectorIInv

LEMMA StutterKeepsIInv ==
    ASSUME DetectorIInv, UNCHANGED detectorVars PROVE DetectorIInv'
<1>1. /\ recent' = recent /\ last_seen' = last_seen /\ last_pruned' = last_pruned
      /\ attempts' = attempts /\ verdict' = verdict /\ log' = log /\ evicted' = evicted
      BY DEF detectorVars
<1>2. Newest' = Newest BY <1>1 DEF Newest
<1>3. Shape' /\ Ahead' BY <1>1, <1>2 DEF DetectorIInv, Shape, Ahead
<1>4. DequesTrue' /\ AttemptsTrue' BY <1>1, <1>2 DEF DetectorIInv, DequesTrue, AttemptsTrue
<1>5. Fresh' BY <1>1, <1>2 DEF DetectorIInv, Fresh
<1>6. Known' /\ Few' BY <1>1 DEF DetectorIInv, Known, Few
<1> QED BY <1>3, <1>4, <1>5, <1>6 DEF DetectorIInv

\* Every step is a stutter or the arrival of a packet not too far behind the clock.
LEMMA StepIsArrival ==
    ASSUME DetectorIInv, DetectorNext
    PROVE  \E p \in Packets, at \in Nat : Arrives(p, at)
<1>1. PICK p \in Packets, step \in Steps \cup {0 - k : k \in 1..Lag} :
        Newest + step > 0 /\ Process(p, Newest + step)
      BY DEF DetectorNext
<1>2. Steps \subseteq Nat /\ Lag \in Nat BY HeuristicAssumption
<1>3. Newest \in Nat
  <2>1. \A i \in 1..Len(log) : log[i] \in Record
    <3>1. log \in Seq(Record) BY DEF DetectorIInv, Shape, Orderly
    <3> QED BY <3>1, ElementOfSeq
  <2> QED BY <2>1 DEF DetectorIInv, Ahead, Record
<1>4. step \in Int /\ step >= 0 - Lag BY <1>1, <1>2
<1>5. Newest + step \in Nat \ {0} /\ Newest + step >= Newest - Lag BY <1>1, <1>2, <1>3, <1>4
<1> QED BY <1>1, <1>5 DEF Arrives

LEMMA StepKeepsIInv == ASSUME DetectorIInv, [DetectorNext]_detectorVars PROVE DetectorIInv'
BY ArrivalKeepsIInv, StutterKeepsIInv, StepIsArrival

-----------------------------------------------------------------------------
(* What the properties say of a log.                                       *)

\* If all entries of a deque are as recent as c, what it has counted lies between the packets
\* it must know and those it may know; the same for the attempts.
LevelSound(w, s, c) ==
    (\A j \in 1..Len(recent[w][s]) : recent[w][s][j][1] >= c) =>
        LET level == Level(w, recent[w][s])
            least == CountOf(w, InWindow(w, s, evicted[s], Newest - Width[w]))
            most == CountOf(w, InWindow(w, s, 0, c))
        IN  level \in Nat /\ least \in Nat /\ most \in Nat /\ least <= level /\ level <= most

AttemptsSound(key, c) ==
    (\A j \in 1..Len(attempts[key]) : attempts[key][j][1] >= c) =>
        LET least == Cardinality(AttemptsSince(key, Newest - AttemptWindow))
            most == Cardinality(AttemptsSince(key, c))
            level == Len(attempts[key])
        IN  level \in Nat /\ least \in Nat /\ most \in Nat /\ least <= level /\ level <= most

LEMMA Reference ==
    ASSUME DetectorIInv
    PROVE  /\ Len(log) \in Nat /\ DOMAIN log = 1..Len(log) /\ (log # <<>> => Len(log) \in 1..Len(log))
           /\ \A i \in 1..Len(log) : log[i] \in Record
           /\ \A w \in Windows, s \in Sources, after \in Nat : \A c :
                InWindow(w, s, after, c) = Within(log, w, s, after, c)
           /\ \A key, c : AttemptsSince(key, c) = TriedSince(log, key, c)
<1>1. log \in Seq(Record) BY DEF DetectorIInv, Shape, Orderly
<1>2. Len(log) \in Nat /\ DOMAIN log = 1..Len(log) /\ (log # <<>> => Len(log) # 0)
      BY <1>1, LenProperties, EmptySeq
<1>3. \A i \in 1..Len(log) : log[i] \in Record BY <1>1, ElementOfSeq
<1>4. ASSUME NEW w \in Windows, NEW s \in Sources, NEW c, NEW after \in Nat
      PROVE  InWindow(w, s, after, c) = Within(log, w, s, after, c)
  <2>1. \A i : i \in (after + 1)..Len(log) <=> i \in 1..Len(log) /\ i > after BY <1>2
  <2> QED BY <2>1 DEF InWindow, Within, Mine
<1>5. ASSUME NEW key, NEW c PROVE AttemptsSince(key, c) = TriedSince(log, key, c)
      BY <1>2 DEF AttemptsSince, TriedSince, Tried
<1> QED BY <1>2, <1>3, <1>4, <1>5

LevelsSound == \A w \in Windows, s \in Sources, c \in Int : LevelSound(w, s, c)
AllAttemptsSound == \A key \in Keys, c \in Int : AttemptsSound(key, c)

LEMMA LevelBetween == DetectorIInv => LevelsSound
<1> SUFFICES ASSUME DetectorIInv, NEW w \in Windows, NEW s \in Sources, NEW c \in Int,
                    \A j \in 1..Len(recent[w][s]) : recent[w][s][j][1] >= c
             PROVE  LET level == Level(w, recent[w][s])
                        least == CountOf(w, InWindow(w, s, evicted[s], Newest - Width[w]))
                        most == CountOf(w, InWindow(w, s, 0, c))
                    IN  level \in Nat /\ least \in Nat /\ most \in Nat /\ least <= level /\ level <= most
    BY DEF LevelsSound, LevelSound
<1> DEFINE q == recent[w][s]
           mine == Mine(log, w, s)
           kept == Within(log, w, s, evicted[s], Newest - Width[w])
           all == AsRecent(log, mine, c)
<1>1. Orderly(log) /\ Reflects(q, log, mine, kept) /\ evicted[s] \in 0..Len(log)
      BY DEF DetectorIInv, Shape, DequesTrue
<1>2. mine \subseteq 1..Len(log) /\ kept \subseteq mine BY DEF Mine, Within
<1>3. /\ Cardinality(kept) <= Len(q) /\ Len(q) <= Cardinality(all)
      /\ Cardinality(PortsOf(log, kept)) <= Cardinality(EntryPorts(q))
      /\ Cardinality(EntryPorts(q)) <= Cardinality(PortsOf(log, all))
      /\ Cardinality(kept) \in Nat /\ Cardinality(all) \in Nat /\ Cardinality(EntryPorts(q)) \in Nat
      /\ Len(q) \in Nat /\ Cardinality(PortsOf(log, kept)) \in Nat /\ Cardinality(PortsOf(log, all)) \in Nat
  <2>1. \A j \in 1..Len(q) : q[j][1] >= c OBVIOUS
  <2> HIDE DEF q, mine, kept
  <2> QED BY <1>1, <1>2, <2>1, Counts
<1>4. InWindow(w, s, evicted[s], Newest - Width[w]) = kept
  <2>1. evicted[s] \in Nat BY <1>1, Reference
  <2> QED BY <2>1, Reference
<1>5. InWindow(w, s, 0, c) = all
  <2>1. InWindow(w, s, 0, c) = Within(log, w, s, 0, c) BY Reference
  <2>2. \A i \in mine : i > 0 BY <1>2, Reference
  <2> QED BY <2>1, <2>2 DEF Within, AsRecent
<1> HIDE DEF kept, all
<1>6. CASE w = "sweep" BY <1>3, <1>4, <1>5, <1>6 DEF Level, CountOf, PortsOf, EntryPorts
<1>7. CASE w # "sweep"
  <2> HIDE DEF q
  <2> QED BY <1>3, <1>4, <1>5, <1>7 DEF Level, CountOf, q
<1> QED BY <1>6, <1>7

LEMMA AttemptsBetween == DetectorIInv => AllAttemptsSound
<1> SUFFICES ASSUME DetectorIInv, NEW key \in Keys, NEW c \in Int,
                    \A j \in 1..Len(attempts[key]) : attempts[key][j][1] >= c
             PROVE  LET least == Cardinality(AttemptsSince(key, Newest - AttemptWindow))
                        most == Cardinality(AttemptsSince(key, c))
                        level == Len(attempts[key])
                    IN  level \in Nat /\ least \in Nat /\ most \in Nat /\ least <= level /\ level <= most
    BY DEF AllAttemptsSound, AttemptsSound
<1> DEFINE q == attempts[key]
           mine == Tried(log, key)
           kept == TriedSince(log, key, Newest - AttemptWindow)
           all == AsRecent(log, mine, c)
<1>1. Orderly(log) /\ Reflects(q, log, mine, kept) BY DEF DetectorIInv, Shape, AttemptsTrue
<1>2. mine \subseteq 1..Len(log) /\ kept \subseteq mine BY DEF Tried, TriedSince
<1>3. /\ Cardinality(kept) <= Len(q) /\ Len(q) <= Cardinality(all)
      /\ Cardinality(kept) \in Nat /\ Cardinality(all) \in Nat /\ Len(q) \in Nat
  <2>1. \A j \in 1..Len(q) : q[j][1] >= c OBVIOUS
  <2> HIDE DEF q, mine, kept
  <2> QED BY <1>1, <1>2, <2>1, Counts
<1>4. AttemptsSince(key, Newest - AttemptWindow) = kept /\ AttemptsSince(key, c) = all
      BY Reference DEF TriedSince, AsRecent
<1> QED BY <1>3, <1>4

LEMMA OwnScoreIs == ASSUME NEW p PROVE OwnScore(p) \in Nat
<1> DEFINE a == IF p.port = NoPort THEN 2 ELSE 0
           b == IF p.size <= 0 THEN 3 ELSE 0
           c == IF p.size < 40 THEN 1 ELSE 0
           d == IF p.port \in SensitivePorts THEN 1 ELSE 0
<1>1. a \in Nat /\ b \in Nat /\ c \in Nat /\ d \in Nat OBVIOUS
<1>2. OwnScore(p) = a + b + c + d BY DEF OwnScore
<1> HIDE DEF a, b, c, d
<1> QED BY <1>1, <1>2

\* The score grows with the levels, and a level at its threshold is enough for a block.
LEMMA ScoreGrows ==
    ASSUME NEW p, NEW low, NEW high,
           \A w \in Windows : low[w] \in Nat /\ high[w] \in Nat /\ low[w] <= high[w]
    PROVE  /\ Score(p, low) >= 3 => Score(p, high) >= 3
           /\ (\E w \in Windows : low[w] >= Threshold[w]) => Score(p, low) >= 3
<1>1. \A w \in Windows : Threshold[w] \in Nat BY HeuristicAssumption
<1>2. \A w \in Windows : Weight[w] \in Nat /\ Weight[w] >= 3 BY DEF Weight, Windows
<1>3. \A w \in Windows :
        /\ Points(w, low) \in Nat /\ Points(w, high) \in Nat /\ Points(w, low) <= Points(w, high)
        /\ low[w] >= Threshold[w] => Points(w, low) >= 3
      BY <1>1, <1>2 DEF Points
<1>4. /\ Points("burst", low) \in Nat /\ Points("burst", high) \in Nat
      /\ Points("sweep", low) \in Nat /\ Points("sweep", high) \in Nat
      /\ Points("syn", low) \in Nat /\ Points("syn", high) \in Nat
      /\ Points("burst", low) <= Points("burst", high)
      /\ Points("sweep", low) <= Points("sweep", high)
      /\ Points("syn", low) <= Points("syn", high)
      BY <1>3 DEF Windows
<1>5. Score(p, low) >= 3 => Score(p, high) >= 3 BY <1>4, OwnScoreIs DEF Score
<1>6. ASSUME NEW w \in Windows, low[w] >= Threshold[w] PROVE Score(p, low) >= 3
  <2>1. \/ Points("burst", low) >= 3 \/ Points("sweep", low) >= 3 \/ Points("syn", low) >= 3
        BY <1>3, <1>6 DEF Windows
  <2> QED BY <1>4, <2>1, OwnScoreIs DEF Score
<1> QED BY <1>5, <1>6

\* How recent the entries of the packet's own source are.
LEMMA OwnEntries ==
    ASSUME DetectorIInv, NEW p \in Packets, NEW at, Arrives(p, at), NEW w \in Windows
    PROVE  LET since == at - Width[w] - Lag - (IF w \in Feeds(p) THEN 0 ELSE PruneInterval - 1)
               q == recent'[w][p.src]
           IN  since \in Int /\ \A j \in 1..Len(q) : q[j][1] >= since
<1> DEFINE since == at - Width[w] - Lag - (IF w \in Feeds(p) THEN 0 ELSE PruneInterval - 1)
           q == recent'[w][p.src]
           swept == Swept(Appended(p, at), at)[w][p.src]
<1>1. PICK gone : Evicts(p, at, gone) BY Evaluated
<1>2. p.src \in Sources BY HeuristicAssumption
<1>3. q = IF p.src \in gone THEN <<>> ELSE swept BY <1>1, <1>2, AfterEviction
<1>4. /\ swept \in Seq(Entries)
      /\ w \in Feeds(p) => \A j \in 1..Len(swept) : swept[j][1] >= at - Width[w] - Lag
      /\ \A j \in 1..Len(swept) : swept[j][1] >= LastSweep(at) - Width[w] - Lag
      BY <1>2, AfterSweep DEF Reflects
<1>5. at \in Nat /\ Width[w] \in Nat /\ Lag \in Nat /\ PruneInterval \in Nat \ {0} /\ since \in Int
      BY HeuristicAssumption DEF Arrives
<1>6. LastSweep(at) \in Nat /\ LastSweep(at) >= at - (PruneInterval - 1)
  <2>1. CASE PruneDue(at) BY <1>5, <2>1 DEF LastSweep
  <2>2. CASE ~PruneDue(at)
    <3>1. last_pruned \in Nat /\ ~(at - last_pruned >= PruneInterval)
          BY <2>2 DEF PruneDue, DetectorIInv, Shape
    <3> QED BY <1>5, <2>2, <3>1 DEF LastSweep
  <2> QED BY <2>1, <2>2
<1>7. \A j \in 1..Len(swept) : swept[j][1] \in Nat
  <2>1. \A j \in 1..Len(swept) : swept[j] \in Entries BY <1>4, ElementOfSeq
  <2> QED BY <2>1 DEF Entries
<1> HIDE DEF swept
<1>8. \A j \in 1..Len(swept) : swept[j][1] >= since BY <1>4, <1>5, <1>6, <1>7
<1>9. \A j \in 1..Len(q) : q[j][1] >= since
  <2>1. 1..Len(<<>>) = {}
    <3>1. Len(<<>>) = 0 BY EmptySeq
    <3> QED BY <3>1
  <2> QED BY <1>3, <1>8, <2>1
<1> QED BY <1>5, <1>9

LEMMA AnswersRightly ==
    ASSUME DetectorIInv, NEW p \in Packets, NEW at, Arrives(p, at)
    PROVE  NoMissedAttack' /\ NoFalseBlock'
<1> DEFINE src == p.src
           key == <<p.src, p.dst, p.port>>
           since == [w \in Windows |->
                      at - Width[w] - Lag - (IF w \in Feeds(p) THEN 0 ELSE PruneInterval - 1)]
           level == [w \in Windows |-> Level(w, recent'[w][src])]
           most == [w \in Windows |-> CountOf(w, InWindow(w, src, 0, since[w]))']
           least(w) == CountOf(w, InWindow(w, src, evicted[src], Newest - Width[w]))'
           tries == Len(attempts'[key])
<1>1. DetectorIInv' BY ArrivalKeepsIInv
<1>2. src \in Sources BY HeuristicAssumption
<1>3. log'[Len(log')].p = p /\ log'[Len(log')].at = at
  <2>1. Len(log') = Len(log) + 1 /\ log'[Len(log) + 1] = [p |-> p, at |-> at] BY Clock
  <2> QED BY <2>1
<1>4. ASSUME NEW w \in Windows
      PROVE  /\ level[w] \in Nat /\ most[w] \in Nat /\ least(w) \in Nat
             /\ least(w) <= level[w] /\ level[w] <= most[w]
  <2>1. since[w] \in Int /\ \A j \in 1..Len(recent'[w][src]) : recent'[w][src][j][1] >= since[w]
        BY OwnEntries
  <2> HIDE DEF since
  <2>2. LET lev == Level(w, recent'[w][src])
            lea == CountOf(w, InWindow(w, src, evicted[src], Newest - Width[w]))'
            mos == CountOf(w, InWindow(w, src, 0, since[w]))'
        IN  lev \in Nat /\ lea \in Nat /\ mos \in Nat /\ lea <= lev /\ lev <= mos
    <3>1. LevelSound(w, src, since[w])'
      <4>1. (DetectorIInv => LevelsSound)' BY LevelBetween, PTL
      <4> QED BY <1>1, <1>2, <2>1, <4>1 DEF LevelsSound
    <3> QED BY <2>1, <3>1 DEF LevelSound
  <2> QED BY <2>2
<1>5. verdict' = Verdict(p) BY DEF Arrives, Process
<1>6. "heuristic" \in verdict' <=> Score(p, level) >= 3 BY <1>5 DEF Verdict
<1>7. "bruteforce" \in verdict' <=> p.port \in ServicePorts /\ tries >= AttemptThreshold
      BY <1>5 DEF Verdict
<1>8. ASSUME p.port \in ServicePorts
      PROVE  /\ tries \in Nat
             /\ Cardinality(AttemptsSince(key, Newest - AttemptWindow))' \in Nat
             /\ Cardinality(AttemptsSince(key, at - AttemptWindow - Lag))' \in Nat
             /\ Cardinality(AttemptsSince(key, Newest - AttemptWindow))' <= tries
             /\ tries <= Cardinality(AttemptsSince(key, at - AttemptWindow - Lag))'
  <2>1. key \in Keys BY <1>8, HeuristicAssumption DEF Keys
  <2>2. at - AttemptWindow - Lag \in Int BY HeuristicAssumption DEF Arrives
  <2>3. \A j \in 1..tries : attempts'[key][j][1] >= at - AttemptWindow - Lag
        BY <2>1, AttemptsStayTrue
  <2>4. AttemptsSound(key, at - AttemptWindow - Lag)'
    <3>1. (DetectorIInv => AllAttemptsSound)' BY AttemptsBetween, PTL
    <3> HIDE DEF key
    <3> QED BY <1>1, <2>1, <2>2, <3>1 DEF AllAttemptsSound
  <2> HIDE DEF key
  <2> QED BY <2>3, <2>4 DEF AttemptsSound
<1>9. AttemptThreshold \in Nat BY HeuristicAssumption
<1> HIDE DEF level, most, least, tries
<1>10. /\ Score(p, level) >= 3 => Score(p, most) >= 3
       /\ (\E w \in Windows : level[w] >= Threshold[w]) => Score(p, level) >= 3
       BY <1>4, ScoreGrows
<1>11. NoMissedAttack'
  <2>1. (\E w \in Windows : least(w) >= Threshold[w]) => "heuristic" \in verdict'
    <3> SUFFICES ASSUME NEW w \in Windows, least(w) >= Threshold[w] PROVE level[w] >= Threshold[w]
        BY <1>6, <1>10
    <3>1. Threshold[w] \in Nat BY HeuristicAssumption
    <3> QED BY <1>4, <3>1
  <2>2. /\ p.port \in ServicePorts
        /\ Cardinality(AttemptsSince(key, Newest - AttemptWindow))' >= AttemptThreshold
        => "bruteforce" \in verdict'
        BY <1>7, <1>8, <1>9
  <2> QED BY <1>3, <2>1, <2>2 DEF NoMissedAttack, least
<1>12. NoFalseBlock'
  <2>1. "heuristic" \in verdict' => Score(p, most) >= 3 BY <1>6, <1>10
  <2>2. "bruteforce" \in verdict' =>
            Cardinality(AttemptsSince(key, at - AttemptWindow - Lag))' >= AttemptThreshold
        BY <1>7, <1>8, <1>9
  <2> QED BY <1>3, <2>1, <2>2 DEF NoFalseBlock, most
<1> QED BY <1>11, <1>12

-----------------------------------------------------------------------------
LEMMA AlwaysIInv == DetectorSpec => []DetectorIInv
<1>1. DetectorInit => DetectorIInv BY InitIInv
<1>2. DetectorIInv /\ [DetectorNext]_detectorVars => DetectorIInv' BY StepKeepsIInv
<1> QED BY <1>1, <1>2, PTL DEF DetectorSpec

\* The dictionaries of the detector and the policy have the types the code gives them, and
\* _last_seen has exactly the sources the deques have.
THEOREM DetectorTypes == DetectorSpec => []DetectorTypeOK
<1>1. DetectorIInv => DetectorTypeOK
  <2> SUFFICES ASSUME DetectorIInv PROVE DetectorTypeOK OBVIOUS
  <2>1. ASSUME NEW w \in Windows, NEW s \in Sources
        PROVE  /\ Len(recent[w][s]) <= MaxPackets
               /\ \A i \in DOMAIN recent[w][s] : recent[w][s][i][1] \in Nat
    <3>1. recent[w][s] \in Seq(Entries) BY DEF DetectorIInv, Shape
    <3>2. \A i \in 1..Len(recent[w][s]) : recent[w][s][i] \in Entries BY <3>1, ElementOfSeq
    <3>3. /\ DOMAIN recent[w][s] = 1..Len(recent[w][s])
          /\ \A i \in 1..Len(recent[w][s]) : recent[w][s][i][1] \in Nat
          BY <3>1, <3>2, LenProperties DEF Entries
    <3>4. Len(recent[w][s]) <= MaxPackets
      <4> DEFINE q == recent[w][s]
                 mine == Mine(log, w, s)
                 kept == Within(log, w, s, evicted[s], Newest - Width[w])
                 all == AsRecent(log, mine, 0)
      <4>1. mine \subseteq 1..Len(log) /\ kept \subseteq mine /\ all \subseteq 1..Len(log)
            BY DEF Mine, Within, AsRecent
      <4>2. Reflects(q, log, mine, kept) /\ Orderly(log) /\ Len(log) <= MaxPackets
            BY DEF DetectorIInv, DequesTrue, Shape
      <4>3. \A j \in 1..Len(q) : q[j][1] >= 0 BY <3>3
      <4> HIDE DEF q, mine, kept
      <4>4. Len(q) <= Cardinality(all) /\ Cardinality(all) \in Nat /\ Len(q) \in Nat
        <5> DEFINE c == 0
        <5>1. c \in Int /\ \A j \in 1..Len(q) : q[j][1] >= c BY <4>3
        <5>2. all = AsRecent(log, mine, c) OBVIOUS
        <5> HIDE DEF c, all
        <5> QED BY <4>1, <4>2, <5>1, <5>2, Counts
      <4>5. Len(log) \in Nat BY Reference
      <4>6. IsFiniteSet(1..Len(log)) /\ Cardinality(1..Len(log)) = Len(log) BY <4>5, FS_Interval
      <4> HIDE DEF all
      <4>7. Cardinality(all) <= Len(log) BY <4>1, <4>6, FS_Subset
      <4>8. MaxPackets \in Nat BY HeuristicAssumption
      <4>9. Len(q) <= MaxPackets BY <4>2, <4>4, <4>5, <4>7, <4>8
      <4> QED BY <4>9 DEF q
    <3> QED BY <3>3, <3>4
  <2>2. ASSUME NEW s \in Sources PROVE last_seen[s] # 0 <=> s \in TrackedSources(recent)
    <3>1. CASE s \in TrackedSources(recent)
      <4>1. OfSource(log, s) # {} /\ last_seen[s] = log[Max(OfSource(log, s))].at
            BY <3>1 DEF DetectorIInv, Known
      <4>2. OfSource(log, s) \subseteq 1..Len(log) /\ Len(log) \in Nat BY Reference DEF OfSource
      <4>3. Max(OfSource(log, s)) \in 1..Len(log) BY <4>1, <4>2, LastIndex
      <4>4. log[Max(OfSource(log, s))] \in Record BY <4>3, Reference
      <4> QED BY <3>1, <4>1, <4>4 DEF Record
    <3>2. CASE s \notin TrackedSources(recent) BY <3>2 DEF DetectorIInv, Known
    <3> QED BY <3>1, <3>2
  <2>3. evicted \in [Sources -> 0..MaxPackets]
    <3>1. evicted \in [Sources -> 0..Len(log)] /\ Len(log) <= MaxPackets BY DEF DetectorIInv, Shape
    <3>2. Len(log) \in Nat /\ MaxPackets \in Nat BY Reference, HeuristicAssumption
    <3>3. 0..Len(log) \subseteq 0..MaxPackets BY <3>1, <3>2
    <3> QED BY <3>1, <3>3
  <2>4. DOMAIN attempts = Sources \X Hosts \X ServicePorts BY DEF DetectorIInv, Shape, Keys
  <2> QED BY <2>1, <2>2, <2>3, <2>4 DEF DetectorTypeOK, DetectorIInv, Shape
<1> QED BY <1>1, AlwaysIInv, PTL

Answers == NoMissedAttack /\ NoFalseBlock

LEMMA AlwaysAnswers == DetectorSpec => []Answers
<1>1. DetectorInit => Answers BY DEF DetectorInit, Answers, NoMissedAttack, NoFalseBlock
<1>2. DetectorIInv /\ Answers /\ [DetectorNext]_detectorVars => Answers'
  <2> SUFFICES ASSUME DetectorIInv, Answers, [DetectorNext]_detectorVars PROVE Answers' OBVIOUS
  <2>1. CASE DetectorNext
    <3>1. PICK p \in Packets, at \in Nat : Arrives(p, at) BY <2>1, StepIsArrival
    <3> QED BY <3>1, AnswersRightly DEF Answers
  <2>2. CASE UNCHANGED detectorVars
    <3>1. /\ verdict' = verdict /\ log' = log /\ evicted' = evicted BY <2>2 DEF detectorVars
    <3>2. NoMissedAttack'
      <4>1. Newest' = Newest BY <3>1 DEF Newest
      <4> DEFINE src == log[Len(log)].p.src
      <4>2. ASSUME NEW w \in Windows
            PROVE  CountOf(w, InWindow(w, src, evicted[src], Newest - Width[w]))'
                       = CountOf(w, InWindow(w, src, evicted[src], Newest - Width[w]))
            BY <3>1, <4>1 DEF CountOf, InWindow
      <4> QED BY <3>1, <4>1, <4>2 DEF Answers, NoMissedAttack, AttemptsSince
    <3>3. NoFalseBlock' BY <3>1 DEF Answers, NoFalseBlock, InWindow, CountOf, AttemptsSince
    <3> QED BY <3>2, <3>3 DEF Answers
  <2> QED BY <2>1, <2>2
<1> QED BY <1>1, <1>2, AlwaysIInv, PTL DEF DetectorSpec

\* evaluate_packet and record_bruteforce_attempt: for any packets, thresholds and windows, and
\* timestamps out of order by up to Lag, the packet that completes an attack blocks its source.
THEOREM NoAttackMissed == DetectorSpec => []NoMissedAttack
BY AlwaysAnswers, PTL DEF Answers

\* should_block: a source is never blocked for packets that are out of every window by more
\* than the disorder of the timestamps and the interval of the sweep.
THEOREM NobodyBlockedFalsely == DetectorSpec => []NoFalseBlock
BY AlwaysAnswers, PTL DEF Answers

\* _prune_tracked_ips: memory is bounded by giving up the sources seen longest ago, no others.
THEOREM EvictionIsSound == DetectorSpec => EvictionSound
<1>1. DetectorIInv => TrackedBounded
  <2> SUFFICES ASSUME DetectorIInv PROVE TrackedBounded OBVIOUS
  <2> DEFINE since == Newest - Lag - Slack
             bound == {s \in TrackedSources(recent) : InWindow("burst", s, 0, since) = {}}
  <2>1. MaxTracked \in Nat /\ Lag \in Nat BY HeuristicAssumption
  <2>2. bound \subseteq TrackedSources(recent) /\ "burst" \in Windows BY DEF Windows
  <2>3. CASE log = <<>>
    <3>1. bound = {} BY <2>2, <2>3, TrackedSourcesFinite
    <3>2. Cardinality(bound) <= MaxTracked BY <2>1, <3>1, FS_EmptySet
    <3> QED BY <3>2 DEF TrackedBounded, Slack
  <2>4. CASE log # <<>>
    <3>1. last_pruned \in Nat /\ Newest <= last_pruned + Slack /\ last_pruned <= Newest
          BY <2>4 DEF DetectorIInv, Fresh
    <3>2. Newest \in Nat BY Reference DEF DetectorIInv, Ahead, Record
    <3>3. since \in Int /\ since <= last_pruned - Lag BY <2>1, <3>1, <3>2, SlackIs
    <3> DEFINE few == Silent(log, recent, last_pruned - Lag)
    <3>4. bound \subseteq few
      <4> SUFFICES ASSUME NEW s \in bound PROVE s \in few OBVIOUS
      <4>1. s \in Sources BY <2>2 DEF TrackedSources
      <4>2. Within(log, "burst", s, 0, since) = {} BY <2>2, <4>1, Reference
      <4>3. Within(log, "burst", s, 0, last_pruned - Lag) \subseteq Within(log, "burst", s, 0, since)
        <5> HIDE DEF since
        <5> SUFFICES ASSUME NEW i \in Within(log, "burst", s, 0, last_pruned - Lag)
                     PROVE  i \in Within(log, "burst", s, 0, since)
            OBVIOUS
        <5>1. i \in 1..Len(log) /\ log[i].at >= last_pruned - Lag BY DEF Within, Mine
        <5>2. log[i].at \in Nat BY <5>1, Reference DEF Record
        <5>3. log[i].at >= since BY <2>1, <3>1, <3>3, <5>1, <5>2
        <5> QED BY <5>3 DEF Within
      <4> QED BY <2>2, <4>2, <4>3 DEF Silent
    <3>5. few \subseteq TrackedSources(recent) BY DEF Silent
    <3>6. Cardinality(few) <= MaxTracked BY <2>4 DEF DetectorIInv, Few
    <3> HIDE DEF few, bound
    <3>7. IsFiniteSet(few) BY <3>5, TrackedSourcesFinite, FS_Subset
    <3>8. Cardinality(bound) <= Cardinality(few) /\ Cardinality(bound) \in Nat /\ Cardinality(few) \in Nat
          BY <3>4, <3>7, FS_Subset, FS_CardinalityType
    <3>9. Cardinality(bound) <= MaxTracked BY <2>1, <3>6, <3>8
    <3> QED BY <3>9 DEF TrackedBounded, bound, Slack
  <2> QED BY <2>3, <2>4
<1>2. ASSUME DetectorIInv, DetectorNext PROVE EvictsLeastRecent
  <2>1. PICK p \in Packets, at \in Nat : Arrives(p, at) BY <1>2, StepIsArrival
  <2>2. PICK gone : Evicts(p, at, gone) BY <2>1, Evaluated
  <2> DEFINE swept == Swept(Appended(p, at), at)
             LastAt(s) == log'[Max({i \in DOMAIN log' : log'[i].p.src = s})].at
  <2>3. /\ gone \subseteq TrackedSources(swept)
        /\ TrackedSources(recent)' = TrackedSources(swept) \ gone
        BY <1>2, <2>1, <2>2, AfterEviction
  <2>4. \A e \in gone, k \in TrackedSources(swept) \ gone : Seen(p, at)[e] <= Seen(p, at)[k]
        BY <2>2 DEF Evicts, Evictions
  <2>5. \A s \in TrackedSources(swept) : Seen(p, at)[s] = LastAt(s)
    <3>1. DOMAIN log' = 1..Len(log')
      <4>1. log' \in Seq(Record) BY <1>2, <2>1, Clock DEF Orderly
      <4> QED BY <4>1, LenProperties
    <3>2. \A s : {i \in DOMAIN log' : log'[i].p.src = s} = OfSource(log', s) BY <3>1 DEF OfSource
    <3> SUFFICES ASSUME NEW s \in TrackedSources(swept) PROVE Seen(p, at)[s] = LastAt(s) OBVIOUS
    <3>3. Seen(p, at)[s] = log'[Max(OfSource(log', s))].at BY <1>2, <2>1, SeenLast
    <3>4. LastAt(s) = log'[Max(OfSource(log', s))].at BY <3>2
    <3> QED BY <3>3, <3>4
  <2>6. \A s \in Sources : evicted'[s] # evicted[s] => s \in gone BY <2>2 DEF Evicts
  <2> HIDE DEF swept, LastAt
  <2>7. \A e \in {s \in Sources : evicted'[s] # evicted[s]}, k \in TrackedSources(recent)' : LastAt(e) <= LastAt(k)
        BY <2>3, <2>4, <2>5, <2>6
  <2> QED BY <2>7 DEF EvictsLeastRecent, LastAt
<1>3. (TrackedBounded' /\ EvictsLeastRecent) \/ UNCHANGED detectorVars <=> [TrackedBounded' /\ EvictsLeastRecent]_detectorVars
      OBVIOUS
<1>4. DetectorIInv /\ [DetectorNext]_detectorVars => [TrackedBounded' /\ EvictsLeastRecent]_detectorVars
  <2>1. (DetectorIInv => TrackedBounded)' BY <1>1, PTL
  <2> QED BY <1>2, <2>1, StepKeepsIInv
<1> QED BY <1>4, AlwaysIInv, PTL DEF DetectorSpec, EvictionSound

-----------------------------------------------------------------------------
(***************************************************************************)
(* AutoBlocker, for any set of addresses and threads.                      *)
(*                                                                         *)
(* TrackedIffBlocked is not inductive: while a thread works on an address  *)
(* the rule and the entry disagree.  The invariant IInv says what holds at *)
(* each point of a call for an address nobody else touches.  A step of a   *)
(* thread t changes only what t touches (Framed), an address outside       *)
(* tainted has no second toucher (Covered), so it is enough to look at     *)
(* what t's own step does to it (Local).                                   *)
(***************************************************************************)

\* What a frame's fields are at each point of a call.
FrameOK(f) ==
    /\ f.pc \in Blocking \cup {"cooldown"} => f.addr \in Addrs /\ f.expired = {}
    /\ f.ret = "cooldown" => f.addr \in Addrs
    /\ f.pc \in {"pop_until", "pop_last", "delete"} => f.cur \in f.expired
    /\ f.pc = "delete" => f.expired = {f.cur} /\ f.ret = "idle"
    /\ f.pc \in {"idle", "scan", "scanning", "dead"} => f.expired = {}
    /\ f.pc = "idle" => f.ret = "idle"

\* The thread has changed the rule or one of the entries of a, and not yet the rest.
Unsettled(f, a) ==
    \/ f.pc \in {"pop_until", "pop_last"} /\ f.cur = a
    \/ f.pc \in {"set_last", "set_until"} /\ f.addr = a

Consistent(a) ==
    /\ rules[a] > 0 <=> until[a] # Absent \/ a \in orphans
    /\ last[a] > 0 => until[a] # Absent /\ rules[a] > 0

\* What holds of the address a at the point of the call where the thread t is.
Phase(t, a) ==
    /\ frame[t].pc = "pop_until" /\ frame[t].cur = a => (rules[a] > 0 <=> a \in orphans)
    /\ frame[t].pc = "pop_last" /\ frame[t].cur = a =>
          until[a] = Absent /\ (rules[a] > 0 <=> a \in orphans)
    /\ frame[t].pc \in {"set_last", "set_until"} /\ frame[t].addr = a => rules[a] > 0
    /\ a \in frame[t].expired /\ (frame[t].pc = "expire" \/ frame[t].cur # a) => until[a] = 0

Covered == Overlapping \cup Doubled \subseteq tainted

Settled(a) ==
    /\ (\A t \in Threads : ~Unsettled(frame[t], a)) => Consistent(a)
    /\ \A t \in Threads : Phase(t, a)

\* Only the command thread is ever in manual_unblock.
Unblockers == \A t \in Threads : At(t, "delete") => t \in Commanders

IInv ==
    /\ TypeOK
    /\ \A t \in Threads : FrameOK(frame[t])
    /\ Unblockers
    /\ Covered
    /\ \A a \in Addrs \ tainted : Settled(a)

----------------------------------------------------------------------------
TypeInv == TypeOK /\ \A t \in Threads : FrameOK(frame[t])

\* Settled as far as the thread t alone is concerned.
Local(t, a) == (~Unsettled(frame[t], a) => Consistent(a)) /\ Phase(t, a)

\* The step leaves alone what is known about the address a.
Same(a) ==
    /\ rules'[a] = rules[a]
    /\ until'[a] = until[a]
    /\ last'[a] = last[a]
    /\ a \in orphans' <=> a \in orphans

\* What every step of a thread t must satisfy, f being its frame afterwards.
Good(t, f) ==
    /\ f \in Frame /\ FrameOK(f)
    /\ f.pc = "delete" => t \in Commanders
    /\ frame' = [frame EXCEPT ![t] = f]
    /\ rules' \in [Addrs -> 0..MaxRules]
    /\ until' \in [Addrs -> Nat \cup {Absent}]
    /\ last' \in [Addrs -> 0..Cooldown]
    /\ orphans' \subseteq Addrs
    /\ \A a \in Addrs : a \notin Touching(frame[t]) => Same(a)
    /\ \A a \in Addrs : Local(t, a) /\ rules[a] < 2 => Local(t, a)'

----------------------------------------------------------------------------
\* Rest is a frame, and a frame that is consistent.
LEMMA RestFrame == Rest \in Frame /\ FrameOK(Rest)
BY BlockerAssumption DEF Rest, Frame, FrameOK, Blocking, Durations

\* The number of tracked addresses is a number.
LEMMA TrackedFinite == Cardinality(Tracked) \in Nat
BY BlockerAssumption, FS_Subset, FS_CardinalityType DEF Tracked

\* What is left of a time is a number, no larger than the time.
LEMMA LeftType == \A n, m \in Nat : Left(n, m) \in 0..n
BY DEF Left

\* A step of a thread that touches no table is good if the new frame is, and if
\* the thread is not about to leave an address unsettled.
LEMMA QuietStep ==
  ASSUME TypeInv, NEW t \in Threads, NEW f \in Frame, FrameOK(f),
         frame' = [frame EXCEPT ![t] = f], UNCHANGED <<rules, until, last, orphans>>,
         frame[t].pc \notin {"pop_until", "pop_last", "set_last", "set_until"},
         f.pc \in {"set_last", "set_until"} => rules[f.addr] > 0,
         f.pc \notin {"pop_until", "pop_last"},
         f.pc = "delete" => t \in Commanders,
         \A a \in f.expired : until[a] = 0 \/ (f.pc # "expire" /\ f.cur = a)
  PROVE  Good(t, f)
<1>1. frame'[t] = f
  BY DEF TypeInv, TypeOK
<1>2. ASSUME NEW a \in Addrs, Local(t, a) PROVE Local(t, a)'
  <2>1. Consistent(a)'
    BY <1>2 DEF Local, Unsettled, Consistent
  <2>2. Phase(t, a)'
    BY <1>1, <1>2 DEF Phase
  <2> QED BY <2>1, <2>2 DEF Local
<1> QED
  BY <1>2 DEF Good, TypeInv, TypeOK, Same

\* The calls.
LEMMA CallGood ==
  ASSUME TypeInv, NEW t \in Threads, Call(t)
  PROVE  \E f \in Frame : Good(t, f)
<1> DEFINE f == frame[t]
<1>f. f \in Frame /\ FrameOK(f)
  BY DEF TypeInv, TypeOK
<1>1. CASE StartExpire(t)
  <2> DEFINE g == [f EXCEPT !.pc = "scan"]
  <2>1. f.pc = "idle" /\ Become(t, g) /\ UNCHANGED <<rules, until, last, orphans>>
    BY <1>1 DEF StartExpire, At, Goto
  <2>2. g \in Frame /\ FrameOK(g) /\ g.pc = "scan" /\ g.expired = {}
    BY <1>f, <2>1 DEF Frame, FrameOK, Blocking
  <2>3. Good(t, g)
    BY <2>1, <2>2, QuietStep DEF Become
  <2> QED BY <2>2, <2>3
<1>2. ASSUME NEW a \in Addrs, StartUnblock(t, a)
      PROVE  \E h \in Frame : Good(t, h)
  <2> DEFINE g == [f EXCEPT !.pc = "delete", !.cur = a, !.expired = {a}]
  <2>1. /\ f.pc = "idle" /\ Become(t, g) /\ UNCHANGED <<rules, until, last, orphans>>
        /\ t \in Commanders
    BY <1>2 DEF StartUnblock, At
  <2>2. g \in Frame /\ FrameOK(g) /\ g.pc = "delete" /\ g.cur = a /\ g.expired = {a}
    BY <1>f, <2>1 DEF Frame, FrameOK, Blocking
  <2>3. Good(t, g)
    BY <2>1, <2>2, QuietStep DEF Become
  <2> QED BY <2>2, <2>3
<1>3. ASSUME NEW a \in Addrs, NEW d \in Durations, StartTempBlock(t, a, d)
      PROVE  \E h \in Frame : Good(t, h)
  <2> DEFINE g == [f EXCEPT !.pc = "scan", !.addr = a, !.duration = d, !.ret = "cooldown"]
  <2>1. f.pc = "idle" /\ Become(t, g) /\ UNCHANGED <<rules, until, last, orphans>>
    BY <1>3 DEF StartTempBlock, At
  <2>2. g \in Frame /\ FrameOK(g) /\ g.pc = "scan" /\ g.expired = {}
    BY <1>f, <2>1 DEF Frame, FrameOK, Blocking
  <2>3. Good(t, g)
    BY <2>1, <2>2, QuietStep DEF Become
  <2> QED BY <2>2, <2>3
<1> QED
  BY <1>1, <1>2, <1>3 DEF Call

\* Back from expire_blocks the frame is consistent and nothing is left to unblock.
LEMMA ResumeFrame ==
  ASSUME TypeInv, NEW t \in Threads, Resume(t)
  PROVE  \E f \in Frame : /\ FrameOK(f) /\ Become(t, f)
                          /\ f.expired = {} /\ f.pc \in {"idle", "cooldown"}
<1>f. frame[t] \in Frame /\ FrameOK(frame[t])
  BY DEF TypeInv, TypeOK
<1>1. CASE frame[t].ret = "idle"
  BY <1>1, RestFrame DEF Resume, Rest
<1>2. CASE frame[t].ret # "idle"
  <2> DEFINE g == [Rest EXCEPT !.pc = "cooldown", !.addr = frame[t].addr,
                               !.duration = frame[t].duration, !.ret = "cooldown"]
  <2>1. g \in Frame /\ FrameOK(g) /\ g.expired = {} /\ g.pc = "cooldown"
    BY <1>2, <1>f, RestFrame DEF Rest, Frame, FrameOK, Blocking
  <2> QED BY <1>2, <2>1 DEF Resume
<1> QED BY <1>1, <1>2

\* The scan of expire_blocks.
LEMMA ScanGood ==
  ASSUME TypeInv, NEW t \in Threads, ScanBegin(t) \/ ScanEnd(t) \/ ScanRaises(t)
  PROVE  \E f \in Frame : Good(t, f)
<1> DEFINE f == frame[t]
<1>f. f \in Frame /\ FrameOK(f)
  BY DEF TypeInv, TypeOK
<1>1. CASE ScanBegin(t)
  <2> DEFINE g == [f EXCEPT !.pc = "scanning", !.size = Cardinality(Tracked)]
  <2>1. f.pc = "scan" /\ Become(t, g) /\ UNCHANGED <<rules, until, last, orphans>>
    BY <1>1 DEF ScanBegin, At
  <2>2. g \in Frame /\ FrameOK(g) /\ g.pc = "scanning" /\ g.expired = {}
    BY <1>f, <2>1, TrackedFinite DEF Frame, FrameOK, Blocking
  <2>3. Good(t, g)
    BY <2>1, <2>2, QuietStep DEF Become
  <2> QED BY <2>2, <2>3
<1>2. CASE ScanEnd(t)
  <2> DEFINE found == {a \in Addrs : until[a] = 0}
             g == [f EXCEPT !.pc = "expire", !.size = 0, !.expired = found]
  <2>1. /\ f.pc = "scanning" /\ UNCHANGED <<rules, until, last, orphans>>
        /\ found = {} => Resume(t)
        /\ found # {} => Become(t, g)
    BY <1>2 DEF ScanEnd, At
  <2>2. CASE found = {}
    <3>1. PICK h \in Frame : /\ FrameOK(h) /\ Become(t, h)
                             /\ h.expired = {} /\ h.pc \in {"idle", "cooldown"}
      BY <2>1, <2>2, ResumeFrame
    <3>2. Good(t, h)
      BY <2>1, <3>1, QuietStep DEF Become
    <3> QED BY <3>2
  <2>3. CASE found # {}
    <3>1. g \in Frame /\ FrameOK(g) /\ g.pc = "expire" /\ g.expired = found
      BY <1>f, <2>1 DEF Frame, FrameOK, Blocking
    <3>2. \A a \in g.expired : until[a] = 0
      BY <3>1
    <3>3. Good(t, g)
      BY <2>1, <2>3, <3>1, <3>2, QuietStep DEF Become
    <3> QED BY <3>1, <3>3
  <2> QED BY <2>2, <2>3
<1>3. CASE ScanRaises(t)
  <2> DEFINE dead == [Rest EXCEPT !.pc = "dead"]
  <2>1. /\ f.pc = "scanning" /\ UNCHANGED <<rules, until, last, orphans>>
        /\ Become(t, dead) \/ Become(t, Rest)
    BY <1>3 DEF ScanRaises, At, Return
  <2>2. /\ dead \in Frame /\ FrameOK(dead) /\ dead.pc = "dead" /\ dead.expired = {}
        /\ Rest.pc = "idle" /\ Rest.expired = {}
    BY RestFrame DEF Rest, Frame, FrameOK, Blocking
  <2>3. CASE Become(t, dead)
    <3>1. Good(t, dead)
      BY <2>1, <2>2, <2>3, QuietStep DEF Become
    <3> QED BY <2>2, <3>1
  <2>4. CASE Become(t, Rest)
    <3>1. Good(t, Rest)
      BY <2>1, <2>2, <2>4, QuietStep, RestFrame DEF Become
    <3> QED BY RestFrame, <3>1
  <2> QED BY <2>1, <2>3, <2>4
<1> QED BY <1>1, <1>2, <1>3

\* A command to the firewall changes the rules of one address by at most one.
LEMMA RuleCommand ==
  ASSUME TypeInv, NEW c \in Addrs, NEW ok \in BOOLEAN, RuleDeleted(c, ok) \/ RuleAdded(c, ok)
  PROVE  /\ rules' \in [Addrs -> 0..MaxRules]
         /\ \A a \in Addrs : a # c => rules'[a] = rules[a]
         /\ rules'[c] \in Nat /\ rules[c] \in Nat
         /\ ~ok => rules'[c] = rules[c]
         /\ ok /\ RuleDeleted(c, ok) => rules'[c] = rules[c] - 1
         /\ ok /\ RuleAdded(c, ok) => rules'[c] = rules[c] + 1
<1>1. MaxRules \in Nat /\ rules \in [Addrs -> 0..MaxRules]
  BY BlockerAssumption DEF TypeInv, TypeOK
<1>2. CASE ~ok
  <2>1. rules' = rules
    BY <1>2 DEF RuleDeleted, RuleAdded
  <2> QED BY <1>1, <1>2, <2>1
<1>3. CASE ok /\ RuleDeleted(c, ok)
  <2>1. rules[c] > 0 /\ rules' = [rules EXCEPT ![c] = @ - 1]
    BY <1>3 DEF RuleDeleted
  <2>2. rules'[c] = rules[c] - 1
    BY <1>1, <2>1
  <2>3. rules' \in [Addrs -> 0..MaxRules]
    BY <1>1, <2>1
  <2>4. ~RuleAdded(c, ok)
    BY <1>1, <1>3, <2>2 DEF RuleAdded
  <2>5. /\ \A a \in Addrs : a # c => rules'[a] = rules[a]
        /\ rules'[c] \in Nat /\ rules[c] \in Nat
    BY <1>1, <2>1, <2>3
  <2> QED BY <1>3, <2>2, <2>3, <2>4, <2>5, Zenon
<1>4. CASE ok /\ RuleAdded(c, ok)
  <2>1. rules[c] < MaxRules /\ rules' = [rules EXCEPT ![c] = @ + 1]
    BY <1>4 DEF RuleAdded
  <2>2. rules'[c] = rules[c] + 1
    BY <1>1, <2>1
  <2>3. rules' \in [Addrs -> 0..MaxRules]
    BY <1>1, <2>1
  <2>4. ~RuleDeleted(c, ok)
    BY <1>1, <1>4, <2>2 DEF RuleDeleted
  <2>5. /\ \A a \in Addrs : a # c => rules'[a] = rules[a]
        /\ rules'[c] \in Nat /\ rules[c] \in Nat
    BY <1>1, <2>1, <2>3
  <2> QED BY <1>4, <2>2, <2>3, <2>4, <2>5, Zenon
<1> QED BY <1>2, <1>3, <1>4

\* expire_blocks deletes a rule; manual_unblock does.
LEMMA DeleteGood ==
  ASSUME TypeInv, NEW t \in Threads, ExpireDelete(t) \/ UnblockDelete(t)
  PROVE  \E f \in Frame : Good(t, f)
<1> DEFINE f == frame[t]
<1>f. f \in Frame /\ FrameOK(f)
  BY DEF TypeInv, TypeOK
<1>1. CASE ExpireDelete(t)
  <2>1. PICK c \in f.expired, ok \in BOOLEAN :
           /\ RuleDeleted(c, ok)
           /\ Become(t, [f EXCEPT !.pc = "pop_until", !.cur = c])
           /\ orphans' = IF ~ok /\ rules[c] > 0 THEN orphans \cup {c} ELSE orphans \ {c}
    BY <1>1 DEF ExpireDelete
  <2> DEFINE g == [f EXCEPT !.pc = "pop_until", !.cur = c]
  <2>2. f.pc = "expire" /\ UNCHANGED <<until, last>>
    BY <1>1 DEF ExpireDelete, At
  <2>3. /\ g \in Frame /\ FrameOK(g) /\ c \in Addrs
        /\ g.pc = "pop_until" /\ g.cur = c /\ g.expired = f.expired
    BY <1>f, <2>2 DEF Frame, FrameOK, Blocking
  <2>4. frame' = [frame EXCEPT ![t] = g] /\ frame'[t] = g
    BY <2>1 DEF Become, TypeInv, TypeOK
  <2> HIDE DEF g
  <2>5. /\ rules' \in [Addrs -> 0..MaxRules]
        /\ \A a \in Addrs : a # c => rules'[a] = rules[a]
        /\ rules'[c] \in Nat /\ rules[c] \in Nat
        /\ IF ok THEN rules'[c] = rules[c] - 1 ELSE rules'[c] = rules[c]
    BY <2>1, <2>3, RuleCommand
  <2>6. orphans' \subseteq Addrs /\ \A a \in Addrs : a # c => (a \in orphans' <=> a \in orphans)
    BY <2>1, <2>3 DEF TypeInv, TypeOK
  <2>7. ASSUME NEW a \in Addrs, a \notin Touching(f) PROVE Same(a)
    BY <2>1, <2>2, <2>5, <2>6, <2>7 DEF Touching, Same
  <2>8. ASSUME NEW a \in Addrs, Local(t, a), rules[a] < 2 PROVE Local(t, a)'
    <3>1. CASE a = c
      <4>1. rules'[a] > 0 <=> a \in orphans'
        BY <2>1, <2>5, <2>8, <3>1
      <4>2. Phase(t, a)'
        BY <2>3, <2>4, <3>1, <4>1 DEF Phase
      <4>3. Unsettled(frame[t], a)'
        BY <2>3, <2>4, <3>1 DEF Unsettled
      <4> QED BY <4>2, <4>3 DEF Local
    <3>2. CASE a # c
      <4>1. Consistent(a)'
        BY <2>2, <2>5, <2>6, <2>8, <3>2 DEF Local, Unsettled, Consistent
      <4>2. Phase(t, a)'
        BY <2>2, <2>3, <2>4, <2>8, <3>2 DEF Local, Phase
      <4> QED BY <4>1, <4>2 DEF Local
    <3> QED BY <3>1, <3>2
  <2>9. until' \in [Addrs -> Nat \cup {Absent}] /\ last' \in [Addrs -> 0..Cooldown]
    BY <2>2 DEF TypeInv, TypeOK
  <2> QED
    BY <2>3, <2>4, <2>5, <2>6, <2>7, <2>8, <2>9 DEF Good
<1>2. CASE UnblockDelete(t)
  <2> DEFINE c == f.cur
  <2>1. PICK ok \in BOOLEAN :
           /\ RuleDeleted(c, ok)
           /\ IF ok THEN Goto(t, "pop_until") /\ orphans' = orphans \ {c}
                    ELSE Return(t) /\ UNCHANGED orphans
    BY <1>2 DEF UnblockDelete
  <2>2. f.pc = "delete" /\ c \in Addrs /\ f.expired = {c} /\ UNCHANGED <<until, last>>
    BY <1>2, <1>f DEF UnblockDelete, At, FrameOK, Frame
  <2>3. CASE ok
    <3> DEFINE g == [f EXCEPT !.pc = "pop_until"]
    <3>1. g \in Frame /\ FrameOK(g) /\ g.pc = "pop_until" /\ g.cur = c /\ g.expired = {c}
      BY <1>f, <2>2 DEF Frame, FrameOK, Blocking
    <3>2. frame' = [frame EXCEPT ![t] = g] /\ frame'[t] = g
      BY <2>1, <2>3 DEF Become, Goto, TypeInv, TypeOK
    <3> HIDE DEF g, c
    <3>3. /\ rules' \in [Addrs -> 0..MaxRules]
          /\ \A a \in Addrs : a # c => rules'[a] = rules[a]
          /\ rules[c] \in Nat /\ rules'[c] \in Nat /\ rules'[c] = rules[c] - 1
      BY <2>1, <2>2, <2>3, RuleCommand
    <3>4. orphans' \subseteq Addrs /\ orphans' = orphans \ {c}
      BY <2>1, <2>3 DEF TypeInv, TypeOK
    <3>5. ASSUME NEW a \in Addrs, a \notin Touching(f) PROVE Same(a)
      BY <2>2, <3>3, <3>4, <3>5 DEF Touching, Same
    <3>6. ASSUME NEW a \in Addrs, Local(t, a), rules[a] < 2 PROVE Local(t, a)'
      <4>1. CASE a = c
        <5>1. ~(rules'[a] > 0) /\ a \notin orphans'
          BY <3>3, <3>4, <3>6, <4>1
        <5> QED BY <3>1, <3>2, <4>1, <5>1 DEF Local, Phase, Unsettled
      <4>2. CASE a # c
        <5>1. Consistent(a)'
          BY <2>2, <3>3, <3>4, <3>6, <4>2 DEF Local, Unsettled, Consistent
        <5> QED BY <3>1, <3>2, <4>2, <5>1 DEF Local, Phase
      <4> QED BY <4>1, <4>2
    <3>7. until' \in [Addrs -> Nat \cup {Absent}] /\ last' \in [Addrs -> 0..Cooldown]
      BY <2>2 DEF TypeInv, TypeOK
    <3> QED
      BY <3>1, <3>2, <3>3, <3>4, <3>5, <3>6, <3>7 DEF Good
  <2>4. CASE ~ok
    <3>1. Rest.pc = "idle" /\ Rest.expired = {}
      BY DEF Rest
    <3>2. UNCHANGED <<rules, until, last, orphans>> /\ frame' = [frame EXCEPT ![t] = Rest]
      BY <2>1, <2>2, <2>4 DEF RuleDeleted, Return, Become
    <3>3. Good(t, Rest)
      BY <2>2, <3>1, <3>2, RestFrame, QuietStep
    <3> QED BY RestFrame, <3>3
  <2> QED BY <2>3, <2>4
<1> QED BY <1>1, <1>2

\* The two entries of an unblocked address are dropped.
LEMMA PopGood ==
  ASSUME TypeInv, NEW t \in Threads, PopUntil(t) \/ PopLast(t)
  PROVE  \E f \in Frame : Good(t, f)
<1> DEFINE f == frame[t]
           c == f.cur
<1>f. f \in Frame /\ FrameOK(f) /\ Cooldown \in Nat
  BY BlockerAssumption DEF TypeInv, TypeOK
<1>1. CASE PopUntil(t)
  <2> DEFINE g == [f EXCEPT !.pc = "pop_last"]
  <2>1. /\ f.pc = "pop_until" /\ c \in Addrs /\ c \in f.expired
        /\ UNCHANGED <<rules, last, orphans>>
        /\ until' = [until EXCEPT ![c] = Absent]
    BY <1>1, <1>f DEF PopUntil, At, FrameOK, Frame
  <2>2. /\ g \in Frame /\ FrameOK(g)
        /\ g.pc = "pop_last" /\ g.cur = c /\ g.expired = f.expired
    BY <1>f, <2>1 DEF Frame, FrameOK, Blocking
  <2>3. frame' = [frame EXCEPT ![t] = g] /\ frame'[t] = g
    BY <1>1 DEF PopUntil, Goto, Become, TypeInv, TypeOK
  <2> HIDE DEF g, c
  <2>4. /\ until' \in [Addrs -> Nat \cup {Absent}]
        /\ until'[c] = Absent /\ \A a \in Addrs : a # c => until'[a] = until[a]
    BY <2>1 DEF TypeInv, TypeOK
  <2>5. ASSUME NEW a \in Addrs, a \notin Touching(f) PROVE Same(a)
    BY <2>1, <2>4, <2>5 DEF Touching, Same
  <2>6. ASSUME NEW a \in Addrs, Local(t, a) PROVE Local(t, a)'
    <3>1. CASE a = c
      BY <2>1, <2>2, <2>3, <2>4, <2>6, <3>1 DEF Local, Phase, Unsettled, c
    <3>2. CASE a # c
      <4>1. Consistent(a)'
        BY <2>1, <2>4, <2>6, <3>2 DEF Local, Unsettled, Consistent, c
      <4> QED BY <2>1, <2>2, <2>3, <2>4, <2>6, <3>2, <4>1 DEF Local, Phase, c
    <3> QED BY <3>1, <3>2
  <2>7. /\ rules' \in [Addrs -> 0..MaxRules] /\ last' \in [Addrs -> 0..Cooldown]
        /\ orphans' \subseteq Addrs
    BY <2>1 DEF TypeInv, TypeOK
  <2> QED BY <2>2, <2>3, <2>4, <2>5, <2>6, <2>7 DEF Good
<1>2. CASE PopLast(t)
  <2>1. /\ f.pc = "pop_last" /\ c \in Addrs /\ c \in f.expired
        /\ UNCHANGED <<rules, until, orphans>>
        /\ last' = [last EXCEPT ![c] = 0]
    BY <1>2, <1>f DEF PopLast, At, FrameOK, Frame
  <2>2. \E g \in Frame :
           /\ FrameOK(g) /\ Become(t, g)
           /\ g.pc \in {"idle", "cooldown", "expire"}
           /\ g.expired \subseteq f.expired \ {c}
    <3>1. CASE f.expired \subseteq {c}
      <4>1. Resume(t)
        BY <1>2, <3>1 DEF PopLast
      <4>2. PICK g \in Frame : /\ FrameOK(g) /\ Become(t, g)
                               /\ g.expired = {} /\ g.pc \in {"idle", "cooldown"}
        BY <4>1, ResumeFrame
      <4> QED BY <4>2
    <3>2. CASE ~(f.expired \subseteq {c})
      <4> DEFINE g == [f EXCEPT !.pc = "expire", !.cur = NoAddr, !.expired = @ \ {c}]
      <4>1. Become(t, g)
        BY <1>2, <3>2 DEF PopLast
      <4>2. g \in Frame /\ FrameOK(g) /\ g.pc = "expire" /\ g.expired = f.expired \ {c}
        BY <1>f, <2>1 DEF Frame, FrameOK, Blocking
      <4> QED BY <4>1, <4>2
    <3> QED BY <3>1, <3>2
  <2>3. PICK g \in Frame :
           /\ FrameOK(g) /\ Become(t, g)
           /\ g.pc \in {"idle", "cooldown", "expire"}
           /\ g.expired \subseteq f.expired \ {c}
    BY <2>2
  <2>4. frame' = [frame EXCEPT ![t] = g] /\ frame'[t] = g
    BY <2>3 DEF Become, TypeInv, TypeOK
  <2> HIDE DEF c
  <2>5. /\ last' \in [Addrs -> 0..Cooldown]
        /\ last'[c] = 0 /\ \A a \in Addrs : a # c => last'[a] = last[a]
    BY <1>f, <2>1 DEF TypeInv, TypeOK
  <2>6. ASSUME NEW a \in Addrs, a \notin Touching(f) PROVE Same(a)
    BY <2>1, <2>5, <2>6 DEF Touching, Same
  <2>7. ASSUME NEW a \in Addrs, Local(t, a) PROVE Local(t, a)'
    <3>1. Consistent(a)'
      <4>1. CASE a = c
        BY <2>1, <2>5, <2>7, <4>1 DEF Local, Phase, Consistent, c
      <4>2. CASE a # c
        BY <2>1, <2>5, <2>7, <4>2 DEF Local, Unsettled, Consistent, c
      <4> QED BY <4>1, <4>2
    <3>2. Phase(t, a)'
      BY <2>1, <2>3, <2>4, <2>7 DEF Local, Phase, c
    <3> QED BY <3>1, <3>2 DEF Local
  <2>8. /\ rules' \in [Addrs -> 0..MaxRules] /\ until' \in [Addrs -> Nat \cup {Absent}]
        /\ orphans' \subseteq Addrs
    BY <2>1 DEF TypeInv, TypeOK
  <2> QED BY <2>3, <2>4, <2>5, <2>6, <2>7, <2>8 DEF Good
<1> QED BY <1>1, <1>2

\* temp_block up to the rule: it is looked up twice and added.
LEMMA LookGood ==
  ASSUME TypeInv, NEW t \in Threads,
         \/ CheckCooldown(t)
         \/ CheckRule(t, "check", "exists")
         \/ CheckRule(t, "exists", "add")
  PROVE  \E f \in Frame : Good(t, f)
<1> DEFINE f == frame[t]
           G(step) == [f EXCEPT !.pc = step]
<1>f. f \in Frame /\ FrameOK(f)
  BY DEF TypeInv, TypeOK
<1>1. ASSUME NEW step \in {"check", "exists", "add", "set_last"},
             f.pc \in {"cooldown", "check", "exists"},
             step = "set_last" => rules[f.addr] > 0,
             Become(t, G(step)), UNCHANGED <<rules, until, last, orphans>>
      PROVE  \E h \in Frame : Good(t, h)
  <2> DEFINE g == G(step)
  <2>1. /\ g \in Frame /\ FrameOK(g)
        /\ g.pc = step /\ g.addr = f.addr /\ g.expired = {}
    BY <1>f, <1>1 DEF Frame, FrameOK, Blocking
  <2>2. frame' = [frame EXCEPT ![t] = g]
    BY <1>1 DEF Become
  <2> HIDE DEF G
  <2>3. Good(t, g)
    BY <1>1, <2>1, <2>2, QuietStep
  <2> QED BY <2>1, <2>3
<1>2. CASE CheckCooldown(t)
  <2>1. /\ f.pc = "cooldown" /\ UNCHANGED <<rules, until, last, orphans>>
        /\ Become(t, Rest) \/ Become(t, G("check"))
    BY <1>2 DEF CheckCooldown, At, Return, Goto
  <2>2. CASE Become(t, Rest)
    <3>1. Rest.pc = "idle" /\ Rest.expired = {}
      BY DEF Rest
    <3>2. Good(t, Rest)
      BY <2>1, <2>2, <3>1, RestFrame, QuietStep DEF Become
    <3> QED BY RestFrame, <3>2
  <2>3. CASE Become(t, G("check"))
    BY <1>1, <2>1, <2>3
  <2> QED BY <2>1, <2>2, <2>3
<1>3. ASSUME NEW step \in {"check", "exists"}, NEW next \in {"exists", "add"},
             CheckRule(t, step, next)
      PROVE  \E h \in Frame : Good(t, h)
  <2>1. PICK yes \in BOOLEAN :
           RuleReported(f.addr, yes) /\ Goto(t, IF yes THEN "set_last" ELSE next)
    BY <1>3 DEF CheckRule
  <2>2. f.pc = step /\ UNCHANGED <<rules, until, last, orphans>>
    BY <1>3 DEF CheckRule, At
  <2>3. CASE yes
    <3>1. rules[f.addr] > 0
      BY <2>1, <2>3 DEF RuleReported
    <3>2. Become(t, G("set_last"))
      BY <2>1, <2>3 DEF Goto
    <3> QED BY <1>1, <2>2, <3>1, <3>2
  <2>4. CASE ~yes
    <3>1. Become(t, G(next))
      BY <2>1, <2>4 DEF Goto
    <3>2. next # "set_last"
      OBVIOUS
    <3> QED BY <1>1, <2>2, <3>1, <3>2
  <2> QED BY <2>3, <2>4
<1> QED BY <1>2, <1>3

\* temp_block adds the rule and then notes the block.
LEMMA BlockGood ==
  ASSUME TypeInv, NEW t \in Threads, AddRule(t) \/ SetLast(t) \/ SetUntil(t)
  PROVE  \E f \in Frame : Good(t, f)
<1> DEFINE f == frame[t]
           c == f.addr
<1>f. /\ f \in Frame /\ FrameOK(f) /\ f.pc \in Blocking /\ c \in Addrs /\ f.expired = {}
      /\ f.age \in Nat /\ f.duration \in Nat /\ Cooldown \in Nat
  <2>1. f \in Frame /\ FrameOK(f)
    BY DEF TypeInv, TypeOK
  <2>2. f.pc \in Blocking
    BY DEF AddRule, SetLast, SetUntil, At, Blocking
  <2>3. c \in Addrs /\ f.expired = {}
    BY <2>1, <2>2 DEF FrameOK
  <2>4. f.age \in 0..MaxLag /\ f.duration \in Durations \cup {0}
    BY <2>1 DEF Frame
  <2>5. f.age \in Nat /\ f.duration \in Nat /\ Cooldown \in Nat
    <3>1. \A d \in Durations \cup {0} : d \in Nat
      BY BlockerAssumption DEF Durations
    <3>2. MaxLag \in Nat /\ Cooldown \in Nat
      BY BlockerAssumption
    <3> HIDE DEF f
    <3>3. f.duration \in Nat
      BY <2>4, <3>1
    <3>4. f.age \in Nat
      BY <2>4, <3>2
    <3> QED BY <3>2, <3>3, <3>4
  <2> QED BY <2>1, <2>2, <2>3, <2>5
<1>c. c \in Touching(f)
  BY <1>f DEF Touching
<1>1. CASE AddRule(t)
  <2>1. PICK ok \in BOOLEAN :
           RuleAdded(c, ok) /\ IF ok THEN Goto(t, "set_last") ELSE Return(t)
    BY <1>1 DEF AddRule
  <2>2. f.pc = "add" /\ UNCHANGED <<until, last, orphans>>
    BY <1>1 DEF AddRule, At
  <2>3. CASE ok
    <3> DEFINE g == [f EXCEPT !.pc = "set_last"]
    <3>1. g \in Frame /\ FrameOK(g) /\ g.pc = "set_last" /\ g.addr = c /\ g.expired = {}
      BY <1>f, <2>2 DEF Frame, FrameOK, Blocking
    <3>2. frame' = [frame EXCEPT ![t] = g] /\ frame'[t] = g
      BY <2>1, <2>3 DEF Become, Goto, TypeInv, TypeOK
    <3> HIDE DEF g, c
    <3>3. /\ rules' \in [Addrs -> 0..MaxRules]
          /\ \A a \in Addrs : a # c => rules'[a] = rules[a]
          /\ rules[c] \in Nat /\ rules'[c] = rules[c] + 1
      BY <1>f, <2>1, <2>3, RuleCommand
    <3>4. ASSUME NEW a \in Addrs, a \notin Touching(f) PROVE Same(a)
      BY <1>c, <2>2, <3>3, <3>4 DEF Same
    <3>5. ASSUME NEW a \in Addrs, Local(t, a) PROVE Local(t, a)'
      <4>1. CASE a = c
        <5>1. rules'[a] > 0
          BY <3>3, <4>1
        <5> QED BY <3>1, <3>2, <4>1, <5>1 DEF Local, Phase, Unsettled
      <4>2. CASE a # c
        <5>1. Consistent(a)'
          BY <2>2, <3>3, <3>5, <4>2 DEF Local, Unsettled, Consistent
        <5> QED BY <3>1, <3>2, <4>2, <5>1 DEF Local, Phase
      <4> QED BY <4>1, <4>2
    <3>6. /\ until' \in [Addrs -> Nat \cup {Absent}] /\ last' \in [Addrs -> 0..Cooldown]
          /\ orphans' \subseteq Addrs
      BY <2>2 DEF TypeInv, TypeOK
    <3> QED BY <3>1, <3>2, <3>3, <3>4, <3>5, <3>6 DEF Good
  <2>4. CASE ~ok
    <3>1. Rest.pc = "idle" /\ Rest.expired = {}
      BY DEF Rest
    <3>2. UNCHANGED <<rules, until, last, orphans>> /\ frame' = [frame EXCEPT ![t] = Rest]
      BY <2>1, <2>2, <2>4 DEF RuleAdded, Return, Become
    <3>3. Good(t, Rest)
      BY <2>2, <3>1, <3>2, RestFrame, QuietStep
    <3> QED BY RestFrame, <3>3
  <2> QED BY <2>3, <2>4
<1>2. CASE SetLast(t)
  <2> DEFINE g == [f EXCEPT !.pc = "set_until"]
             n == Left(Cooldown, f.age)
  <2>1. /\ f.pc = "set_last" /\ last' = [last EXCEPT ![c] = n]
        /\ UNCHANGED <<rules, until, orphans>>
    BY <1>2 DEF SetLast, At
  <2>2. g \in Frame /\ FrameOK(g) /\ g.pc = "set_until" /\ g.addr = c /\ g.expired = {}
    BY <1>f, <2>1 DEF Frame, FrameOK, Blocking
  <2>3. frame' = [frame EXCEPT ![t] = g] /\ frame'[t] = g
    BY <1>2 DEF SetLast, Become, Goto, TypeInv, TypeOK
  <2>4. n \in 0..Cooldown
    BY <1>f, LeftType
  <2> HIDE DEF g, c, n
  <2>5. /\ last' \in [Addrs -> 0..Cooldown]
        /\ \A a \in Addrs : a # c => last'[a] = last[a]
    BY <1>f, <2>1, <2>4 DEF TypeInv, TypeOK
  <2>6. ASSUME NEW a \in Addrs, a \notin Touching(f) PROVE Same(a)
    BY <1>c, <2>1, <2>5, <2>6 DEF Same
  <2>7. ASSUME NEW a \in Addrs, Local(t, a) PROVE Local(t, a)'
    <3>1. CASE a = c
      BY <2>1, <2>2, <2>3, <2>7, <3>1 DEF Local, Phase, Unsettled, c
    <3>2. CASE a # c
      <4>1. Consistent(a)'
        BY <2>1, <2>5, <2>7, <3>2 DEF Local, Unsettled, Consistent, c
      <4> QED BY <2>2, <2>3, <3>2, <4>1 DEF Local, Phase
    <3> QED BY <3>1, <3>2
  <2>8. /\ until' \in [Addrs -> Nat \cup {Absent}] /\ rules' \in [Addrs -> 0..MaxRules]
        /\ orphans' \subseteq Addrs
    BY <2>1 DEF TypeInv, TypeOK
  <2> QED BY <2>2, <2>3, <2>5, <2>6, <2>7, <2>8 DEF Good
<1>3. CASE SetUntil(t)
  <2> DEFINE n == Left(f.duration, f.age)
  <2>1. /\ f.pc = "set_until" /\ until' = [until EXCEPT ![c] = n]
        /\ orphans' = orphans \ {c} /\ UNCHANGED <<rules, last>>
    BY <1>3 DEF SetUntil, At
  <2>2. Rest.pc = "idle" /\ Rest.expired = {}
    BY DEF Rest
  <2>3. frame' = [frame EXCEPT ![t] = Rest] /\ frame'[t] = Rest
    BY <1>3 DEF SetUntil, Become, Return, TypeInv, TypeOK
  <2>4. n \in Nat /\ n # Absent
    <3>1. n \in 0..f.duration
      BY <1>f, LeftType
    <3> HIDE DEF n
    <3> QED BY <1>f, <3>1 DEF Absent
  <2> HIDE DEF c, n
  <2>5. /\ until' \in [Addrs -> Nat \cup {Absent}] /\ until'[c] = n
        /\ \A a \in Addrs : a # c => until'[a] = until[a]
    BY <1>f, <2>1, <2>4 DEF TypeInv, TypeOK
  <2>6. ASSUME NEW a \in Addrs, a \notin Touching(f) PROVE Same(a)
    BY <1>c, <2>1, <2>5, <2>6 DEF Same
  <2>7. ASSUME NEW a \in Addrs, Local(t, a) PROVE Local(t, a)'
    <3>1. Consistent(a)'
      <4>1. CASE a = c
        BY <2>1, <2>4, <2>5, <2>7, <4>1 DEF Local, Phase, Consistent, c
      <4>2. CASE a # c
        BY <2>1, <2>5, <2>7, <4>2 DEF Local, Unsettled, Consistent, c
      <4> QED BY <4>1, <4>2
    <3> QED BY <2>2, <2>3, <3>1 DEF Local, Phase
  <2>8. /\ last' \in [Addrs -> 0..Cooldown] /\ rules' \in [Addrs -> 0..MaxRules]
        /\ orphans' \subseteq Addrs
    BY <2>1 DEF TypeInv, TypeOK
  <2>9. Good(t, Rest)
    BY <2>2, <2>3, <2>5, <2>6, <2>7, <2>8, RestFrame DEF Good
  <2> QED BY <2>9, RestFrame
<1> QED BY <1>1, <1>2, <1>3

----------------------------------------------------------------------------
\* Every step of a thread keeps the invariant.
LEMMA ThreadStep ==
  ASSUME IInv, NEW t \in Threads, Call(t) \/ Step(t), Taints
  PROVE  IInv'
<1>1. TypeInv
  BY DEF IInv, TypeInv
<1>2. PICK f \in Frame : Good(t, f)
  BY <1>1, CallGood, ScanGood, DeleteGood, PopGood, LookGood, BlockGood DEF Step
<1>3. /\ frame' \in [Threads -> Frame] /\ frame'[t] = f
      /\ \A u \in Threads : u # t => frame'[u] = frame[u]
  BY <1>1, <1>2 DEF Good, TypeInv, TypeOK
<1>4. TypeOK'
  BY <1>1, <1>2, <1>3 DEF Good, TypeInv, TypeOK, Taints, Overlapping, Doubled
<1>5. \A u \in Threads : FrameOK(frame'[u])
  BY <1>1, <1>2, <1>3 DEF Good, TypeInv
<1>u. Unblockers'
  BY <1>2, <1>3 DEF IInv, Unblockers, At, Good
<1>6. Covered'
  BY DEF Covered, Taints
<1>7. ASSUME NEW a \in Addrs \ tainted' PROVE Settled(a)'
  <2>1. a \notin tainted /\ a \notin Doubled /\ a \notin Overlapping /\ a \notin Overlapping'
    BY <1>7, <1>6 DEF Taints, IInv, Covered
  <2>2. Settled(a)
    BY <2>1 DEF IInv
  <2>3. CASE a \notin Touching(frame[t]) /\ a \notin Touching(frame'[t])
    <3>1. Same(a)
      BY <1>2, <2>3 DEF Good
    <3>2. ~Unsettled(frame[t], a) /\ ~Unsettled(frame'[t], a)
      BY <1>1, <1>5, <2>3 DEF TypeInv, FrameOK, Touching, Unsettled, Blocking
    <3>3. Phase(t, a)'
      BY <1>5, <2>3 DEF FrameOK, Touching, Phase, Blocking
    <3>4. ASSUME NEW u \in Threads, u # t PROVE Phase(u, a)'
      BY <1>3, <2>2, <3>1, <3>4 DEF Settled, Same, Phase
    <3>5. (\A u \in Threads : ~Unsettled(frame'[u], a)) => Consistent(a)'
      BY <1>3, <2>2, <3>1, <3>2 DEF Settled, Same, Consistent
    <3> QED BY <3>3, <3>4, <3>5 DEF Settled
  <2>4. CASE a \in Touching(frame[t]) \/ a \in Touching(frame'[t])
    <3>1. ASSUME NEW u \in Threads, u # t
          PROVE  a \notin Touching(frame[u]) /\ a \notin Touching(frame'[u])
      BY <1>3, <2>1, <2>4, <3>1 DEF Overlapping
    <3>2. ASSUME NEW u \in Threads, u # t
          PROVE  ~Unsettled(frame[u], a)
      BY <1>1, <3>1, <3>2 DEF TypeInv, FrameOK, Touching, Unsettled, Blocking
    <3>3. ASSUME NEW u \in Threads, u # t
          PROVE  Phase(u, a)'
      BY <1>5, <3>1, <3>3 DEF FrameOK, Touching, Phase, Blocking
    <3>4. Local(t, a)
      BY <2>2, <3>2 DEF Settled, Local
    <3>5. rules[a] < 2
      BY <1>1, <2>1 DEF Doubled, TypeInv, TypeOK
    <3>6. Local(t, a)'
      BY <1>2, <3>4, <3>5 DEF Good
    <3> QED BY <3>3, <3>6 DEF Settled, Local
  <2> QED BY <2>3, <2>4
<1> QED BY <1>4, <1>5, <1>6, <1>7, <1>u DEF IInv

\* A tick of the clock keeps the invariant: it neither creates nor drops an entry.
LEMMA TickStep ==
  ASSUME IInv, Tick, Taints
  PROVE  IInv'
<1>1. /\ TypeOK /\ MaxLag \in Nat /\ Cooldown \in Nat
      /\ UNCHANGED <<rules, orphans>>
      /\ \A t \in Threads : frame[t] \in Frame /\ FrameOK(frame[t])
  BY BlockerAssumption DEF IInv, TypeOK, Tick
<1>2. \A t \in Threads : \E n \in 0..MaxLag : frame'[t] = [frame[t] EXCEPT !.age = n]
  <2> SUFFICES ASSUME NEW t \in Threads
               PROVE  \E n \in 0..MaxLag : frame'[t] = [frame[t] EXCEPT !.age = n]
    OBVIOUS
  <2>1. frame'[t] = IF frame[t].pc \in Blocking /\ frame[t].age < MaxLag
                    THEN [frame[t] EXCEPT !.age = @ + 1] ELSE frame[t]
    BY DEF Tick
  <2>2. frame[t].age \in 0..MaxLag
    BY <1>1 DEF Frame
  <2>3. CASE frame[t].pc \in Blocking /\ frame[t].age < MaxLag
    BY <1>1, <2>1, <2>2, <2>3
  <2>4. CASE ~(frame[t].pc \in Blocking /\ frame[t].age < MaxLag)
    <3>1. frame[t] = [frame[t] EXCEPT !.age = frame[t].age]
      BY <1>1 DEF Frame
    <3> QED BY <2>1, <2>2, <2>4, <3>1
  <2> QED BY <2>3, <2>4
<1>3. \A t \in Threads :
         /\ frame'[t] \in Frame
         /\ frame'[t].pc = frame[t].pc /\ frame'[t].addr = frame[t].addr
         /\ frame'[t].expired = frame[t].expired
         /\ frame'[t].cur = frame[t].cur /\ frame'[t].ret = frame[t].ret
  <2> SUFFICES ASSUME NEW t \in Threads
               PROVE  /\ frame'[t] \in Frame
                      /\ frame'[t].pc = frame[t].pc /\ frame'[t].addr = frame[t].addr
                      /\ frame'[t].expired = frame[t].expired
                      /\ frame'[t].cur = frame[t].cur /\ frame'[t].ret = frame[t].ret
    OBVIOUS
  <2>1. PICK n \in 0..MaxLag : frame'[t] = [frame[t] EXCEPT !.age = n]
    BY <1>2
  <2>2. frame[t] \in Frame
    BY <1>1
  <2> QED BY <2>1, <2>2 DEF Frame
<1>4. \A t \in Threads : FrameOK(frame'[t])
  BY <1>1, <1>3 DEF FrameOK
<1>5. /\ until' \in [Addrs -> Nat \cup {Absent}]
      /\ \A a \in Addrs : /\ until'[a] = Absent <=> until[a] = Absent
                          /\ until[a] = 0 => until'[a] = 0
  BY <1>1 DEF Tick, TypeOK, Absent
<1>6. /\ last' \in [Addrs -> 0..Cooldown]
      /\ \A a \in Addrs : last'[a] > 0 => last[a] > 0
  BY <1>1 DEF Tick, TypeOK, Left
<1>7. frame' \in [Threads -> Frame]
  BY <1>3 DEF Tick
<1>8. TypeOK'
  BY <1>1, <1>5, <1>6, <1>7 DEF TypeOK, Taints, Overlapping, Doubled
<1>9. Covered'
  BY DEF Covered, Taints
<1>10. ASSUME NEW a \in Addrs \ tainted' PROVE Settled(a)'
  <2>1. Settled(a)
    BY <1>10 DEF Taints, IInv
  <2>s. /\ rules'[a] = rules[a] /\ (a \in orphans' <=> a \in orphans)
        /\ until'[a] = Absent <=> until[a] = Absent
        /\ until[a] = 0 => until'[a] = 0
        /\ last'[a] > 0 => last[a] > 0
    <3>1. a \in Addrs
      BY <1>10
    <3>2. /\ until'[a] = Absent <=> until[a] = Absent
          /\ until[a] = 0 => until'[a] = 0
      BY <1>5, <3>1
    <3>3. last'[a] > 0 => last[a] > 0
      BY <1>6, <3>1
    <3> QED BY <1>1, <3>2, <3>3
  <2>u. \A t \in Threads : Unsettled(frame'[t], a) <=> Unsettled(frame[t], a)
    BY <1>3 DEF Unsettled
  <2>2. (\A t \in Threads : ~Unsettled(frame'[t], a)) => Consistent(a)'
    BY <2>1, <2>s, <2>u DEF Settled, Consistent
  <2>3. ASSUME NEW t \in Threads PROVE Phase(t, a)'
    <3>1. Phase(t, a)
      BY <2>1 DEF Settled
    <3> QED BY <1>3, <2>s, <3>1 DEF Phase
  <2> QED BY <2>2, <2>3 DEF Settled
<1>u. Unblockers'
  BY <1>3 DEF IInv, Unblockers, At
<1> QED BY <1>4, <1>8, <1>9, <1>10, <1>u DEF IInv

\* A restart leaves rules without entries, and nothing else.
LEMMA RestartStep ==
  ASSUME IInv, Restart, tainted' = Doubled
  PROVE  IInv'
<1>1. \A t \in Threads : frame'[t] = Rest
  BY DEF Restart
<1>2. TypeOK'
  BY BlockerAssumption, RestFrame DEF IInv, TypeOK, Restart, Doubled
<1>3. \A t \in Threads : FrameOK(frame'[t])
  BY <1>1, RestFrame
<1>4. Rest.pc = "idle" /\ Rest.expired = {}
  BY DEF Rest
<1>5. \A t \in Threads : Touching(frame'[t]) = {}
  BY <1>1, <1>4 DEF Touching, Blocking
<1>6. Covered'
  BY <1>5 DEF Covered, Overlapping, Doubled, Restart
<1>7. ASSUME NEW a \in Addrs PROVE Settled(a)'
  <2>1. until'[a] = Absent /\ last'[a] = 0 /\ (rules'[a] > 0 <=> a \in orphans')
    BY DEF Restart
  <2>2. Consistent(a)'
    BY <2>1 DEF Consistent
  <2>3. \A t \in Threads : Phase(t, a)'
    BY <1>1, <1>4 DEF Phase
  <2> QED BY <2>2, <2>3 DEF Settled
<1>u. Unblockers'
  BY <1>1, <1>4 DEF Unblockers, At
<1> QED BY <1>2, <1>3, <1>6, <1>7, <1>u DEF IInv

\* The invariant holds of every state the blocker can reach.
THEOREM Invariance == Spec => []IInv
<1>1. Init => IInv
  <2> SUFFICES ASSUME Init PROVE IInv
    OBVIOUS
  <2>1. \A t \in Threads : frame[t] = Rest
    BY DEF Init
  <2>2. Rest.pc = "idle" /\ Rest.expired = {}
    BY DEF Rest
  <2>3. TypeOK
    BY BlockerAssumption, RestFrame DEF Init, TypeOK
  <2>4. Covered
    BY <2>1, <2>2 DEF Init, Covered, Overlapping, Doubled, Touching, Blocking
  <2>5. ASSUME NEW a \in Addrs PROVE Settled(a)
    BY <2>1, <2>2 DEF Init, Settled, Consistent, Phase
  <2>6. Unblockers
    BY <2>1, <2>2 DEF Unblockers, At
  <2> QED BY <2>1, <2>3, <2>4, <2>5, <2>6, RestFrame DEF IInv
<1>2. IInv /\ [Next]_vars => IInv'
  <2> SUFFICES ASSUME IInv, [Next]_vars PROVE IInv'
    OBVIOUS
  <2>1. CASE Next
    BY <2>1, ThreadStep, TickStep, RestartStep DEF Next
  <2>2. CASE UNCHANGED vars
    BY <2>2 DEF vars, IInv, TypeOK, Unblockers, At, Covered, Overlapping, Doubled, Settled, Consistent, Phase
  <2> QED BY <2>1, <2>2
<1> QED BY <1>1, <1>2, PTL DEF Spec

\* The tables and the frames of the threads keep their types, and so at most
\* Cooldown seconds of a cooldown are ever left.
THEOREM TypeCorrect == Spec => []TypeOK
<1>1. IInv => TypeOK
  BY DEF IInv
<1> QED BY <1>1, Invariance, PTL

\* auto_blocker.py keeps _blocked_until in step with the firewall: an address no
\* two threads worked on at once is blocked exactly when it is tracked, or when
\* its rule was left behind by a failed unblock or a restart.
THEOREM TrackedExactly == Spec => []TrackedIffBlocked
<1>1. ASSUME IInv PROVE TrackedIffBlocked
  <2> SUFFICES ASSUME NEW a \in Addrs, AtRest(a)
               PROVE  rules[a] > 0 <=> until[a] # Absent \/ a \in orphans
    BY DEF TrackedIffBlocked
  <2>1. Settled(a)
    BY <1>1 DEF AtRest, IInv
  <2>2. \A t \in Threads : ~Unsettled(frame[t], a)
    BY <1>1 DEF AtRest, IInv, FrameOK, Touching, Unsettled, Blocking
  <2> QED BY <2>1, <2>2 DEF Settled, Consistent
<1> QED BY <1>1, Invariance, PTL

\* temp_block's "cooldown_active" answer is given only for blocked addresses.
THEOREM CooldownSafe == Spec => []CooldownMeansBlocked
<1>1. ASSUME IInv PROVE CooldownMeansBlocked
  <2> SUFFICES ASSUME NEW a \in Addrs, AtRest(a), last[a] > 0
               PROVE  rules[a] > 0 /\ until[a] # Absent
    BY DEF CooldownMeansBlocked
  <2>1. Settled(a)
    BY <1>1 DEF AtRest, IInv
  <2>2. \A t \in Threads : ~Unsettled(frame[t], a)
    BY <1>1 DEF AtRest, IInv, FrameOK, Touching, Unsettled, Blocking
  <2> QED BY <2>1, <2>2 DEF Settled, Consistent
<1> QED BY <1>1, Invariance, PTL

\* A rule goes away only when expire_blocks or manual_unblock deletes it.
LEMMA WhoDeletes ==
  ASSUME TypeInv, NEW t \in Threads, Call(t) \/ Step(t),
         NEW a \in Addrs, rules'[a] < rules[a]
  PROVE  \/ At(t, "expire") /\ a \in frame[t].expired
         \/ At(t, "delete") /\ frame[t].cur = a
<1>1. rules' # rules
  BY DEF TypeInv, TypeOK
<1>2. ExpireDelete(t) \/ UnblockDelete(t) \/ AddRule(t)
  BY <1>1 DEF Call, Step, StartExpire, StartUnblock, StartTempBlock, ScanBegin, ScanEnd,
              ScanRaises, PopUntil, PopLast, CheckCooldown, CheckRule, SetLast, SetUntil
<1>f. frame[t] \in Frame /\ FrameOK(frame[t])
  BY DEF TypeInv, TypeOK
<1>3. CASE ExpireDelete(t)
  <2>1. PICK c \in frame[t].expired, ok \in BOOLEAN : RuleDeleted(c, ok)
    BY <1>3 DEF ExpireDelete
  <2>2. c \in Addrs
    BY <1>f DEF Frame
  <2>3. a = c
    BY <2>1, <2>2, RuleCommand
  <2> QED BY <1>3, <2>3 DEF ExpireDelete
<1>4. CASE UnblockDelete(t)
  <2>1. PICK ok \in BOOLEAN : RuleDeleted(frame[t].cur, ok)
    BY <1>4 DEF UnblockDelete
  <2>2. At(t, "delete") /\ frame[t].cur \in Addrs
    BY <1>4, <1>f DEF UnblockDelete, At, FrameOK, Frame
  <2>3. a = frame[t].cur
    BY <2>1, <2>2, RuleCommand
  <2> QED BY <2>2, <2>3
<1>5. CASE AddRule(t)
  <2>1. PICK ok \in BOOLEAN : RuleAdded(frame[t].addr, ok)
    BY <1>5 DEF AddRule
  <2>2. rules \in [Addrs -> 0..MaxRules] /\ MaxRules \in Nat
    BY BlockerAssumption DEF TypeInv, TypeOK
  <2>3. ok /\ rules' = [rules EXCEPT ![frame[t].addr] = @ + 1]
    BY <1>1, <2>1 DEF RuleAdded
  <2> QED BY <2>2, <2>3
<1> QED BY <1>2, <1>3, <1>4, <1>5

\* expire_blocks removes the rule of an address only when its time has come: the
\* list it made may be stale, but then another thread worked on the address too.
THEOREM NeverEarly == Spec => NoEarlyUnblock
<1>1. ASSUME IInv, [Next]_vars
      PROVE  [\A a \in Addrs : rules'[a] < rules[a] /\ until[a] > 0 =>
                a \in tainted' \/ \E t \in Commanders : At(t, "delete") /\ frame[t].cur = a]_vars
  <2> SUFFICES ASSUME Next, NEW a \in Addrs, rules'[a] < rules[a], until[a] > 0, a \notin tainted'
               PROVE  \E t \in Commanders : At(t, "delete") /\ frame[t].cur = a
    BY <1>1
  <2>1. TypeInv /\ rules[a] \in Int
    BY <1>1 DEF IInv, TypeInv, TypeOK
  <2>2. rules' # rules
    BY <2>1
  <2>3. PICK t \in Threads : (Call(t) \/ Step(t)) /\ Taints
    BY <2>2 DEF Next, Tick, Restart
  <2>4. CASE At(t, "expire") /\ a \in frame[t].expired
    <3>1. a \notin tainted
      BY <2>3 DEF Taints
    <3>2. Phase(t, a)
      BY <1>1, <3>1 DEF IInv, Settled
    <3>3. until[a] = 0
      BY <2>4, <3>2 DEF Phase, At
    <3> QED BY <3>3
  <2>5. CASE At(t, "delete") /\ frame[t].cur = a
    BY <1>1, <2>5 DEF IInv, Unblockers
  <2> QED BY <2>1, <2>3, <2>4, <2>5, WhoDeletes
<1> QED BY <1>1, Invariance, PTL DEF Spec, NoEarlyUnblock
=============================================================================
