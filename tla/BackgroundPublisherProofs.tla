--------------------- MODULE BackgroundPublisherProofs ---------------------
(***************************************************************************)
(* What store-and-forward guarantees for every number of payloads and      *)
(* faults and every limit of the queue, the store and the batches.         *)
(***************************************************************************)
EXTENDS BackgroundPublisher, FiniteSetTheorems, SequenceTheorems, TLAPS

Busy == {"publish", "spill"}
Reading == {"replay", "discard"}
Storing == {"spill", "drain"} \cup Reading

\* A worker holds a payload while it publishes or spills it; only the one worker of a
\* publisher with a store comes near the disk.
WorkersOK ==
    /\ \A w \in Workers : /\ pc[w] \in Busy <=> payload[w] # None
                          /\ pc[w] \in Storing => has_store
    /\ has_store => \A w, u \in Workers : pc[w] # "off" /\ pc[u] # "off" => w = u

Ascending(ls) == \A i, j \in DOMAIN ls : i < j /\ ls[i] # Corrupt /\ ls[j] # Corrupt => ls[i] < ls[j]
Before(S, T) == \A p \in S, q \in T : p < q

\* Payloads go from the queue through a worker's hands to the disk without overtaking.
Numbered ==
    /\ Entries(file) \cup InFlight \cup Queued \cup received \subseteq 1..next
    /\ Ascending(file) /\ Ascending(queue)
    /\ Before(Entries(file), InFlight \cup Queued) /\ Before(InFlight, Queued)
    /\ \A w, u \in Workers : payload[w] = payload[u] /\ payload[w] # None => w = u

\* A replay stands behind the last line it delivered, and knows how many it delivered.
Replaying ==
    \A w \in Workers : pc[w] \in Reading =>
        /\ lines[w] \in ReadLines(file)
        /\ cursor[w] \in 0..Len(lines[w])
        /\ cursor[w] # 0 => lines[w][cursor[w]] # Corrupt
        /\ delivered_count[w] = Cardinality(ValidUpTo(lines[w], cursor[w]))
        /\ \A i \in 1..cursor[w] : lines[w][i] # Corrupt => lines[w][i] \in received

\* Without faults, what is still to be published has not been accepted, or nobody was told.
Fresh ==
    faults = 0 =>
        /\ duplicates \subseteq unconfirmed
        /\ Queued \cap received = {}
        /\ \A w \in Workers : pc[w] = "publish" => payload[w] \notin received
        /\ \A w \in Workers : pc[w] = "spill" /\ payload[w] \in received => payload[w] \in unconfirmed
        /\ \A i \in DOMAIN file :
              file[i] \in received =>
                  file[i] \in unconfirmed
                  \/ \E w \in Workers : pc[w] \in Reading /\ lines[w] = file /\ i <= cursor[w]

\* What the store counts covers the lines of its file; a torn line may still cost two payloads.
Counted ==
    /\ ~ReadFaults =>
          /\ (\A w \in Workers : pc[w] # "dead") => Len(file) <= count
          /\ BacklogBounded
    /\ torn => file # <<>>
    /\ IsFiniteSet(lost["torn"])
    /\ Cardinality(lost["torn"]) + (IF torn THEN 2 ELSE 0) <= 2 * faults

Kept == ~ReadFaults => NoSilentLoss

IInv == TypeOK /\ WorkersOK /\ Numbered /\ Replaying /\ Fresh /\ Counted /\ Kept

-----------------------------------------------------------------------------
\* What is left of lines when the first c are cut.
LEMMA Suffix ==
    ASSUME NEW s \in Seq(Nat), NEW c \in 0..Len(s)
    PROVE  LET t == SubSeq(s, c + 1, Len(s))
           IN  /\ t \in Seq(Nat) /\ Len(t) = Len(s) - c
               /\ DOMAIN t = 1..(Len(s) - c)
               /\ \A i \in DOMAIN t : i + c \in DOMAIN s /\ t[i] = s[i + c]
<1> DEFINE t == SubSeq(s, c + 1, Len(s))
<1> DEFINE n == Len(s)
<1>1. n \in Nat /\ DOMAIN s = 1..n /\ \A i \in 1..n : s[i] \in Nat
      BY LenProperties, ElementOfSeq
<1>2. c \in Nat /\ c <= n /\ c + 1 \in Int /\ \A i \in (c + 1)..n : s[i] \in Nat BY <1>1
<1>3. /\ t \in Seq(Nat)
      /\ Len(t) = (IF c + 1 <= n THEN n - (c + 1) + 1 ELSE 0)
      /\ \A i \in 1..(n - (c + 1) + 1) : t[i] = s[c + 1 + i - 1]
      BY <1>1, <1>2, SubSeqProperties
<1> HIDE DEF t, n
<1>4. Len(t) = n - c BY <1>1, <1>2, <1>3
<1>5. DOMAIN t = 1..(n - c) BY <1>3, <1>4, LenProperties
<1>6. ASSUME NEW i \in DOMAIN t PROVE i + c \in DOMAIN s /\ t[i] = s[i + c]
  <2>1. i \in 1..(n - (c + 1) + 1) /\ i + c \in 1..n BY <1>1, <1>2, <1>5
  <2>2. c + 1 + i - 1 = i + c BY <1>1, <1>2, <2>1
  <2> QED BY <1>1, <1>3, <2>1, <2>2
<1> QED BY <1>3, <1>4, <1>5, <1>6 DEF t, n

LEMMA SuffixEntries ==
    ASSUME NEW s \in Seq(Nat), NEW c \in 0..Len(s)
    PROVE  LET t == SubSeq(s, c + 1, Len(s))
           IN  /\ Entries(t) \subseteq Entries(s)
               /\ Entries(s) \subseteq Entries(t) \cup {s[i] : i \in 1..c}
               /\ Ascending(s) => Ascending(t)
<1> DEFINE t == SubSeq(s, c + 1, Len(s))
<1> HIDE DEF t
<1>1. /\ Len(t) = Len(s) - c /\ DOMAIN t = 1..(Len(s) - c)
      /\ \A i \in DOMAIN t : i + c \in DOMAIN s /\ t[i] = s[i + c]
      BY Suffix DEF t
<1>2. DOMAIN s = 1..Len(s) /\ Len(s) \in Nat BY LenProperties
<1>3. Entries(t) \subseteq Entries(s) BY <1>1 DEF Entries
<1>4. Entries(s) \subseteq Entries(t) \cup {s[i] : i \in 1..c}
  <2> SUFFICES ASSUME NEW i \in DOMAIN s, s[i] # Corrupt
               PROVE  s[i] \in Entries(t) \cup {s[j] : j \in 1..c}
      BY DEF Entries
  <2>1. CASE i <= c BY <1>2, <2>1
  <2>2. CASE i > c
    <3>1. i - c \in DOMAIN t /\ (i - c) + c = i BY <1>1, <1>2, <2>2
    <3>2. t[i - c] = s[i] BY <1>1, <3>1
    <3> QED BY <3>1, <3>2 DEF Entries
  <2> QED BY <1>2, <2>1, <2>2
<1>5. ASSUME Ascending(s) PROVE Ascending(t)
  <2> SUFFICES ASSUME NEW i \in DOMAIN t, NEW j \in DOMAIN t, i < j, t[i] # Corrupt, t[j] # Corrupt
               PROVE  t[i] < t[j]
      BY DEF Ascending
  <2>1. i + c \in DOMAIN s /\ j + c \in DOMAIN s /\ i + c < j + c BY <1>1
  <2> QED BY <1>1, <1>5, <2>1 DEF Ascending
<1> QED BY <1>3, <1>4, <1>5 DEF t

\* _compact_locked keeps the newest lines, and what it trims is older.
LEMMA NewestLines ==
    ASSUME NEW s \in Seq(Nat)
    PROVE  /\ Newest(s) \in Seq(Nat) /\ Len(Newest(s)) <= MaxEntries
           /\ Entries(Newest(s)) \subseteq Entries(s)
           /\ Ascending(s) =>
                /\ Ascending(Newest(s))
                /\ Before(Entries(s) \ Entries(Newest(s)), Entries(Newest(s)))
<1>1. MaxEntries \in Nat /\ Len(s) \in Nat BY PublisherAssumption, LenProperties
<1>2. CASE Len(s) <= MaxEntries
  <2>1. Newest(s) = s BY <1>1, <1>2 DEF Newest
  <2> QED BY <1>2, <2>1 DEF Before
<1>3. CASE Len(s) > MaxEntries
  <2> DEFINE c == Len(s) - MaxEntries
             t == SubSeq(s, c + 1, Len(s))
  <2> HIDE DEF t
  <2>1. c \in 0..Len(s) BY <1>1, <1>3
  <2>2. Newest(s) = t BY <1>3 DEF Newest, t
  <2>3. /\ t \in Seq(Nat) /\ Len(t) = Len(s) - c /\ DOMAIN t = 1..(Len(s) - c)
        /\ \A i \in DOMAIN t : i + c \in DOMAIN s /\ t[i] = s[i + c]
        BY <2>1, Suffix DEF t
  <2>4. /\ Entries(t) \subseteq Entries(s)
        /\ Entries(s) \subseteq Entries(t) \cup {s[i] : i \in 1..c}
        /\ Ascending(s) => Ascending(t)
        BY <2>1, SuffixEntries DEF t
  <2>5. ASSUME Ascending(s) PROVE Before(Entries(s) \ Entries(t), Entries(t))
    <3> SUFFICES ASSUME NEW p \in Entries(s) \ Entries(t), NEW q \in Entries(t) PROVE p < q
        BY DEF Before
    <3>1. PICK i \in 1..c : p = s[i] BY <2>4
    <3>2. PICK j \in DOMAIN t : q = t[j] BY DEF Entries
    <3>3. i \in DOMAIN s /\ i < j + c /\ j + c \in DOMAIN s /\ q = s[j + c]
          BY <1>1, <2>1, <2>3, <3>1, <3>2, LenProperties
    <3> QED BY <2>5, <3>1, <3>3 DEF Ascending, Entries
  <2>6. Len(t) = MaxEntries BY <1>1, <2>3
  <2> QED BY <1>1, <2>2, <2>3, <2>4, <2>5, <2>6
<1> QED BY <1>1, <1>2, <1>3

\* append writes p behind all lines, or spoils the torn one together with p.
LEMMA WrittenLines ==
    ASSUME file \in Seq(Nat), torn => file # <<>>, NEW p \in Payload
    PROVE  /\ Written(p) \in Seq(Nat) /\ Written(p) # <<>>
           /\ Len(Written(p)) <= Len(file) + 1
           /\ Entries(Written(p)) \subseteq Entries(file) \cup {p}
           /\ Entries(file) \cup {p} \subseteq Entries(Written(p)) \cup Joined(p)
           /\ Ascending(file) /\ Before(Entries(file), {p}) => Ascending(Written(p))
<1>1. Len(file) \in Nat /\ DOMAIN file = 1..Len(file) /\ p \in Nat /\ p # Corrupt
      BY LenProperties DEF Payload, Corrupt
<1>2. CASE torn
  <2>1. Len(file) \in 1..Len(file) BY <1>1, <1>2, EmptySeq
  <2>2. Written(p) = [file EXCEPT ![Len(file)] = Corrupt] BY <1>2 DEF Written
  <2>3. Joined(p) = {p, file[Len(file)]} \ {Corrupt} BY <1>2 DEF Joined
  <2>4. /\ Written(p) \in Seq(Nat) /\ Len(Written(p)) = Len(file)
        /\ \A j \in 1..Len(file) :
              Written(p)[j] = IF j = Len(file) THEN Corrupt ELSE file[j]
        BY <2>1, <2>2, ExceptSeq DEF Corrupt
  <2>5. DOMAIN Written(p) = 1..Len(file) BY <2>4, LenProperties
  <2>6. Entries(Written(p)) \subseteq Entries(file) BY <1>1, <2>4, <2>5 DEF Entries
  <2>7. Entries(file) \cup {p} \subseteq Entries(Written(p)) \cup Joined(p)
        BY <1>1, <2>3, <2>4, <2>5 DEF Entries
  <2>8. Ascending(file) => Ascending(Written(p)) BY <1>1, <2>4, <2>5 DEF Ascending
  <2>9. Written(p) # <<>> BY <2>1, <2>4, EmptySeq
  <2>10. Len(Written(p)) = Len(file) BY <2>4
  <2>11. Len(Written(p)) <= Len(file) + 1 BY <1>1, <2>10
  <2> QED BY <2>4, <2>6, <2>7, <2>8, <2>9, <2>11
<1>3. CASE ~torn
  <2>1. Written(p) = Append(file, p) BY <1>3 DEF Written
  <2>2. /\ Written(p) \in Seq(Nat) /\ Written(p) # <<>> /\ Len(Written(p)) = Len(file) + 1
        /\ \A i \in 1..Len(file) : Written(p)[i] = file[i]
        /\ Written(p)[Len(file) + 1] = p
        BY <1>1, <2>1, AppendProperties
  <2>3. DOMAIN Written(p) = 1..(Len(file) + 1) BY <2>2, LenProperties
  <2>4. Entries(Written(p)) = Entries(file) \cup {p} BY <1>1, <2>2, <2>3 DEF Entries
  <2>5. ASSUME Ascending(file), Before(Entries(file), {p}) PROVE Ascending(Written(p))
    <3> SUFFICES ASSUME NEW i \in DOMAIN Written(p), NEW j \in DOMAIN Written(p), i < j,
                        Written(p)[i] # Corrupt, Written(p)[j] # Corrupt
                 PROVE  Written(p)[i] < Written(p)[j]
        BY DEF Ascending
    <3>1. i \in DOMAIN file /\ Written(p)[i] = file[i] BY <1>1, <2>2, <2>3
    <3>2. CASE j \in DOMAIN file BY <1>1, <2>2, <2>5, <3>1, <3>2 DEF Ascending
    <3>3. CASE j = Len(file) + 1 BY <2>2, <2>5, <3>1, <3>3 DEF Before, Entries
    <3> QED BY <1>1, <2>3, <3>2, <3>3
  <2> QED BY <1>1, <2>2, <2>4, <2>5
<1> QED BY <1>2, <1>3

\* The same of a write that stops half way.
LEMMA InterruptedLines ==
    ASSUME file \in Seq(Nat), torn \in BOOLEAN, torn => file # <<>>, NEW p \in Payload,
           NEW i \in Interrupted(p)
    PROVE  /\ i[1] \in Seq(Nat) /\ Len(i[1]) <= Len(file) + 1
           /\ i[2] \in BOOLEAN /\ (i[2] => i[1] # <<>>)
           /\ Entries(i[1]) \subseteq Entries(file) \cup {p}
           /\ Ascending(file) /\ Before(Entries(file), {p}) => Ascending(i[1])
<1>1. Len(file) \in Nat /\ DOMAIN file = 1..Len(file) BY LenProperties
<1>2. CASE i = <<file, torn>> BY <1>1, <1>2
<1>3. CASE i[1] = Written(p) /\ i[2] \in BOOLEAN BY <1>3, WrittenLines
<1>4. CASE i = <<Append(file, Corrupt), TRUE>>
  <2> DEFINE f == Append(file, Corrupt)
  <2> HIDE DEF f
  <2>1. /\ f \in Seq(Nat) /\ f # <<>> /\ Len(f) = Len(file) + 1
        /\ \A j \in 1..Len(file) : f[j] = file[j]
        /\ f[Len(file) + 1] = Corrupt
        BY AppendProperties DEF Corrupt, f
  <2>2. DOMAIN f = 1..(Len(file) + 1) BY <2>1, LenProperties
  <2>3. Entries(f) \subseteq Entries(file) BY <1>1, <2>1, <2>2 DEF Entries
  <2>4. \A j \in DOMAIN f : f[j] # Corrupt => j \in DOMAIN file /\ f[j] = file[j]
        BY <1>1, <2>1, <2>2
  <2>5. Ascending(file) => Ascending(f) BY <2>4 DEF Ascending
  <2>6. i[1] = f /\ i[2] = TRUE BY <1>4 DEF f
  <2>7. Len(f) <= Len(file) + 1 BY <1>1, <2>1
  <2> QED BY <2>1, <2>3, <2>5, <2>6, <2>7
<1>5. \/ i = <<file, torn>> \/ i = <<Append(file, Corrupt), TRUE>>
      \/ i = <<Written(p), TRUE>> \/ i = <<Written(p), FALSE>>
      BY DEF Interrupted
<1>6. CASE i = <<Written(p), TRUE>> BY <1>3, <1>6
<1>7. CASE i = <<Written(p), FALSE>> BY <1>3, <1>7
<1> QED BY <1>2, <1>4, <1>5, <1>6, <1>7

-----------------------------------------------------------------------------
\* The decodable lines among the first n are finitely many, and more when n grows past one.
LEMMA ValidGrows ==
    ASSUME NEW s, NEW a \in Nat, NEW b \in Nat, a < b, s[b] # Corrupt
    PROVE  /\ Cardinality(ValidUpTo(s, a)) \in Nat /\ Cardinality(ValidUpTo(s, b)) \in Nat
           /\ Cardinality(ValidUpTo(s, a)) < Cardinality(ValidUpTo(s, b))
<1>1. IsFiniteSet(ValidUpTo(s, a)) /\ IsFiniteSet(ValidUpTo(s, b))
  <2>1. IsFiniteSet(1..a) /\ IsFiniteSet(1..b) BY FS_Interval
  <2>2. ValidUpTo(s, a) \subseteq 1..a /\ ValidUpTo(s, b) \subseteq 1..b BY DEF ValidUpTo
  <2> QED BY <2>1, <2>2, FS_Subset
<1>2. /\ Cardinality(ValidUpTo(s, a)) \in Nat /\ Cardinality(ValidUpTo(s, b)) \in Nat
      BY <1>1, FS_CardinalityType
<1>3. ValidUpTo(s, a) \subseteq ValidUpTo(s, b) /\ b \in ValidUpTo(s, b) \ ValidUpTo(s, a)
      BY DEF ValidUpTo
<1>4. Cardinality(ValidUpTo(s, a)) <= Cardinality(ValidUpTo(s, b))
      /\ Cardinality(ValidUpTo(s, a)) # Cardinality(ValidUpTo(s, b))
      BY <1>1, <1>3, FS_Subset
<1> QED BY <1>2, <1>4

\* The next item of a batch is one more decodable line.
LEMMA NextItem ==
    ASSUME NEW s, NEW a \in Nat, NEW b \in Nat, a < b, s[b] # Corrupt,
           \A j \in 1..b : j > a /\ j < b => s[j] = Corrupt
    PROVE  Cardinality(ValidUpTo(s, b)) = Cardinality(ValidUpTo(s, a)) + 1
<1>1. ValidUpTo(s, b) = ValidUpTo(s, a) \cup {b} BY DEF ValidUpTo
<1>2. b \notin ValidUpTo(s, a) BY DEF ValidUpTo
<1>3. IsFiniteSet(ValidUpTo(s, a))
  <2>1. ValidUpTo(s, a) \subseteq 1..a BY DEF ValidUpTo
  <2> QED BY <2>1, FS_Interval, FS_Subset
<1> QED BY <1>1, <1>2, <1>3, FS_AddElement

\* discard_batch finds its cut exactly behind the last line that was delivered.
LEMMA CutAtCursor ==
    ASSUME NEW s \in Seq(Nat), NEW cur \in 0..Len(s), cur # 0 => s[cur] # Corrupt,
           NEW n, n = Cardinality(ValidUpTo(s, cur)), n # 0,
           NEW c \in 0..Len(s), IsCut(s, n, c)
    PROVE  c = cur
<1>1. Len(s) \in Nat /\ DOMAIN s = 1..Len(s) BY LenProperties
<1>2. cur # 0
  <2>1. SUFFICES ASSUME cur = 0 PROVE n = 0 OBVIOUS
  <2>2. ValidUpTo(s, 0) = {} BY DEF ValidUpTo
  <2> QED BY <2>1, <2>2, FS_EmptySet
<1>3. ~(Cardinality(ValidUpTo(s, Len(s))) < n)
  <2>1. ValidUpTo(s, cur) \subseteq ValidUpTo(s, Len(s)) BY <1>1 DEF ValidUpTo
  <2>2. IsFiniteSet(ValidUpTo(s, Len(s)))
    <3>1. ValidUpTo(s, Len(s)) \subseteq 1..Len(s) BY DEF ValidUpTo
    <3>2. IsFiniteSet(1..Len(s)) BY <1>1, FS_Interval
    <3> QED BY <3>1, <3>2, FS_Subset
  <2>3. /\ n <= Cardinality(ValidUpTo(s, Len(s))) /\ n \in Nat
        /\ Cardinality(ValidUpTo(s, Len(s))) \in Nat
        BY <2>1, <2>2, FS_Subset, FS_CardinalityType
  <2> QED BY <2>3
<1>4. c \in 1..Len(s) /\ s[c] # Corrupt /\ Cardinality(ValidUpTo(s, c)) = n
      BY <1>1, <1>3 DEF IsCut
<1>5. ~(c < cur) BY <1>1, <1>2, <1>4, ValidGrows
<1>6. ~(cur < c) BY <1>1, <1>2, <1>4, ValidGrows
<1> QED BY <1>1, <1>5, <1>6

-----------------------------------------------------------------------------
\* What is given up is never forgotten.
LEMMA LostGrows ==
    ASSUME lost \in [Reasons -> SUBSET Payload], NEW r \in Reasons, NEW ps \in SUBSET Payload,
           GiveUp(r, ps)
    PROVE  /\ lost' \in [Reasons -> SUBSET Payload]
           /\ GivenUp' = GivenUp \cup ps
           /\ r # "torn" => lost'["torn"] = lost["torn"]
<1>1. lost' = [lost EXCEPT ![r] = @ \cup ps] BY DEF GiveUp
<1>2. lost' \in [Reasons -> SUBSET Payload] BY <1>1
<1>3. \A q \in Reasons : lost'[q] = IF q = r THEN lost[r] \cup ps ELSE lost[q] BY <1>1
<1>4. GivenUp' = GivenUp \cup ps BY <1>3 DEF GivenUp
<1>5. r # "torn" => lost'["torn"] = lost["torn"] BY <1>3 DEF Reasons
<1> QED BY <1>2, <1>4, <1>5

LEMMA QueueGrows ==
    ASSUME queue \in Seq(Payload), NEW p \in Payload, queue' = Append(queue, p)
    PROVE  /\ queue' \in Seq(Payload) /\ Len(queue') = Len(queue) + 1
           /\ Queued' = Queued \cup {p}
           /\ Ascending(queue) /\ Before(Queued, {p}) => Ascending(queue')
<1>1. /\ queue' \in Seq(Payload) /\ Len(queue') = Len(queue) + 1
      /\ \A i \in 1..Len(queue) : queue'[i] = queue[i]
      /\ queue'[Len(queue) + 1] = p
      BY AppendProperties
<1>2. /\ Len(queue) \in Nat /\ DOMAIN queue = 1..Len(queue)
      /\ DOMAIN queue' = 1..(Len(queue) + 1)
      BY <1>1, LenProperties
<1>3. Queued' = Queued \cup {p} BY <1>1, <1>2 DEF Queued
<1>4. ASSUME Ascending(queue), Before(Queued, {p}) PROVE Ascending(queue')
  <2> SUFFICES ASSUME NEW i \in DOMAIN queue', NEW j \in DOMAIN queue', i < j,
                      queue'[i] # Corrupt, queue'[j] # Corrupt
               PROVE  queue'[i] < queue'[j]
      BY DEF Ascending
  <2>1. i \in DOMAIN queue /\ queue'[i] = queue[i] BY <1>1, <1>2
  <2>2. CASE j \in DOMAIN queue BY <1>1, <1>2, <1>4, <2>1, <2>2 DEF Ascending
  <2>3. CASE j = Len(queue) + 1 BY <1>1, <1>4, <2>1, <2>3 DEF Before, Queued
  <2> QED BY <1>2, <2>2, <2>3
<1> QED BY <1>1, <1>3, <1>4

LEMMA QueueShrinks ==
    ASSUME queue \in Seq(Payload), queue # <<>>, queue' = Tail(queue)
    PROVE  /\ Head(queue) \in Payload /\ queue' \in Seq(Payload) /\ Len(queue') = Len(queue) - 1
           /\ Queued = Queued' \cup {Head(queue)}
           /\ Ascending(queue) => Ascending(queue') /\ Before({Head(queue)}, Queued')
<1>1. /\ Head(queue) \in Payload /\ queue' \in Seq(Payload) /\ Len(queue') = Len(queue) - 1
      /\ \A i \in 1..Len(queue') : queue'[i] = queue[i + 1]
      BY HeadTailProperties
<1>2. /\ Len(queue) \in Nat \ {0} /\ DOMAIN queue = 1..Len(queue)
      /\ DOMAIN queue' = 1..(Len(queue) - 1)
      BY <1>1, LenProperties, EmptySeq
<1>3. Head(queue) = queue[1] OBVIOUS
<1>4. \A i \in DOMAIN queue' : i + 1 \in DOMAIN queue /\ queue'[i] = queue[i + 1] BY <1>1, <1>2
<1>5. Queued = Queued' \cup {Head(queue)}
  <2>1. ASSUME NEW i \in DOMAIN queue, i # 1 PROVE queue[i] \in Queued'
    <3>1. i - 1 \in DOMAIN queue' /\ (i - 1) + 1 = i BY <1>2, <2>1
    <3>2. queue'[i - 1] = queue[i] BY <1>4, <3>1
    <3> QED BY <3>1, <3>2 DEF Queued
  <2> QED BY <1>2, <1>3, <1>4, <2>1 DEF Queued
<1>6. ASSUME Ascending(queue) PROVE Ascending(queue') /\ Before({Head(queue)}, Queued')
  <2>1. \A i \in DOMAIN queue : queue[i] # Corrupt BY <1>2, ElementOfSeq DEF Payload, Corrupt
  <2>2. \A i, j \in DOMAIN queue : i < j => queue[i] < queue[j] BY <1>6, <2>1 DEF Ascending
  <2>3. Ascending(queue') BY <1>2, <1>4, <2>2 DEF Ascending
  <2>4. Before({Head(queue)}, Queued') BY <1>2, <1>3, <1>4, <2>2 DEF Before, Queued
  <2> QED BY <2>3, <2>4
<1> QED BY <1>1, <1>5, <1>6

-----------------------------------------------------------------------------
\* Two workers near a store are one.
LEMMA OneWorker ==
    ASSUME WorkersOK, NEW w \in Workers, NEW u \in Workers, pc[w] \in Storing, pc[u] # "off"
    PROVE  u = w
BY DEF WorkersOK, Storing, Reading

LEMMA OnlyStarted ==
    ASSUME NEW s \in BOOLEAN
    PROVE  /\ Start(s) \in [Workers -> Steps]
           /\ \A w \in Workers : Start(s)[w] \in {"off", "get"}
           /\ s => \A w, u \in Workers : Start(s)[w] # "off" /\ Start(s)[u] # "off" => w = u
BY PublisherAssumption DEF Start, Started, Steps

LEMMA InitIInv == Init => IInv
<1> SUFFICES ASSUME Init PROVE IInv OBVIOUS
<1>1. has_store \in BOOLEAN BY PublisherAssumption DEF Init
<1>2. /\ pc \in [Workers -> Steps] /\ \A w \in Workers : pc[w] \in {"off", "get"}
      /\ has_store => \A w, u \in Workers : pc[w] # "off" /\ pc[u] # "off" => w = u
      BY <1>1, OnlyStarted DEF Init
<1>3. \A S : <<>> \in Seq(S) /\ Len(<<>>) = 0 /\ DOMAIN <<>> = {} BY EmptySeq
<1>4. /\ Queued = {} /\ InFlight = {} /\ Entries(file) = {} /\ received = {} /\ 1..next = {}
      BY <1>3 DEF Init, Queued, InFlight, Entries
<1>5. QueueMax \in Nat /\ MaxEntries \in Nat /\ MaxPayloads \in Nat /\ MaxFaults \in Nat
      BY PublisherAssumption
<1>6. TypeOK
  <2>1. Len(queue) <= QueueMax /\ next \in 0..MaxPayloads /\ faults \in 0..MaxFaults
        BY <1>3, <1>5 DEF Init
  <2>2. payload \in [Workers -> Nat] /\ lines \in [Workers -> Seq(Nat)]
        BY <1>3 DEF Init, None
  <2>3. lost \in [Reasons -> SUBSET Payload] BY DEF Init
  <2> QED BY <1>2, <1>3, <2>1, <2>2, <2>3 DEF Init, TypeOK
<1>7. WorkersOK BY <1>2 DEF Init, WorkersOK, Busy, Storing, Reading
<1>8. Numbered BY <1>3, <1>4 DEF Init, Numbered, Ascending, Before
<1>9. Replaying BY <1>2 DEF Replaying, Reading
<1>10. Fresh BY <1>2, <1>3, <1>4 DEF Init, Fresh
<1>11. Counted
  <2>1. lost["torn"] = {} BY DEF Init, Reasons
  <2>2. Len(file) = 0 /\ count = 0 /\ faults = 0 /\ torn = FALSE BY <1>3 DEF Init
  <2>3. BacklogBounded BY <1>5, <2>2 DEF BacklogBounded
  <2>4. IsFiniteSet(lost["torn"]) /\ Cardinality(lost["torn"]) = 0 BY <2>1, FS_EmptySet
  <2> QED BY <2>2, <2>3, <2>4 DEF Counted
<1>12. Kept BY <1>4 DEF Kept, NoSilentLoss
<1> QED BY <1>6, <1>7, <1>8, <1>9, <1>10, <1>11, <1>12 DEF IInv

-----------------------------------------------------------------------------
\* Steps that leave the disk alone, and steps that leave the replay alone.
LEMMA DiskStill ==
    ASSUME IInv, UNCHANGED <<file, torn, count, faults>>, lost'["torn"] = lost["torn"],
           \A w \in Workers : pc[w] = "dead" => pc'[w] = "dead"
    PROVE  Counted'
BY DEF IInv, Counted, BacklogBounded

LEMMA ReplayStill ==
    ASSUME IInv, UNCHANGED <<file, lines, cursor, delivered_count>>, received \subseteq received',
           \A w \in Workers : pc'[w] \in Reading => pc[w] \in Reading
    PROVE  Replaying'
BY DEF IInv, Replaying, ReadLines, ValidUpTo

LEMMA SubmitStep == ASSUME IInv, Submit PROVE IInv'
<1> DEFINE p == next + 1
<1>1. /\ next \in Nat /\ p \in Payload /\ next' = p /\ p \in 0..MaxPayloads
      /\ UNCHANGED <<has_store, pc, payload, faults, lines, cursor, delivered_count, file, torn,
                     count, received, unconfirmed, duplicates>>
      BY PublisherAssumption
      DEF Submit, IInv, TypeOK, Payload, drainVars, diskVars, backendVars
<1> HIDE DEF p
<1>2. Entries(file)' = Entries(file) /\ InFlight' = InFlight BY <1>1 DEF Entries, InFlight
<1>3. Before(Entries(file) \cup InFlight \cup Queued, {p}) /\ p \notin received
      BY <1>1 DEF IInv, Numbered, Before, p
<1>4. 1..next' = 1..next \cup {p} BY <1>1 DEF p
<1>5. WorkersOK' BY <1>1 DEF IInv, WorkersOK
<1>6. Replaying' BY <1>1, ReplayStill
<1>7. CASE SubmitQueued
  <2>1. queue' = Append(queue, p) /\ lost' = lost /\ dropped' = dropped /\ Len(queue) < QueueMax
        BY <1>7 DEF SubmitQueued, p
  <2>2. /\ queue' \in Seq(Payload) /\ Len(queue') = Len(queue) + 1
        /\ Queued' = Queued \cup {p}
        /\ Ascending(queue) /\ Before(Queued, {p}) => Ascending(queue')
        BY <1>1, <2>1, QueueGrows DEF IInv, TypeOK
  <2>3. Len(queue') <= QueueMax
    <3>1. QueueMax \in Nat /\ Len(queue) \in Nat
          BY PublisherAssumption, LenProperties DEF IInv, TypeOK
    <3> QED BY <2>1, <2>2, <3>1
  <2>4. TypeOK' BY <1>1, <2>1, <2>2, <2>3 DEF IInv, TypeOK
  <2>5. Numbered' BY <1>1, <1>2, <1>3, <1>4, <2>2 DEF IInv, Numbered, Before, Ascending
  <2>6. Fresh' BY <1>1, <1>3, <2>2 DEF IInv, Fresh
  <2>7. Counted' BY <1>1, <2>1, DiskStill
  <2>8. Kept' BY <1>1, <1>2, <1>4, <2>1, <2>2 DEF IInv, Kept, NoSilentLoss, GivenUp
  <2> QED BY <1>5, <1>6, <2>4, <2>5, <2>6, <2>7, <2>8 DEF IInv
<1>8. CASE SubmitFull
  <2>1. queue' = queue /\ GiveUp("full", {p}) /\ dropped' = dropped + 1
        BY <1>8 DEF SubmitFull, p
  <2>2. Queued' = Queued BY <2>1 DEF Queued
  <2>3. /\ lost' \in [Reasons -> SUBSET Payload] /\ GivenUp' = GivenUp \cup {p}
        /\ lost'["torn"] = lost["torn"]
    <3>1. "full" \in Reasons BY DEF Reasons
    <3> QED BY <1>1, <2>1, <3>1, LostGrows DEF IInv, TypeOK
  <2>4. TypeOK' BY <1>1, <2>1, <2>3 DEF IInv, TypeOK
  <2>5. Numbered' BY <1>1, <1>2, <1>3, <1>4, <2>1, <2>2 DEF IInv, Numbered, Before, Ascending
  <2>6. Fresh' BY <1>1, <2>2 DEF IInv, Fresh
  <2>7. Counted' BY <1>1, <2>3, DiskStill
  <2>8. Kept' BY <1>1, <1>2, <1>4, <2>2, <2>3 DEF IInv, Kept, NoSilentLoss
  <2> QED BY <1>5, <1>6, <2>4, <2>5, <2>6, <2>7, <2>8 DEF IInv
<1> QED BY <1>7, <1>8 DEF Submit

LEMMA GetStep == ASSUME IInv, NEW w \in Workers, Get(w) PROVE IInv'
<1> DEFINE p == Head(queue)
<1>1. /\ pc[w] = "get" /\ queue # <<>> /\ queue' = Tail(queue)
      /\ payload' = [payload EXCEPT ![w] = p] /\ pc' = [pc EXCEPT ![w] = "publish"]
      /\ UNCHANGED <<has_store, next, dropped, faults, lost, lines, cursor, delivered_count, file,
                     torn, count, received, unconfirmed, duplicates>>
      BY DEF Get, drainVars, diskVars, backendVars
<1> HIDE DEF p
<1>2. /\ p \in Payload /\ queue' \in Seq(Payload) /\ Len(queue') = Len(queue) - 1
      /\ Queued = Queued' \cup {p}
      /\ Ascending(queue') /\ Before({p}, Queued')
      BY <1>1, QueueShrinks DEF IInv, TypeOK, Numbered, p
<1>3. /\ pc' \in [Workers -> Steps] /\ payload' \in [Workers -> Nat]
      /\ payload'[w] = p /\ pc'[w] = "publish" /\ p # None
      /\ \A u \in Workers \ {w} : payload'[u] = payload[u] /\ pc'[u] = pc[u]
      BY <1>1, <1>2 DEF IInv, TypeOK, Steps, Payload, None
<1>4. payload[w] = None BY <1>1 DEF IInv, WorkersOK, Busy
<1>5. Entries(file)' = Entries(file) BY <1>1 DEF Entries
<1>6. InFlight' = InFlight \cup {p} BY <1>3, <1>4 DEF InFlight
<1>7. TypeOK'
  <2>1. Len(queue') <= QueueMax
    <3>1. QueueMax \in Nat /\ Len(queue) \in Nat
          BY PublisherAssumption, LenProperties DEF IInv, TypeOK
    <3> QED BY <1>2, <3>1 DEF IInv, TypeOK
  <2> QED BY <1>1, <1>2, <1>3, <2>1 DEF IInv, TypeOK
<1>8. WorkersOK' BY <1>1, <1>3 DEF IInv, WorkersOK, Busy, Storing, Reading
<1>9. Numbered'
  <2>1. p \notin InFlight BY <1>2 DEF IInv, Numbered, Before, Payload
  <2>2. \A u, v \in Workers : payload'[u] = payload'[v] /\ payload'[u] # None => u = v
        BY <1>3, <2>1 DEF IInv, Numbered, InFlight
  <2> QED BY <1>1, <1>2, <1>5, <1>6, <2>2 DEF IInv, Numbered, Before, Ascending
<1>10. Replaying' BY <1>1, <1>3, ReplayStill DEF Reading
<1>11. Fresh' BY <1>1, <1>2, <1>3 DEF IInv, Fresh, Reading
<1>12. Counted' BY <1>1, <1>3, DiskStill
<1>13. Kept' BY <1>1, <1>2, <1>5, <1>6 DEF IInv, Kept, NoSilentLoss, GivenUp
<1> QED BY <1>7, <1>8, <1>9, <1>10, <1>11, <1>12, <1>13 DEF IInv

-----------------------------------------------------------------------------
\* What a request does to the backend's records.
LEMMA Published ==
    ASSUME TypeOK, NEW p \in Payload, NEW ok \in BOOLEAN, Publish(p, ok)
    PROVE  /\ received \subseteq received' /\ received' \subseteq received \cup {p}
           /\ unconfirmed \subseteq unconfirmed' /\ unconfirmed' \subseteq unconfirmed \cup {p}
           /\ duplicates' \subseteq duplicates \cup ({p} \cap received)
           /\ ok => p \in received'
           /\ ~ok /\ p \in received' => p \in received \/ p \in unconfirmed'
           /\ ~ok => duplicates' = duplicates \/ p \in unconfirmed'
           /\ received' \subseteq Payload /\ unconfirmed' \subseteq Payload
           /\ duplicates' \subseteq Payload
BY DEF Publish, Accept, TypeOK, backendVars

\* A live payload was in nobody else's hands, not in the queue and not on disk.
LEMMA LivePayload ==
    ASSUME IInv, NEW w \in Workers, pc[w] \in Busy
    PROVE  /\ payload[w] \in Payload /\ payload[w] \in InFlight
           /\ payload[w] \notin Queued /\ payload[w] \notin Entries(file)
           /\ payload[w] <= next
           /\ \A u \in Workers \ {w} : payload[u] # payload[w]
<1>1. payload[w] \in Nat /\ payload[w] # None BY DEF IInv, TypeOK, WorkersOK
<1>2. payload[w] \in Payload /\ payload[w] \in InFlight BY <1>1 DEF Payload, None, InFlight
<1> QED BY <1>1, <1>2 DEF IInv, Numbered, Before, Payload

LEMMA LiveSteps == ASSUME IInv, NEW w \in Workers, PublishLive(w) \/ PublishFailed(w) PROVE IInv'
<1> DEFINE p == payload[w]
<1>1. /\ pc[w] = "publish"
      /\ UNCHANGED <<has_store, next, queue, dropped, faults, lines, cursor, delivered_count,
                     file, torn, count>>
      BY DEF PublishLive, PublishFailed, drainVars, diskVars
<1>2. /\ p \in Payload /\ p \in InFlight /\ p \notin Queued /\ p \notin Entries(file) /\ p <= next
      /\ \A u \in Workers \ {w} : payload[u] # p
      BY <1>1, LivePayload DEF Busy
<1> HIDE DEF p
<1>3. PICK ok \in BOOLEAN : Publish(p, ok) /\ (ok <=> PublishLive(w))
  <2>1. CASE PublishLive(w) BY <2>1 DEF PublishLive, p
  <2>2. CASE ~PublishLive(w) BY <2>2 DEF PublishFailed, p
  <2> QED BY <2>1, <2>2
<1>4. /\ received \subseteq received' /\ received' \subseteq received \cup {p}
      /\ unconfirmed \subseteq unconfirmed'
      /\ duplicates' \subseteq duplicates \cup ({p} \cap received)
      /\ ok => p \in received'
      /\ ~ok /\ p \in received' => p \in received \/ p \in unconfirmed'
      /\ received' \subseteq Payload /\ unconfirmed' \subseteq Payload
      /\ duplicates' \subseteq Payload
      BY <1>2, <1>3, Published DEF IInv
\* Either the payload leaves the worker's hands, or it is about to be spilled.
<1>5. /\ pc' \in [Workers -> Steps] /\ payload' \in [Workers -> Nat]
      /\ lost' \in [Reasons -> SUBSET Payload]
      /\ \A u \in Workers \ {w} : payload'[u] = payload[u] /\ pc'[u] = pc[u]
      /\ \/ /\ payload'[w] = None /\ pc'[w] \in {"get", "drain"}
            /\ pc'[w] = "drain" => has_store
            /\ p \in received' \/ p \in GivenUp'
         \/ payload'[w] = p /\ pc'[w] = "spill" /\ has_store /\ ~ok
      /\ GivenUp \subseteq GivenUp' /\ lost'["torn"] = lost["torn"]
  <2>1. CASE PublishLive(w)
    <3>1. /\ payload' = [payload EXCEPT ![w] = None] /\ lost' = lost
          /\ pc' = [pc EXCEPT ![w] = IF has_store /\ count > 0 THEN "drain" ELSE "get"]
          BY <2>1 DEF PublishLive
    <3>2. ok BY <1>3, <2>1
    <3> QED BY <1>4, <3>1, <3>2 DEF IInv, TypeOK, Steps, None, GivenUp
  <2>2. CASE PublishFailed(w) /\ ~ok /\ has_store
    <3>1. pc' = [pc EXCEPT ![w] = "spill"] /\ payload' = payload /\ lost' = lost
          BY <2>2 DEF PublishFailed
    <3> QED BY <2>2, <3>1 DEF IInv, TypeOK, Steps, GivenUp, p
  <2>3. CASE PublishFailed(w) /\ ~has_store
    <3>1. /\ pc' = [pc EXCEPT ![w] = "get"] /\ payload' = [payload EXCEPT ![w] = None]
          /\ GiveUp("undelivered", {p})
          BY <2>3 DEF PublishFailed, p
    <3>2. "undelivered" \in Reasons BY DEF Reasons
    <3>3. /\ lost' \in [Reasons -> SUBSET Payload] /\ GivenUp' = GivenUp \cup {p}
          /\ lost'["torn"] = lost["torn"]
          BY <1>2, <3>1, <3>2, LostGrows DEF IInv, TypeOK
    <3> QED BY <3>1, <3>3 DEF IInv, TypeOK, Steps, None
  <2> QED BY <1>3, <2>1, <2>2, <2>3
<1>6. InFlight \subseteq InFlight' \cup {p} /\ InFlight' \subseteq InFlight
      BY <1>2, <1>5 DEF InFlight, p, None
<1>7. Entries(file)' = Entries(file) /\ Queued' = Queued BY <1>1 DEF Entries, Queued
<1>8. TypeOK' BY <1>1, <1>4, <1>5 DEF IInv, TypeOK
<1>9. WorkersOK'
  <2>1. p # None BY <1>2 DEF Payload, None
  <2> QED BY <1>1, <1>5, <2>1 DEF IInv, WorkersOK, Busy, Storing, Reading
<1>10. Numbered'
  <2>1. \A u, v \in Workers : payload'[u] = payload'[v] /\ payload'[u] # None => u = v
        BY <1>2, <1>5 DEF IInv, Numbered, p
  <2>2. p \in 1..next BY <1>2 DEF Payload, IInv, TypeOK
  <2> QED BY <1>1, <1>4, <1>6, <1>7, <2>1, <2>2 DEF IInv, Numbered, Before, Ascending
<1>11. Replaying' BY <1>1, <1>4, <1>5, ReplayStill DEF Reading
<1>12. Fresh'
  <2> SUFFICES ASSUME faults = 0 PROVE Fresh' BY <1>1 DEF Fresh
  <2>1. p \notin received BY <1>1 DEF IInv, Fresh, p
  <2>2. duplicates' \subseteq unconfirmed' BY <1>4, <2>1 DEF IInv, Fresh
  <2>3. Queued' \cap received' = {} BY <1>2, <1>4, <1>7 DEF IInv, Fresh
  <2>4. \A u \in Workers : pc'[u] = "publish" => payload'[u] \notin received'
        BY <1>2, <1>4, <1>5 DEF IInv, Fresh
  <2>5. \A u \in Workers : pc'[u] = "spill" /\ payload'[u] \in received' => payload'[u] \in unconfirmed'
        BY <1>2, <1>4, <1>5, <2>1 DEF IInv, Fresh
  <2>6. \A i \in DOMAIN file : file[i] \in received' => file[i] \in received
    <3>1. \A i \in DOMAIN file : file[i] # p
          BY <1>2 DEF Entries, Payload, Corrupt
    <3> QED BY <1>4, <3>1
  <2>7. \A u \in Workers : pc[u] \in Reading => pc'[u] \in Reading
        BY <1>1, <1>5 DEF Reading
  <2> QED BY <1>1, <1>4, <2>2, <2>3, <2>4, <2>5, <2>6, <2>7 DEF IInv, Fresh
<1>13. Counted' BY <1>1, <1>5, DiskStill
<1>14. Kept' BY <1>1, <1>2, <1>4, <1>5, <1>6, <1>7 DEF IInv, Kept, NoSilentLoss, InFlight
<1> QED BY <1>8, <1>9, <1>10, <1>11, <1>12, <1>13, <1>14 DEF IInv

-----------------------------------------------------------------------------
\* Whoever is near the disk is the only worker that runs.
LEMMA Alone ==
    ASSUME IInv, NEW w \in Workers, pc[w] \in Storing
    PROVE  /\ has_store
           /\ \A u \in Workers \ {w} : pc[u] = "off" /\ payload[u] = None
           /\ InFlight = {payload[w]} \ {None}
<1>1. WorkersOK BY DEF IInv
<1>2. has_store BY <1>1 DEF WorkersOK
<1>3. \A u \in Workers \ {w} : pc[u] = "off" BY <1>1, OneWorker
<1>4. \A u \in Workers \ {w} : payload[u] = None BY <1>1, <1>3 DEF WorkersOK, Busy
<1> QED BY <1>2, <1>3, <1>4 DEF InFlight

\* The lines on disk decode to payloads.
LEMMA EntriesType == ASSUME NEW s \in Seq(Nat) PROVE Entries(s) \subseteq Payload
<1>1. \A i \in DOMAIN s : s[i] \in Nat BY LenProperties, ElementOfSeq
<1> QED BY <1>1 DEF Entries, Payload, Corrupt

\* A payload that is spilled goes to disk or is given up, and the worker is done with it.
LEMMA Stored ==
    ASSUME IInv, NEW w \in Workers, pc[w] = "spill",
           NEW s \in {"get", "dead"}, pc' = [pc EXCEPT ![w] = s],
           payload' = [payload EXCEPT ![w] = None],
           file' \in Seq(Nat), Ascending(file'),
           Entries(file') \subseteq Entries(file) \cup {payload[w]},
           torn' \in BOOLEAN, count' \in Nat, faults' \in 0..MaxFaults, faults' >= faults,
           lost' \in [Reasons -> SUBSET Payload], GivenUp \subseteq GivenUp',
           ~ReadFaults => Entries(file) \cup {payload[w]} \subseteq Entries(file') \cup GivenUp',
           UNCHANGED <<has_store, next, queue, dropped, drainVars, backendVars>>
    PROVE  TypeOK' /\ WorkersOK' /\ Numbered' /\ Replaying' /\ Fresh' /\ Kept'
<1> DEFINE p == payload[w]
<1>1. /\ has_store /\ InFlight = {p} \ {None}
      /\ \A u \in Workers \ {w} : pc[u] = "off" /\ payload[u] = None
      BY Alone DEF Storing
<1>2. /\ p \in Payload /\ p \in InFlight /\ p \notin Queued /\ p \notin Entries(file) /\ p <= next
      BY LivePayload DEF Busy
<1> HIDE DEF p
<1>3. /\ pc' \in [Workers -> Steps] /\ pc'[w] = s
      /\ payload' \in [Workers -> Nat] /\ \A u \in Workers : payload'[u] = None
      /\ \A u \in Workers \ {w} : pc'[u] = "off"
      BY <1>1 DEF IInv, TypeOK, Steps, None
<1>4. UNCHANGED <<has_store, next, queue, dropped, lines, cursor, delivered_count,
                  received, unconfirmed, duplicates>>
      BY DEF drainVars, backendVars
<1>5. InFlight' = {} /\ Queued' = Queued BY <1>3, <1>4 DEF InFlight, Queued
<1>6. TypeOK'
  <2>1. ~has_store' => file' = <<>> BY <1>1, <1>4
  <2>2. /\ has_store' \in Spilling /\ next' \in 0..MaxPayloads
        /\ queue' \in Seq(Payload) /\ Len(queue') <= QueueMax /\ dropped' \in Nat
        BY <1>4 DEF IInv, TypeOK
  <2>3. /\ lines' \in [Workers -> Seq(Nat)] /\ cursor' \in [Workers -> Nat]
        /\ delivered_count' \in [Workers -> Nat]
        /\ received' \subseteq Payload /\ unconfirmed' \subseteq Payload
        /\ duplicates' \subseteq Payload
        BY <1>4 DEF IInv, TypeOK
  <2> QED BY <1>3, <2>1, <2>2, <2>3 DEF TypeOK
<1>7. WorkersOK' BY <1>1, <1>3, <1>4 DEF WorkersOK, Busy, Storing, Reading
<1>8. Numbered'
  <2>1. p \in 1..next BY <1>2 DEF Payload, IInv, TypeOK
  <2>2. Before(Entries(file'), Queued) BY <1>2, <1>4 DEF IInv, Numbered, Before, p
  <2>3. Before(InFlight', Queued') BY <1>5 DEF Before
  <2>4. Ascending(queue') BY <1>4 DEF IInv, Numbered, Ascending
  <2>5. Entries(file') \cup InFlight' \cup Queued' \cup received' \subseteq 1..next'
        BY <1>4, <1>5, <2>1 DEF IInv, Numbered, p
  <2>6. \A u, v \in Workers : payload'[u] = payload'[v] /\ payload'[u] # None => u = v
        BY <1>3
  <2>7. Before(Entries(file'), InFlight' \cup Queued') BY <1>5, <2>2 DEF Before
  <2> QED BY <2>3, <2>4, <2>5, <2>6, <2>7 DEF Numbered, Entries, Ascending
<1>9. Replaying' BY <1>3 DEF Replaying, Reading
<1>10. Fresh'
  <2> SUFFICES ASSUME faults' = 0 PROVE Fresh' BY DEF Fresh
  <2>1. faults = 0 BY DEF IInv, TypeOK
  <2>2. \A i \in DOMAIN file : file[i] \in received => file[i] \in unconfirmed
        BY <1>1, <2>1 DEF IInv, Fresh, Reading
  <2>3. \A q \in Entries(file) : q \in received => q \in unconfirmed BY <2>2 DEF Entries
  <2>4. p \in received => p \in unconfirmed BY <2>1 DEF IInv, Fresh, p
  <2>5. \A i \in DOMAIN file' : file'[i] \in received => file'[i] \in Entries(file')
        BY DEF IInv, TypeOK, Entries, Payload, Corrupt
  <2>6. \A i \in DOMAIN file' : file'[i] \in received' => file'[i] \in unconfirmed'
        BY <1>4, <2>3, <2>4, <2>5 DEF p
  <2>7. /\ duplicates \subseteq unconfirmed /\ Queued \cap received = {}
        BY <2>1 DEF IInv, Fresh
  <2> QED BY <1>3, <1>4, <1>5, <2>6, <2>7 DEF Fresh
<1>11. Kept' BY <1>1, <1>4, <1>5 DEF IInv, Kept, NoSilentLoss, p
<1> QED BY <1>6, <1>7, <1>8, <1>9, <1>10, <1>11

\* A write on a torn line costs at most two payloads.
LEMMA TornCosts ==
    ASSUME file \in Seq(Nat), torn \in BOOLEAN, torn => file # <<>>, NEW p \in Payload,
           IsFiniteSet(lost["torn"]), faults \in Nat,
           Cardinality(lost["torn"]) + (IF torn THEN 2 ELSE 0) <= 2 * faults,
           lost'["torn"] = lost["torn"] \cup Joined(p)
    PROVE  /\ IsFiniteSet(lost'["torn"])
           /\ Cardinality(lost'["torn"]) <= 2 * faults
           /\ Joined(p) \subseteq Payload
<1> DEFINE l == lost["torn"]
<1> HIDE DEF l
<1>1. IsFiniteSet(l) /\ Cardinality(l) \in Nat BY FS_CardinalityType DEF l
<1>2. CASE ~torn
  <2>1. Joined(p) = {} /\ lost'["torn"] = l BY <1>2 DEF Joined, l
  <2>2. Cardinality(l) <= 2 * faults BY <1>1, <1>2 DEF l
  <2> QED BY <1>1, <2>1, <2>2
<1>3. CASE torn
  <2> DEFINE q == file[Len(file)]
             a == l \cup {p}
             b == a \cup {q}
  <2>1. q \in Nat
    <3>1. Len(file) \in 1..Len(file) BY <1>3, EmptySeq, LenProperties
    <3> QED BY <3>1, ElementOfSeq
  <2> HIDE DEF q, a, b
  <2>2. Joined(p) \subseteq Payload /\ Joined(p) \subseteq {p, q}
        BY <1>3, <2>1 DEF Joined, Payload, Corrupt, q
  <2>3. IsFiniteSet(a) /\ Cardinality(a) <= Cardinality(l) + 1 /\ Cardinality(a) \in Nat
    <3>1. IsFiniteSet(a) /\ (Cardinality(a) = Cardinality(l) \/ Cardinality(a) = Cardinality(l) + 1)
          BY <1>1, FS_AddElement DEF a
    <3> QED BY <1>1, <3>1
  <2>4. IsFiniteSet(b) /\ Cardinality(b) <= Cardinality(a) + 1 /\ Cardinality(b) \in Nat
    <3>1. IsFiniteSet(b) /\ (Cardinality(b) = Cardinality(a) \/ Cardinality(b) = Cardinality(a) + 1)
          BY <2>3, FS_AddElement DEF b
    <3> QED BY <2>3, <3>1
  <2>5. lost'["torn"] \subseteq b BY <2>2 DEF a, b, l
  <2>6. IsFiniteSet(lost'["torn"]) /\ Cardinality(lost'["torn"]) <= Cardinality(b)
        BY <2>4, <2>5, FS_Subset
  <2>7. Cardinality(lost'["torn"]) \in Nat BY <2>6, FS_CardinalityType
  <2>8. Cardinality(l) + 2 <= 2 * faults BY <1>3 DEF l
  <2> QED BY <1>1, <2>2, <2>3, <2>4, <2>6, <2>7, <2>8
<1> QED BY <1>2, <1>3

LEMMA SpillStep == ASSUME IInv, NEW w \in Workers, Spill(w) PROVE IInv'
<1> DEFINE p == payload[w]
           written == Written(p)
<1>1. /\ pc[w] = "spill"
      /\ SpillKept(w) \/ SpillCompact(w)
      /\ torn' = FALSE /\ pc' = [pc EXCEPT ![w] = "get"] /\ payload' = [payload EXCEPT ![w] = None]
      /\ UNCHANGED <<has_store, next, queue, dropped, faults, drainVars, backendVars>>
      BY DEF Spill
<1>2. /\ has_store /\ \A u \in Workers \ {w} : pc[u] = "off" BY <1>1, Alone DEF Storing
<1>3. /\ p \in Payload /\ p \in InFlight BY <1>1, LivePayload DEF Busy
<1>4. /\ file \in Seq(Nat) /\ torn \in BOOLEAN /\ (torn => file # <<>>) /\ faults \in Nat
      /\ count \in Nat /\ MaxEntries \in Nat /\ Len(file) \in Nat
      BY PublisherAssumption, LenProperties DEF IInv, TypeOK, Counted
<1>5. Ascending(file) /\ Before(Entries(file), {p}) BY <1>3 DEF IInv, Numbered, Before
<1> HIDE DEF p, written
<1>6. /\ written \in Seq(Nat) /\ Len(written) <= Len(file) + 1 /\ Len(written) \in Nat
      /\ Entries(written) \subseteq Entries(file) \cup {p}
      /\ Entries(file) \cup {p} \subseteq Entries(written) \cup Joined(p)
      /\ Ascending(written)
      BY <1>3, <1>4, <1>5, WrittenLines, LenProperties DEF written
<1>7. ~ReadFaults => Len(file) <= count
  <2>1. \A u \in Workers : pc[u] # "dead" BY <1>1, <1>2
  <2> QED BY <2>1 DEF IInv, Counted
<1>8. Joined(p) \subseteq Payload
  <2>1. p \in Nat BY <1>3 DEF Payload
  <2>2. torn => file[Len(file)] \in Nat
    <3>1. torn => Len(file) \in 1..Len(file) BY <1>4, EmptySeq
    <3> QED BY <1>4, <3>1, ElementOfSeq
  <2> QED BY <2>1, <2>2 DEF Joined, Payload, Corrupt
<1>9. /\ file' \in Seq(Nat) /\ count' \in Nat /\ Ascending(file')
      /\ Entries(file') \subseteq Entries(file) \cup {p}
      /\ lost' \in [Reasons -> SUBSET Payload] /\ GivenUp \subseteq GivenUp'
      /\ lost'["torn"] = lost["torn"] \cup Joined(p)
      /\ ~ReadFaults => /\ Entries(file) \cup {p} \subseteq Entries(file') \cup GivenUp'
                        /\ Len(file') <= count' /\ 10 * Len(file') <= 11 * MaxEntries
  <2>1. CASE SpillKept(w)
    <3>1. /\ ~MustCompact(count + 1) /\ file' = written /\ count' = count + 1
          /\ GiveUp("torn", Joined(p))
          BY <2>1 DEF SpillKept, p, written
    <3>2. "torn" \in Reasons BY DEF Reasons
    <3>3. /\ lost' \in [Reasons -> SUBSET Payload] /\ GivenUp' = GivenUp \cup Joined(p)
          BY <1>8, <3>1, <3>2, LostGrows DEF IInv, TypeOK
    <3>4. lost'["torn"] = lost["torn"] \cup Joined(p)
          BY <3>1, <3>2 DEF GiveUp, IInv, TypeOK
    <3>5. 10 * (count + 1) <= 11 * MaxEntries BY <1>4, <3>1 DEF MustCompact
    <3>6. ~ReadFaults => Len(file') <= count' /\ 10 * Len(file') <= 11 * MaxEntries
          BY <1>4, <1>6, <1>7, <3>1, <3>5
    <3> QED BY <1>4, <1>6, <3>1, <3>3, <3>4, <3>6
  <2>2. CASE SpillCompact(w)
    <3>1. PICK read \in ReadLines(written) :
             /\ file' = Newest(read) /\ count' = Len(Newest(read))
             /\ lost' = [lost EXCEPT !["torn"] = @ \cup Joined(p),
                                     !["trim"] = @ \cup (Entries(read) \ Entries(Newest(read)))]
          BY <2>2 DEF SpillCompact, p, written
    <3>2. /\ read \in Seq(Nat) /\ Ascending(read) /\ Entries(read) \subseteq Entries(written)
          /\ ~ReadFaults => read = written
      <4>1. <<>> \in Seq(Nat) /\ Ascending(<<>>) /\ Entries(<<>>) = {}
            BY EmptySeq DEF Ascending, Entries
      <4> QED BY <1>6, <3>1, <4>1 DEF ReadLines
    <3>3. /\ file' \in Seq(Nat) /\ Len(file') <= MaxEntries /\ Ascending(file')
          /\ Entries(file') \subseteq Entries(read)
          BY <3>1, <3>2, NewestLines
    <3>4. Len(file') \in Nat BY <3>3, LenProperties
    <3>5. Entries(read) \subseteq Payload BY <3>2, EntriesType
    <3>6. \A r \in Reasons : lost'[r] = IF r = "torn" THEN lost[r] \cup Joined(p)
                                        ELSE IF r = "trim" THEN lost[r] \cup (Entries(read) \ Entries(file'))
                                        ELSE lost[r]
          BY <3>1 DEF Reasons, IInv, TypeOK
    <3>7. lost' \in [Reasons -> SUBSET Payload] BY <1>8, <3>1, <3>5 DEF Reasons, IInv, TypeOK
    <3>8. {"torn", "trim"} \subseteq Reasons BY DEF Reasons
    <3>9. /\ GivenUp \subseteq GivenUp' /\ Joined(p) \subseteq GivenUp'
          /\ Entries(read) \ Entries(file') \subseteq GivenUp'
          BY <3>6, <3>8 DEF GivenUp
    <3>10. lost'["torn"] = lost["torn"] \cup Joined(p) BY <3>6, <3>8
    <3>11. ~ReadFaults => Entries(file) \cup {p} \subseteq Entries(file') \cup GivenUp'
          BY <1>6, <3>2, <3>9
    <3>12. count' = Len(file') /\ 10 * Len(file') <= 11 * MaxEntries BY <1>4, <3>1, <3>3, <3>4
    <3> QED BY <1>6, <3>2, <3>3, <3>4, <3>7, <3>9, <3>10, <3>11, <3>12
  <2> QED BY <1>1, <2>1, <2>2
<1>10. TypeOK' /\ WorkersOK' /\ Numbered' /\ Replaying' /\ Fresh' /\ Kept'
  <2>1. faults' \in 0..MaxFaults /\ faults' >= faults BY <1>1 DEF IInv, TypeOK
  <2>2. torn' \in BOOLEAN /\ "get" \in {"get", "dead"} BY <1>1
  <2> QED BY <1>1, <1>9, <2>1, <2>2, Stored DEF p
<1>11. Counted'
  <2>1. /\ IsFiniteSet(lost'["torn"]) /\ Cardinality(lost'["torn"]) <= 2 * faults
        BY <1>3, <1>4, <1>9, TornCosts DEF IInv, Counted
  <2>2. Cardinality(lost'["torn"]) \in Nat BY <2>1, FS_CardinalityType
  <2>3. faults' = faults BY <1>1
  <2>4. Cardinality(lost'["torn"]) + 0 <= 2 * faults' BY <1>4, <2>1, <2>2, <2>3
  <2>5. ~ReadFaults => BacklogBounded'
    <3>1. Len(file') \in Nat BY <1>9, LenProperties
    <3> QED BY <1>4, <1>9, <2>3, <3>1 DEF BacklogBounded
  <2> QED BY <1>1, <1>9, <2>1, <2>4, <2>5 DEF Counted
<1> QED BY <1>10, <1>11 DEF IInv

LEMMA SpillFailsStep == ASSUME IInv, NEW w \in Workers, SpillFails(w) PROVE IInv'
<1> DEFINE p == payload[w]
<1>1. /\ pc[w] = "spill" /\ faults < MaxFaults /\ faults' = faults + 1
      /\ pc' = [pc EXCEPT ![w] = "dead"] /\ payload' = [payload EXCEPT ![w] = None]
      /\ GiveUp("disk", (Entries(file) \cup {p}) \ Entries(file'))
      /\ UNCHANGED <<has_store, next, queue, dropped, drainVars, backendVars>>
      BY DEF SpillFails
<1>2. PICK i \in Interrupted(p) : file' = i[1] /\ torn' = i[2] /\ count' \in {count, count + 1}
      BY DEF SpillFails
<1>3. /\ p \in Payload /\ p \in InFlight BY <1>1, LivePayload DEF Busy
<1> HIDE DEF p
<1>4. /\ file \in Seq(Nat) /\ torn \in BOOLEAN /\ (torn => file # <<>>) /\ faults \in Nat
      /\ count \in Nat /\ MaxEntries \in Nat /\ MaxFaults \in Nat /\ Len(file) \in Nat
      BY PublisherAssumption, LenProperties DEF IInv, TypeOK, Counted
<1>5. Ascending(file) /\ Before(Entries(file), {p}) BY <1>3 DEF IInv, Numbered, Before
<1>6. /\ file' \in Seq(Nat) /\ Len(file') <= Len(file) + 1 /\ Len(file') \in Nat
      /\ torn' \in BOOLEAN /\ (torn' => file' # <<>>)
      /\ Entries(file') \subseteq Entries(file) \cup {p}
      /\ Ascending(file')
      BY <1>2, <1>3, <1>4, <1>5, InterruptedLines, LenProperties
<1>7. /\ lost' \in [Reasons -> SUBSET Payload]
      /\ GivenUp' = GivenUp \cup ((Entries(file) \cup {p}) \ Entries(file'))
      /\ lost'["torn"] = lost["torn"]
  <2> DEFINE gone == (Entries(file) \cup {p}) \ Entries(file')
  <2>1. gone \in SUBSET Payload BY <1>3, <1>4, EntriesType
  <2>2. "disk" \in Reasons /\ "disk" # "torn" BY DEF Reasons
  <2>3. lost \in [Reasons -> SUBSET Payload] BY DEF IInv, TypeOK
  <2>4. GiveUp("disk", gone) BY <1>1
  <2> HIDE DEF gone
  <2>5. /\ lost' \in [Reasons -> SUBSET Payload] /\ GivenUp' = GivenUp \cup gone
        /\ lost'["torn"] = lost["torn"]
        BY <2>1, <2>2, <2>3, <2>4, LostGrows
  <2> QED BY <2>5 DEF gone
<1>8. TypeOK' /\ WorkersOK' /\ Numbered' /\ Replaying' /\ Fresh' /\ Kept'
  <2>1. faults' \in 0..MaxFaults /\ faults' >= faults /\ count' \in Nat BY <1>1, <1>2, <1>4
  <2>2. "dead" \in {"get", "dead"} /\ GivenUp \subseteq GivenUp' BY <1>7
  <2>3. ~ReadFaults => Entries(file) \cup {p} \subseteq Entries(file') \cup GivenUp' BY <1>7
  <2> QED BY <1>1, <1>6, <1>7, <2>1, <2>2, <2>3, Stored DEF p
<1>9. Counted'
  <2>1. pc'[w] = "dead" BY <1>1 DEF IInv, TypeOK
  <2>2. ~ReadFaults => BacklogBounded' BY <1>1, <1>4, <1>6 DEF IInv, Counted, BacklogBounded
  <2>3. IsFiniteSet(lost["torn"]) /\ Cardinality(lost["torn"]) \in Nat
        BY FS_CardinalityType DEF IInv, Counted
  <2>4. Cardinality(lost["torn"]) <= 2 * faults BY <1>4, <2>3 DEF IInv, Counted
  <2>5. Cardinality(lost["torn"]) + (IF torn' THEN 2 ELSE 0) <= 2 * faults'
        BY <1>1, <1>4, <2>3, <2>4
  <2> QED BY <1>6, <1>7, <2>1, <2>2, <2>3, <2>5 DEF Counted
<1> QED BY <1>8, <1>9 DEF IInv

-----------------------------------------------------------------------------
\* What a step of the drain leaves alone, when no payload leaves the disk undelivered.
LEMMA DrainFrame ==
    ASSUME IInv, NEW w \in Workers, pc[w] \in {"drain"} \cup Reading,
           NEW s \in {"get", "dead"} \cup Reading, pc' = [pc EXCEPT ![w] = s],
           lines' \in [Workers -> Seq(Nat)], cursor' \in [Workers -> Nat],
           delivered_count' \in [Workers -> Nat],
           file' \in Seq(Nat), Ascending(file'), Entries(file') \subseteq Entries(file),
           torn' \in BOOLEAN, count' \in Nat, faults' \in 0..MaxFaults,
           received \subseteq received', received' \subseteq received \cup Entries(file),
           unconfirmed' \subseteq Payload, duplicates' \subseteq Payload,
           ~ReadFaults => Entries(file) \subseteq Entries(file') \cup received',
           UNCHANGED <<has_store, next, queue, dropped, payload, lost>>
    PROVE  /\ TypeOK' /\ WorkersOK' /\ Numbered' /\ Kept' /\ Queued' = Queued
           /\ \A u \in Workers \ {w} : pc[u] = "off" /\ pc'[u] = "off"
<1>1. /\ has_store /\ InFlight = {payload[w]} \ {None}
      /\ \A u \in Workers \ {w} : pc[u] = "off" /\ payload[u] = None
      BY Alone DEF Storing
<1>2. payload[w] = None BY DEF IInv, WorkersOK, Busy, Reading
<1>3. /\ pc' \in [Workers -> Steps] /\ pc'[w] = s
      /\ \A u \in Workers \ {w} : pc'[u] = "off"
      BY <1>1 DEF IInv, TypeOK, Steps, Reading
<1>4. \A u \in Workers : payload'[u] = None BY <1>1, <1>2
<1>5. InFlight' = {} /\ InFlight = {} /\ Queued' = Queued BY <1>1, <1>2, <1>4 DEF InFlight, Queued
<1>6. TypeOK'
  <2>1. received' \subseteq Payload BY EntriesType DEF IInv, TypeOK
  <2>2. /\ has_store' \in Spilling /\ next' \in 0..MaxPayloads
        /\ queue' \in Seq(Payload) /\ Len(queue') <= QueueMax /\ dropped' \in Nat
        /\ payload' \in [Workers -> Nat] /\ lost' \in [Reasons -> SUBSET Payload]
        BY DEF IInv, TypeOK
  <2>3. ~has_store' => file' = <<>> BY <1>1
  <2> QED BY <1>3, <2>1, <2>2, <2>3 DEF TypeOK
<1>7. WorkersOK' BY <1>1, <1>3, <1>4 DEF WorkersOK, Busy, Reading
<1>8. Numbered'
  <2>1. Before(Entries(file'), Queued) BY DEF IInv, Numbered, Before
  <2>2. Before(Entries(file'), InFlight' \cup Queued') /\ Before(InFlight', Queued')
        BY <1>5, <2>1 DEF Before
  <2>3. Ascending(queue') BY DEF IInv, Numbered, Ascending
  <2>4. Entries(file') \cup InFlight' \cup Queued' \cup received' \subseteq 1..next'
        BY <1>5 DEF IInv, Numbered
  <2>5. \A u, v \in Workers : payload'[u] = payload'[v] /\ payload'[u] # None => u = v
        BY <1>4
  <2> QED BY <2>2, <2>3, <2>4, <2>5 DEF Numbered, Entries, Ascending
<1>9. Kept' BY <1>5 DEF IInv, Kept, NoSilentLoss, GivenUp
<1> QED BY <1>1, <1>3, <1>5, <1>6, <1>7, <1>8, <1>9

\* Nobody is replaying when the one worker is not.
LEMMA NobodyReads ==
    ASSUME IInv, faults = 0, \A u \in Workers : pc[u] \notin Reading
    PROVE  \A i \in DOMAIN file : file[i] \in received => file[i] \in unconfirmed
BY DEF IInv, Fresh

LEMMA PeekStep == ASSUME IInv, NEW w \in Workers, Peek(w) PROVE IInv'
<1>1. /\ pc[w] = "drain" /\ pc' = [pc EXCEPT ![w] = "replay"]
      /\ cursor' = [cursor EXCEPT ![w] = 0] /\ delivered_count' = [delivered_count EXCEPT ![w] = 0]
      /\ UNCHANGED <<has_store, next, queue, dropped, payload, faults, lost, file, torn, count,
                     received, unconfirmed, duplicates>>
      BY DEF Peek, diskVars, backendVars
<1>2. PICK read \in ReadLines(file) : lines' = [lines EXCEPT ![w] = read] BY DEF Peek
<1>3. file \in Seq(Nat) /\ read \in Seq(Nat) /\ Len(read) \in Nat
      BY EmptySeq, LenProperties DEF IInv, TypeOK, ReadLines
<1>4. /\ lines' \in [Workers -> Seq(Nat)] /\ cursor' \in [Workers -> Nat]
      /\ delivered_count' \in [Workers -> Nat]
      /\ lines'[w] = read /\ cursor'[w] = 0 /\ delivered_count'[w] = 0 /\ pc'[w] = "replay"
      BY <1>1, <1>2, <1>3 DEF IInv, TypeOK
<1>5. /\ TypeOK' /\ WorkersOK' /\ Numbered' /\ Kept' /\ Queued' = Queued
      /\ \A u \in Workers \ {w} : pc[u] = "off" /\ pc'[u] = "off"
  <2>1. "replay" \in {"get", "dead"} \cup Reading /\ pc[w] \in {"drain"} \cup Reading
        BY <1>1 DEF Reading
  <2>2. /\ Ascending(file') /\ Entries(file') = Entries(file)
        /\ count' \in Nat /\ torn' \in BOOLEAN /\ faults' \in 0..MaxFaults
        /\ unconfirmed' \subseteq Payload /\ duplicates' \subseteq Payload
        BY <1>1 DEF IInv, TypeOK, Numbered, Ascending
  <2> QED BY <1>1, <1>3, <1>4, <2>1, <2>2, DrainFrame
<1>6. Replaying'
  <2>1. ValidUpTo(read, 0) = {} BY DEF ValidUpTo
  <2>2. delivered_count'[w] = Cardinality(ValidUpTo(lines'[w], cursor'[w]))
        BY <1>4, <2>1, FS_EmptySet
  <2>3. lines'[w] \in ReadLines(file') BY <1>1, <1>4
  <2>4. cursor'[w] \in 0..Len(lines'[w]) BY <1>3, <1>4
  <2>5. \A u \in Workers : pc'[u] \in Reading => u = w BY <1>5 DEF Reading
  <2> QED BY <1>4, <2>2, <2>3, <2>4, <2>5 DEF Replaying
<1>7. Fresh'
  <2> SUFFICES ASSUME faults = 0 PROVE Fresh' BY <1>1 DEF Fresh
  <2>1. \A u \in Workers : pc[u] \notin Reading BY <1>1, <1>5 DEF Reading
  <2>2. \A i \in DOMAIN file : file[i] \in received => file[i] \in unconfirmed
        BY <2>1, NobodyReads
  <2>3. duplicates \subseteq unconfirmed /\ Queued \cap received = {} BY DEF IInv, Fresh
  <2>4. \A u \in Workers : pc'[u] # "publish" /\ pc'[u] # "spill" BY <1>4, <1>5
  <2> QED BY <1>1, <1>5, <2>2, <2>3, <2>4 DEF Fresh
<1>8. Counted'
  <2>1. \A u \in Workers : pc[u] = "dead" => pc'[u] = "dead" BY <1>1, <1>5
  <2>2. lost'["torn"] = lost["torn"] BY <1>1
  <2> QED BY <1>1, <2>1, <2>2, DiskStill
<1> QED BY <1>5, <1>6, <1>7, <1>8 DEF IInv

\* A replay that has lines reads them from the file as it is.
LEMMA SameLines ==
    ASSUME IInv, NEW w \in Workers, pc[w] \in Reading, DOMAIN lines[w] # {}
    PROVE  lines[w] = file
<1>1. lines[w] \in ReadLines(file) BY DEF IInv, Replaying
<1>2. lines[w] # <<>> BY EmptySeq
<1> QED BY <1>1, <1>2 DEF ReadLines

LEMMA ReplayItemStep == ASSUME IInv, NEW w \in Workers, ReplayItem(w) PROVE IInv'
<1>1. /\ pc[w] = "replay"
      /\ UNCHANGED <<has_store, next, queue, dropped, payload, lines, faults, lost, file, torn, count>>
      BY DEF ReplayItem, diskVars
<1>2. PICK i \in DOMAIN lines[w] :
         /\ IsNextItem(w, i)
         /\ \/ /\ Publish(lines[w][i], TRUE)
               /\ cursor' = [cursor EXCEPT ![w] = i]
               /\ delivered_count' = [delivered_count EXCEPT ![w] = @ + 1]
               /\ UNCHANGED pc
            \/ /\ Publish(lines[w][i], FALSE)
               /\ pc' = [pc EXCEPT ![w] = "discard"]
               /\ UNCHANGED <<cursor, delivered_count>>
      BY DEF ReplayItem
<1>3. lines[w] = file /\ pc[w] \in Reading BY <1>1, <1>2, SameLines DEF Reading
<1> DEFINE p == file[i]
<1>4. /\ file \in Seq(Nat) /\ DOMAIN file = 1..Len(file) /\ Len(file) \in Nat
      /\ i \in DOMAIN file /\ i > cursor[w] /\ p # Corrupt
      /\ \A j \in DOMAIN file : j > cursor[w] /\ j < i => file[j] = Corrupt
      BY <1>2, <1>3, LenProperties DEF IInv, TypeOK, IsNextItem
<1>5. p \in Payload /\ p \in Entries(file)
  <2>1. p \in Entries(file) BY <1>4 DEF Entries
  <2> QED BY <1>4, <2>1, EntriesType
<1>6. /\ cursor[w] \in 0..Len(file)
      /\ cursor[w] # 0 => file[cursor[w]] # Corrupt
      /\ delivered_count[w] = Cardinality(ValidUpTo(file, cursor[w]))
      /\ \A j \in 1..cursor[w] : file[j] # Corrupt => file[j] \in received
      BY <1>3 DEF IInv, Replaying
<1> HIDE DEF p
<1>7. PICK ok \in BOOLEAN :
         /\ Publish(p, ok)
         /\ ok => /\ cursor' = [cursor EXCEPT ![w] = i] /\ UNCHANGED pc
                  /\ delivered_count' = [delivered_count EXCEPT ![w] = @ + 1]
         /\ ~ok => pc' = [pc EXCEPT ![w] = "discard"] /\ UNCHANGED <<cursor, delivered_count>>
      BY <1>2, <1>3 DEF p
<1>8. /\ received \subseteq received' /\ received' \subseteq received \cup {p}
      /\ unconfirmed \subseteq unconfirmed'
      /\ duplicates' \subseteq duplicates \cup ({p} \cap received)
      /\ ok => p \in received'
      /\ ~ok /\ p \in received' => p \in received \/ p \in unconfirmed'
      /\ unconfirmed' \subseteq Payload /\ duplicates' \subseteq Payload
      BY <1>5, <1>7, Published DEF IInv
<1>9. PICK s \in Reading : /\ pc' = [pc EXCEPT ![w] = s]
                           /\ s = IF ok THEN "replay" ELSE "discard"
  <2>1. CASE ok BY <1>1, <1>7, <2>1 DEF Reading, IInv, TypeOK
  <2>2. CASE ~ok BY <1>7, <2>2 DEF Reading
  <2> QED BY <2>1, <2>2
<1>10. /\ cursor' \in [Workers -> Nat] /\ delivered_count' \in [Workers -> Nat]
       /\ cursor'[w] = (IF ok THEN i ELSE cursor[w])
       /\ delivered_count'[w] = (IF ok THEN delivered_count[w] + 1 ELSE delivered_count[w])
       /\ pc'[w] = s
  <2>1. cursor \in [Workers -> Nat] /\ delivered_count \in [Workers -> Nat] /\ i \in Nat
        /\ pc \in [Workers -> Steps]
        BY <1>4 DEF IInv, TypeOK
  <2>2. CASE ok BY <1>7, <1>9, <2>1, <2>2
  <2>3. CASE ~ok BY <1>7, <1>9, <2>1, <2>3
  <2> QED BY <2>2, <2>3
<1>11. /\ TypeOK' /\ WorkersOK' /\ Numbered' /\ Kept' /\ Queued' = Queued
       /\ \A u \in Workers \ {w} : pc[u] = "off" /\ pc'[u] = "off"
  <2>1. s \in {"get", "dead"} \cup Reading /\ pc[w] \in {"drain"} \cup Reading
        BY <1>1 DEF Reading
  <2>2. /\ Ascending(file') /\ Entries(file') = Entries(file) /\ file' \in Seq(Nat)
        /\ count' \in Nat /\ torn' \in BOOLEAN /\ faults' \in 0..MaxFaults
        /\ lines' \in [Workers -> Seq(Nat)]
        BY <1>1 DEF IInv, TypeOK, Numbered, Ascending
  <2>3. received' \subseteq received \cup Entries(file) BY <1>5, <1>8
  <2> QED BY <1>1, <1>8, <1>9, <1>10, <2>1, <2>2, <2>3, DrainFrame
<1>12. Replaying'
  <2>1. \A u \in Workers : pc'[u] \in Reading => u = w BY <1>11 DEF Reading
  <2>2. lines'[w] \in ReadLines(file') /\ lines'[w] = file BY <1>1, <1>3 DEF IInv, Replaying
  <2>3. /\ cursor'[w] \in 0..Len(file)
        /\ cursor'[w] # 0 => file[cursor'[w]] # Corrupt
        BY <1>4, <1>6, <1>10 DEF p
  <2>4. delivered_count'[w] = Cardinality(ValidUpTo(file, cursor'[w]))
    <3>1. CASE ok
      <4>1. \A j \in 1..i : j > cursor[w] /\ j < i => file[j] = Corrupt BY <1>4
      <4>2. cursor[w] \in Nat /\ i \in Nat /\ cursor[w] < i /\ file[i] # Corrupt
            BY <1>4, <1>6 DEF p
      <4>3. Cardinality(ValidUpTo(file, i)) = Cardinality(ValidUpTo(file, cursor[w])) + 1
            BY <4>1, <4>2, NextItem
      <4> QED BY <1>6, <1>10, <3>1, <4>3
    <3>2. CASE ~ok BY <1>6, <1>10, <3>2
    <3> QED BY <3>1, <3>2
  <2>5. \A j \in 1..cursor'[w] : file[j] # Corrupt => file[j] \in received'
    <3>1. CASE ok
      <4>1. SUFFICES ASSUME NEW j \in 1..i, file[j] # Corrupt PROVE file[j] \in received'
            BY <1>10, <3>1
      <4>2. CASE j = i BY <1>8, <3>1, <4>2 DEF p
      <4>3. CASE j < i
        <5>1. j \in 1..cursor[w] BY <1>4, <1>6, <4>1, <4>3
        <5> QED BY <1>6, <1>8, <4>1, <5>1
      <4> QED BY <1>4, <4>2, <4>3
    <3>2. CASE ~ok BY <1>6, <1>8, <1>10, <3>2
    <3> QED BY <3>1, <3>2
  <2> QED BY <2>1, <2>2, <2>3, <2>4, <2>5 DEF Replaying
<1>13. Fresh'
  <2> SUFFICES ASSUME faults = 0 PROVE Fresh' BY <1>1 DEF Fresh
  <2>1. \A u \in Workers : pc[u] \in Reading => u = w BY <1>11 DEF Reading
  <2>2. \A j \in DOMAIN file : file[j] \in received /\ j > cursor[w] => file[j] \in unconfirmed
    <3>1. cursor[w] \in Nat /\ \A j \in DOMAIN file : j \in Nat BY <1>4, <1>6
    <3> QED BY <2>1, <3>1 DEF IInv, Fresh
  <2>3. p \in received => p \in unconfirmed BY <1>4, <2>2 DEF p
  <2>4. duplicates' \subseteq unconfirmed' BY <1>8, <2>3 DEF IInv, Fresh
  <2>5. Queued' \cap received' = {}
    <3>1. p \notin Queued BY <1>5 DEF IInv, Numbered, Before, Payload
    <3> QED BY <1>8, <1>11, <3>1 DEF IInv, Fresh
  <2>6. \A u \in Workers : pc'[u] # "publish" /\ pc'[u] # "spill" BY <1>10, <1>11 DEF Reading
  <2>7. \A j \in DOMAIN file : file[j] \in received' /\ j > cursor'[w] => file[j] \in unconfirmed'
    <3> SUFFICES ASSUME NEW j \in DOMAIN file, file[j] \in received', j > cursor'[w]
                 PROVE  file[j] \in unconfirmed'
        OBVIOUS
    <3>1. j > cursor[w] BY <1>4, <1>6, <1>10
    <3>2. CASE file[j] \in received BY <1>8, <2>2, <3>1, <3>2
    <3>3. CASE file[j] = p /\ p \notin received
      <4>1. j = i
        <5>1. Ascending(file) /\ file[j] # Corrupt /\ p \in Nat
              BY <1>5, <3>3 DEF IInv, Numbered, Payload, Corrupt
        <5> QED BY <1>4, <3>3, <5>1 DEF Ascending, p
      <4>2. ~ok BY <1>4, <1>10, <4>1
      <4> QED BY <1>8, <3>3, <4>2
    <3> QED BY <1>8, <3>2, <3>3
  <2>8. pc'[w] \in Reading /\ lines'[w] = file' BY <1>1, <1>3, <1>10
  <2>9. cursor'[w] \in Nat /\ \A j \in DOMAIN file : j \in Nat BY <1>4, <1>10 DEF IInv, TypeOK
  <2>10. \A j \in DOMAIN file : j <= cursor'[w] \/ j > cursor'[w] BY <2>9
  <2>11. \A j \in DOMAIN file' : file'[j] \in received' =>
            file'[j] \in unconfirmed'
            \/ \E u \in Workers : pc'[u] \in Reading /\ lines'[u] = file' /\ j <= cursor'[u]
    <3>1. file' = file BY <1>1
    <3> QED BY <2>7, <2>8, <2>10, <3>1
  <2> QED BY <2>4, <2>5, <2>6, <2>11 DEF Fresh
<1>14. Counted'
  <2>1. \A u \in Workers : pc[u] = "dead" => pc'[u] = "dead" BY <1>1, <1>11
  <2>2. lost'["torn"] = lost["torn"] BY <1>1
  <2> QED BY <1>1, <2>1, <2>2, DiskStill
<1> QED BY <1>11, <1>12, <1>13, <1>14 DEF IInv

LEMMA ReplayEndStep == ASSUME IInv, NEW w \in Workers, ReplayEnd(w) PROVE IInv'
<1>1. /\ pc[w] = "replay" /\ pc' = [pc EXCEPT ![w] = "discard"]
      /\ UNCHANGED <<has_store, next, queue, dropped, payload, faults, lost, lines, cursor,
                     delivered_count, file, torn, count, received, unconfirmed, duplicates>>
      BY DEF ReplayEnd, drainVars, diskVars, backendVars
<1>2. /\ TypeOK' /\ WorkersOK' /\ Numbered' /\ Kept' /\ Queued' = Queued
      /\ \A u \in Workers \ {w} : pc[u] = "off" /\ pc'[u] = "off"
  <2>1. "discard" \in {"get", "dead"} \cup Reading /\ pc[w] \in {"drain"} \cup Reading
        BY <1>1 DEF Reading
  <2>2. /\ Ascending(file') /\ Entries(file') = Entries(file) /\ file' \in Seq(Nat)
        /\ count' \in Nat /\ torn' \in BOOLEAN /\ faults' \in 0..MaxFaults
        /\ lines' \in [Workers -> Seq(Nat)] /\ cursor' \in [Workers -> Nat]
        /\ delivered_count' \in [Workers -> Nat]
        /\ unconfirmed' \subseteq Payload /\ duplicates' \subseteq Payload
        BY <1>1 DEF IInv, TypeOK, Numbered, Ascending
  <2>3. received \subseteq received' /\ received' \subseteq received \cup Entries(file) BY <1>1
  <2> QED BY <1>1, <2>1, <2>2, <2>3, DrainFrame
<1>3. \A u \in Workers : pc'[u] \in Reading <=> pc[u] \in Reading
      BY <1>1, <1>2 DEF Reading, IInv, TypeOK
<1>4. Replaying' BY <1>1, <1>3, ReplayStill
<1>5. Fresh'
  <2>1. \A u \in Workers : pc'[u] # "publish" /\ pc'[u] # "spill"
        BY <1>1, <1>2 DEF IInv, TypeOK
  <2>2. \A i \in DOMAIN file : (\E u \in Workers : pc[u] \in Reading /\ lines[u] = file /\ i <= cursor[u])
            => \E u \in Workers : pc'[u] \in Reading /\ lines'[u] = file' /\ i <= cursor'[u]
        BY <1>1, <1>3
  <2> QED BY <1>1, <1>2, <2>1, <2>2 DEF IInv, Fresh
<1>6. Counted'
  <2>1. \A u \in Workers : pc[u] = "dead" => pc'[u] = "dead" BY <1>1, <1>2
  <2>2. lost'["torn"] = lost["torn"] BY <1>1
  <2> QED BY <1>1, <2>1, <2>2, DiskStill
<1> QED BY <1>2, <1>4, <1>5, <1>6 DEF IInv

\* A replay that delivered nothing has not moved.
LEMMA NothingDelivered ==
    ASSUME IInv, NEW w \in Workers, pc[w] \in Reading
    PROVE  delivered_count[w] = 0 <=> cursor[w] = 0
<1>1. /\ cursor[w] \in Nat /\ cursor[w] # 0 => lines[w][cursor[w]] # Corrupt
      BY DEF IInv, TypeOK, Replaying
<1>2. delivered_count[w] = Cardinality(ValidUpTo(lines[w], cursor[w])) BY DEF IInv, Replaying
<1>3. CASE cursor[w] = 0
  <2>1. ValidUpTo(lines[w], 0) = {} BY DEF ValidUpTo
  <2> QED BY <1>2, <1>3, <2>1, FS_EmptySet
<1>4. CASE cursor[w] # 0
  <2>1. lines[w][cursor[w]] # Corrupt BY <1>4 DEF IInv, Replaying
  <2>2. 0 < cursor[w] BY <1>1, <1>4 DEF IInv, TypeOK
  <2>3. cursor[w] \in Nat BY DEF IInv, TypeOK
  <2>4. /\ Cardinality(ValidUpTo(lines[w], 0)) \in Nat
        /\ Cardinality(ValidUpTo(lines[w], cursor[w])) \in Nat
        /\ Cardinality(ValidUpTo(lines[w], 0)) < Cardinality(ValidUpTo(lines[w], cursor[w]))
        BY <2>1, <2>2, <2>3, ValidGrows
  <2>5. delivered_count[w] # 0 BY <1>2, <2>4
  <2> QED BY <1>4, <2>5
<1> QED BY <1>3, <1>4

\* What discard_batch cuts off: the lines up to the cursor, every payload of them delivered.
LEMMA Cut ==
    ASSUME IInv, NEW w \in Workers, pc[w] = "discard", delivered_count[w] # 0,
           NEW c \in 0..Len(file), IsCut(file, delivered_count[w], c)
    PROVE  /\ lines[w] = file /\ c = cursor[w]
           /\ \A i \in 1..c : file[i] # Corrupt => file[i] \in received
<1>1. cursor[w] # 0 /\ pc[w] \in Reading BY NothingDelivered DEF Reading
<1>2. /\ cursor[w] \in 0..Len(lines[w]) /\ lines[w] \in Seq(Nat)
      BY <1>1 DEF IInv, TypeOK, Replaying
<1>3. DOMAIN lines[w] # {}
  <2>1. Len(lines[w]) \in Nat /\ DOMAIN lines[w] = 1..Len(lines[w]) BY <1>2, LenProperties
  <2>2. cursor[w] \in 1..Len(lines[w]) BY <1>1, <1>2, <2>1
  <2> QED BY <2>1, <2>2
<1>4. lines[w] = file BY <1>1, <1>3, SameLines
<1>5. file \in Seq(Nat) /\ cursor[w] \in 0..Len(file) BY <1>2, <1>4
<1>6. file[cursor[w]] # Corrupt BY <1>1, <1>4 DEF IInv, Replaying
<1>7. delivered_count[w] = Cardinality(ValidUpTo(file, cursor[w]))
      BY <1>1, <1>4 DEF IInv, Replaying
<1>8. c = cursor[w] BY <1>5, <1>6, <1>7, CutAtCursor
<1>9. \A i \in 1..cursor[w] : file[i] # Corrupt => file[i] \in received
      BY <1>1, <1>4 DEF IInv, Replaying
<1> QED BY <1>4, <1>8, <1>9

\* The file after discard_batch: the lines behind the cut, all others were delivered.
LEMMA Discarded ==
    ASSUME IInv, NEW w \in Workers, Discard(w)
    PROVE  /\ file' \in Seq(Nat) /\ count' \in Nat /\ torn' \in BOOLEAN /\ Ascending(file')
           /\ Entries(file') \subseteq Entries(file)
           /\ ~ReadFaults => /\ Len(file') <= Len(file)
                             /\ Entries(file) \subseteq
                                  Entries(file') \cup {file[i] : i \in 1..cursor[w]}
                             /\ \A i \in 1..cursor[w] : file[i] # Corrupt => file[i] \in received
                             /\ cursor[w] # 0 => lines[w] = file
           /\ \/ UNCHANGED <<file, torn, count>> /\ cursor[w] = 0
              \/ torn' = FALSE /\ count' = Len(file')
           /\ faults = 0 => \A i \in DOMAIN file' : file'[i] \in received => file'[i] \in unconfirmed
<1>1. pc[w] = "discard" /\ pc[w] \in Reading BY DEF Discard, Reading
<1>2. /\ file \in Seq(Nat) /\ Len(file) \in Nat /\ count \in Nat /\ torn \in BOOLEAN /\ Ascending(file)
      /\ DOMAIN file = 1..Len(file) /\ cursor[w] \in Nat
      BY LenProperties DEF IInv, TypeOK, Numbered
<1>3. \A u \in Workers : pc[u] \in Reading => u = w
  <2>1. pc[w] \in Storing BY <1>1 DEF Storing
  <2>2. \A u \in Workers \ {w} : pc[u] = "off" BY <2>1, Alone
  <2> QED BY <2>2 DEF Reading
<1>4. faults = 0 => \A i \in DOMAIN file : file[i] \in received /\ ~(i <= cursor[w]) => file[i] \in unconfirmed
      BY <1>3 DEF IInv, Fresh
<1>5. CASE delivered_count[w] = 0
  <2>1. UNCHANGED <<file, torn, count>> /\ cursor[w] = 0
        BY <1>1, <1>5, NothingDelivered DEF Discard, diskVars
  <2>2. Entries(file') = Entries(file) /\ Ascending(file') BY <1>2, <2>1
  <2>3. faults = 0 => \A i \in DOMAIN file' : file'[i] \in received => file'[i] \in unconfirmed
        BY <1>2, <1>4, <2>1
  <2> QED BY <1>2, <2>1, <2>2, <2>3
<1>6. CASE delivered_count[w] # 0
  <2>0. PICK read \in ReadLines(file) : \E c \in 0..Len(read) :
           /\ IsCut(read, delivered_count[w], c)
           /\ file' = SubSeq(read, c + 1, Len(read)) /\ torn' = FALSE /\ count' = Len(read) - c
        BY <1>6 DEF Discard
  <2>1. PICK c \in 0..Len(read) :
           /\ IsCut(read, delivered_count[w], c)
           /\ file' = SubSeq(read, c + 1, Len(read)) /\ torn' = FALSE /\ count' = Len(read) - c
        BY <2>0
  <2>2. CASE read = file
    <3>1. /\ lines[w] = file /\ c = cursor[w]
          /\ \A i \in 1..c : file[i] # Corrupt => file[i] \in received
          BY <1>1, <1>6, <2>1, <2>2, Cut
    <3>2. c \in 0..Len(file) /\ file' = SubSeq(file, c + 1, Len(file)) BY <2>1, <2>2
    <3>3. /\ file' \in Seq(Nat) /\ Len(file') = Len(file) - c /\ DOMAIN file' = 1..(Len(file) - c)
          /\ \A i \in DOMAIN file' : i + c \in DOMAIN file /\ file'[i] = file[i + c]
          BY <1>2, <3>2, Suffix
    <3>4. /\ Entries(file') \subseteq Entries(file) /\ Ascending(file')
          /\ Entries(file) \subseteq Entries(file') \cup {file[i] : i \in 1..c}
          BY <1>2, <3>2, SuffixEntries
    <3>5. count' = Len(file') /\ count' \in Nat /\ Len(file') <= Len(file)
          BY <1>2, <2>1, <2>2, <3>2, <3>3
    <3>6. faults = 0 => \A i \in DOMAIN file' : file'[i] \in received => file'[i] \in unconfirmed
      <4>1. \A i \in DOMAIN file' : ~(i + c <= cursor[w]) BY <1>2, <3>1, <3>3
      <4> QED BY <1>4, <3>3, <4>1
    <3> QED BY <2>1, <3>1, <3>3, <3>4, <3>5, <3>6
  <2>3. CASE read = <<>> /\ ReadFaults
    <3>1. <<>> \in Seq(Nat) /\ Len(<<>>) = 0 BY EmptySeq
    <3>2. c \in 0..Len(<<>>) /\ c = 0 /\ file' = SubSeq(<<>>, c + 1, Len(<<>>)) /\ count' = 0
          BY <2>1, <2>3, <3>1
    <3>3. file' \in Seq(Nat) /\ Len(file') = 0 BY <3>1, <3>2, Suffix
    <3>4. file' = <<>> /\ DOMAIN file' = {} BY <3>3, EmptySeq
    <3>5. Entries(file') = {} /\ Ascending(file') BY <3>4 DEF Entries, Ascending
    <3>6. faults = 0 => \A i \in DOMAIN file' : file'[i] \in received => file'[i] \in unconfirmed
          BY <3>4
    <3>7. torn' = FALSE /\ count' = Len(file') /\ count' \in Nat BY <2>1, <3>2, <3>3
    <3> QED BY <2>3, <3>3, <3>5, <3>6, <3>7
  <2> QED BY <2>1, <2>2, <2>3 DEF ReadLines
<1> QED BY <1>5, <1>6

LEMMA DiscardStep == ASSUME IInv, NEW w \in Workers, Discard(w) PROVE IInv'
<1>1. /\ pc[w] = "discard" /\ pc' = [pc EXCEPT ![w] = "get"]
      /\ UNCHANGED <<has_store, next, queue, dropped, payload, faults, lost, lines, cursor,
                     delivered_count, received, unconfirmed, duplicates>>
      BY DEF Discard, drainVars, backendVars
<1>2. /\ file' \in Seq(Nat) /\ count' \in Nat /\ torn' \in BOOLEAN /\ Ascending(file')
      /\ Entries(file') \subseteq Entries(file)
      /\ ~ReadFaults => /\ Len(file') <= Len(file)
                        /\ Entries(file) \subseteq Entries(file') \cup received'
      /\ \/ UNCHANGED <<file, torn, count>>
         \/ torn' = FALSE /\ count' = Len(file')
      /\ faults = 0 => \A i \in DOMAIN file' : file'[i] \in received => file'[i] \in unconfirmed
  <2>1. ~ReadFaults => Entries(file) \subseteq Entries(file') \cup received'
    <3> SUFFICES ASSUME ~ReadFaults PROVE Entries(file) \subseteq Entries(file') \cup received'
        OBVIOUS
    <3>1. /\ Entries(file) \subseteq Entries(file') \cup {file[i] : i \in 1..cursor[w]}
          /\ \A i \in 1..cursor[w] : file[i] # Corrupt => file[i] \in received
          BY Discarded
    <3> QED BY <1>1, <3>1 DEF Entries
  <2> QED BY <2>1, Discarded
<1>3. /\ TypeOK' /\ WorkersOK' /\ Numbered' /\ Kept' /\ Queued' = Queued
      /\ \A u \in Workers \ {w} : pc[u] = "off" /\ pc'[u] = "off"
  <2>1. "get" \in {"get", "dead"} \cup Reading /\ pc[w] \in {"drain"} \cup Reading
        BY <1>1 DEF Reading
  <2>2. /\ faults' \in 0..MaxFaults
        /\ lines' \in [Workers -> Seq(Nat)] /\ cursor' \in [Workers -> Nat]
        /\ delivered_count' \in [Workers -> Nat]
        /\ unconfirmed' \subseteq Payload /\ duplicates' \subseteq Payload
        BY <1>1 DEF IInv, TypeOK
  <2>3. received \subseteq received' /\ received' \subseteq received \cup Entries(file) BY <1>1
  <2> QED BY <1>1, <1>2, <2>1, <2>2, <2>3, DrainFrame
<1>4. pc'[w] = "get" BY <1>1 DEF IInv, TypeOK
<1>5. Replaying' BY <1>3, <1>4 DEF Replaying, Reading
<1>6. Fresh'
  <2>1. \A u \in Workers : pc'[u] # "publish" /\ pc'[u] # "spill" BY <1>3, <1>4
  <2> QED BY <1>1, <1>2, <1>3, <2>1 DEF IInv, Fresh
<1>7. Counted'
  <2>1. /\ Len(file) \in Nat /\ Len(file') \in Nat /\ MaxEntries \in Nat /\ faults \in Nat
        BY <1>2, LenProperties, PublisherAssumption DEF IInv, TypeOK
  <2>2. \A u \in Workers : pc[u] # "dead" BY <1>1, <1>3
  <2>3. ~ReadFaults => Len(file') <= count'
    <3>1. ~ReadFaults => Len(file) <= count BY <2>2 DEF IInv, Counted
    <3> QED BY <1>2, <2>1, <3>1
  <2>4. ~ReadFaults => BacklogBounded'
        BY <1>1, <1>2, <2>1 DEF IInv, Counted, BacklogBounded
  <2>5. torn' => torn /\ file' = file BY <1>2
  <2>6. IsFiniteSet(lost["torn"]) /\ Cardinality(lost["torn"]) \in Nat
        BY FS_CardinalityType DEF IInv, Counted
  <2>7. Cardinality(lost["torn"]) + (IF torn' THEN 2 ELSE 0) <= 2 * faults
    <3>1. Cardinality(lost["torn"]) + (IF torn THEN 2 ELSE 0) <= 2 * faults BY DEF IInv, Counted
    <3>2. CASE torn' BY <2>5, <3>1, <3>2
    <3>3. CASE ~torn' BY <2>1, <2>6, <3>1, <3>3
    <3> QED BY <3>2, <3>3
  <2>8. torn' => file' # <<>> BY <2>5 DEF IInv, Counted
  <2> QED BY <1>1, <2>3, <2>4, <2>6, <2>7, <2>8 DEF Counted
<1> QED BY <1>3, <1>5, <1>6, <1>7 DEF IInv

LEMMA DiscardFailsStep == ASSUME IInv, NEW w \in Workers, DiscardFails(w) PROVE IInv'
<1>1. /\ pc[w] = "discard" /\ pc' = [pc EXCEPT ![w] = "dead"]
      /\ faults < MaxFaults /\ faults' = faults + 1
      /\ UNCHANGED <<has_store, next, queue, dropped, payload, lost, lines, cursor,
                     delivered_count, file, torn, count, received, unconfirmed, duplicates>>
      BY DEF DiscardFails, drainVars, diskVars, backendVars
<1>2. faults \in Nat /\ MaxFaults \in Nat /\ faults' \in 0..MaxFaults
      BY <1>1, PublisherAssumption DEF IInv, TypeOK
<1>3. /\ TypeOK' /\ WorkersOK' /\ Numbered' /\ Kept'
      /\ \A u \in Workers \ {w} : pc[u] = "off" /\ pc'[u] = "off"
  <2>1. "dead" \in {"get", "dead"} \cup Reading /\ pc[w] \in {"drain"} \cup Reading
        BY <1>1 DEF Reading
  <2>2. /\ Ascending(file') /\ Entries(file') = Entries(file) /\ file' \in Seq(Nat)
        /\ count' \in Nat /\ torn' \in BOOLEAN
        /\ lines' \in [Workers -> Seq(Nat)] /\ cursor' \in [Workers -> Nat]
        /\ delivered_count' \in [Workers -> Nat]
        /\ unconfirmed' \subseteq Payload /\ duplicates' \subseteq Payload
        BY <1>1 DEF IInv, TypeOK, Numbered, Ascending
  <2>3. received \subseteq received' /\ received' \subseteq received \cup Entries(file) BY <1>1
  <2> QED BY <1>1, <1>2, <2>1, <2>2, <2>3, DrainFrame
<1>4. pc'[w] = "dead" BY <1>1 DEF IInv, TypeOK
<1>5. Replaying' BY <1>3, <1>4 DEF Replaying, Reading
<1>6. Fresh' BY <1>1, <1>2 DEF Fresh
<1>7. Counted'
  <2>1. Len(file) \in Nat /\ MaxEntries \in Nat
        BY LenProperties, PublisherAssumption DEF IInv, TypeOK
  <2>2. ~ReadFaults => BacklogBounded' BY <1>1, <1>2, <2>1 DEF IInv, Counted, BacklogBounded
  <2>3. IsFiniteSet(lost["torn"]) /\ Cardinality(lost["torn"]) \in Nat
        BY FS_CardinalityType DEF IInv, Counted
  <2>4. Cardinality(lost["torn"]) + (IF torn THEN 2 ELSE 0) <= 2 * faults' 
    <3>1. Cardinality(lost["torn"]) + (IF torn THEN 2 ELSE 0) <= 2 * faults BY DEF IInv, Counted
    <3> QED BY <1>1, <1>2, <2>3, <3>1
  <2> QED BY <1>1, <1>4, <2>2, <2>3, <2>4 DEF IInv, Counted
<1> QED BY <1>3, <1>5, <1>6, <1>7 DEF IInv

\* What the process leaves on disk when it ends.
LEMMA CrashLines ==
    ASSUME IInv, CrashDisk
    PROVE  /\ file' \in Seq(Nat) /\ torn' \in BOOLEAN /\ (torn' => file' # <<>>)
           /\ Len(file') <= Len(file) + 1 /\ Len(file') \in Nat /\ Len(file) \in Nat
           /\ Entries(file') \subseteq Entries(file) \cup InFlight
           /\ Ascending(file')
           /\ Before(Entries(file'), Queued)
           /\ file' = file \/ has_store
<1>1. /\ file \in Seq(Nat) /\ torn \in BOOLEAN /\ (torn => file # <<>>) /\ Len(file) \in Nat
      /\ Ascending(file) /\ Before(Entries(file), InFlight \cup Queued) /\ Before(InFlight, Queued)
      BY LenProperties DEF IInv, TypeOK, Counted, Numbered
<1>2. CASE UNCHANGED <<file, torn>>
  <2>1. Len(file) <= Len(file) + 1 BY <1>1
  <2> QED BY <1>1, <1>2, <2>1 DEF Before, Ascending, Entries
<1>3. CASE ~UNCHANGED <<file, torn>>
  <2>1. PICK w \in Workers : /\ pc[w] = "spill"
                             /\ \E i \in Interrupted(payload[w]) : file' = i[1] /\ torn' = i[2]
        BY <1>3 DEF CrashDisk
  <2>2. PICK i \in Interrupted(payload[w]) : file' = i[1] /\ torn' = i[2] BY <2>1
  <2>3. /\ payload[w] \in Payload /\ payload[w] \in InFlight BY <2>1, LivePayload DEF Busy
  <2>4. Before(Entries(file), {payload[w]}) BY <1>1, <2>3 DEF Before
  <2>5. has_store BY <2>1, Alone DEF Storing
  <2>6. /\ file' \in Seq(Nat) /\ Len(file') <= Len(file) + 1
        /\ torn' \in BOOLEAN /\ (torn' => file' # <<>>)
        /\ Entries(file') \subseteq Entries(file) \cup {payload[w]}
        /\ Ascending(file')
        BY <1>1, <2>2, <2>3, <2>4, InterruptedLines
  <2>7. Len(file') \in Nat BY <2>6, LenProperties
  <2>8. Before(Entries(file'), Queued) BY <1>1, <2>3, <2>6 DEF Before
  <2> QED BY <1>1, <2>3, <2>5, <2>6, <2>7, <2>8
<1> QED BY <1>2, <1>3

LEMMA RestartStep == ASSUME IInv, Restart PROVE IInv'
<1> DEFINE gone == (Queued \cup InFlight \cup Entries(file)) \ Entries(file')
<1>1. /\ faults < MaxFaults /\ faults' = faults + 1 /\ CrashDisk
      /\ GiveUp("crash", gone)
      /\ queue' = <<>> /\ dropped' = 0 /\ pc' = Start(has_store)
      /\ payload' = [w \in Workers |-> None] /\ lines' = [w \in Workers |-> <<>>]
      /\ cursor' = [w \in Workers |-> 0] /\ delivered_count' = [w \in Workers |-> 0]
      /\ UNCHANGED <<has_store, next, received, unconfirmed, duplicates>>
      BY DEF Restart, backendVars
<1>2. PICK read \in ReadLines(file') : count' = Len(read) BY DEF Restart
<1>3. /\ file' \in Seq(Nat) /\ torn' \in BOOLEAN /\ (torn' => file' # <<>>)
      /\ Len(file') <= Len(file) + 1 /\ Len(file') \in Nat /\ Len(file) \in Nat
      /\ Entries(file') \subseteq Entries(file) \cup InFlight
      /\ Ascending(file')
      /\ file' = file \/ has_store
      BY <1>1, CrashLines
<1>4. /\ faults \in Nat /\ MaxFaults \in Nat /\ MaxEntries \in Nat /\ faults' \in 0..MaxFaults
      /\ QueueMax \in Nat
      BY <1>1, PublisherAssumption DEF IInv, TypeOK
<1>5. has_store \in BOOLEAN BY PublisherAssumption DEF IInv, TypeOK
<1>6. /\ pc' \in [Workers -> Steps] /\ \A w \in Workers : pc'[w] \in {"off", "get"}
      /\ has_store => \A w, u \in Workers : pc'[w] # "off" /\ pc'[u] # "off" => w = u
      BY <1>1, <1>5, OnlyStarted
<1>7. \A S : <<>> \in Seq(S) /\ Len(<<>>) = 0 /\ DOMAIN <<>> = {} BY EmptySeq
<1>8. gone \in SUBSET Payload
  <2>1. Entries(file) \subseteq Payload BY EntriesType DEF IInv, TypeOK
  <2>2. InFlight \subseteq Payload /\ Queued \subseteq Payload BY DEF IInv, Numbered, Payload
  <2> QED BY <2>1, <2>2
<1> HIDE DEF gone
<1>9. /\ lost' \in [Reasons -> SUBSET Payload] /\ GivenUp' = GivenUp \cup gone
      /\ lost'["torn"] = lost["torn"]
  <2>1. "crash" \in Reasons /\ "crash" # "torn" BY DEF Reasons
  <2> QED BY <1>1, <1>8, <2>1, LostGrows DEF IInv, TypeOK
<1>10. Queued' = {} /\ InFlight' = {} BY <1>1, <1>7 DEF Queued, InFlight
<1>11. TypeOK'
  <2>1. count' \in Nat BY <1>2, <1>3, <1>7 DEF ReadLines
  <2>2. ~has_store' => file' = <<>> BY <1>1, <1>3 DEF IInv, TypeOK
  <2>3. /\ queue' \in Seq(Payload) /\ Len(queue') <= QueueMax /\ dropped' \in Nat
        BY <1>1, <1>4, <1>7
  <2>4. /\ payload' \in [Workers -> Nat] /\ lines' \in [Workers -> Seq(Nat)]
        /\ cursor' \in [Workers -> Nat] /\ delivered_count' \in [Workers -> Nat]
        BY <1>1, <1>7 DEF None
  <2>5. /\ has_store' \in Spilling /\ next' \in 0..MaxPayloads
        /\ received' \subseteq Payload /\ unconfirmed' \subseteq Payload
        /\ duplicates' \subseteq Payload
        BY <1>1 DEF IInv, TypeOK
  <2> QED BY <1>3, <1>4, <1>6, <1>9, <2>1, <2>2, <2>3, <2>4, <2>5 DEF TypeOK
<1>12. WorkersOK' BY <1>1, <1>6 DEF WorkersOK, Busy, Storing, Reading
<1>13. Numbered'
  <2>1. Entries(file') \subseteq 1..next /\ received \subseteq 1..next
        BY <1>3 DEF IInv, Numbered
  <2>2. Entries(file') \cup InFlight' \cup Queued' \cup received' \subseteq 1..next'
        BY <1>1, <1>10, <2>1
  <2>3. Ascending(queue') BY <1>1, <1>7 DEF Ascending
  <2>4. Before(Entries(file'), InFlight' \cup Queued') /\ Before(InFlight', Queued')
        BY <1>10 DEF Before
  <2>5. \A w, u \in Workers : payload'[w] = payload'[u] /\ payload'[w] # None => w = u
        BY <1>1
  <2> QED BY <1>3, <2>2, <2>3, <2>4, <2>5 DEF Numbered, Entries, Ascending
<1>14. Replaying' BY <1>6 DEF Replaying, Reading
<1>15. Fresh' BY <1>1, <1>4 DEF Fresh
<1>16. Counted'
  <2>1. ~ReadFaults => count' = Len(file') BY <1>2 DEF ReadLines
  <2>2. ~ReadFaults => BacklogBounded' BY <1>1, <1>3, <1>4 DEF IInv, Counted, BacklogBounded
  <2>3. IsFiniteSet(lost["torn"]) /\ Cardinality(lost["torn"]) \in Nat
        BY FS_CardinalityType DEF IInv, Counted
  <2>4. Cardinality(lost["torn"]) <= 2 * faults BY <1>4, <2>3 DEF IInv, Counted
  <2>5. Cardinality(lost["torn"]) + (IF torn' THEN 2 ELSE 0) <= 2 * faults'
        BY <1>1, <1>4, <2>3, <2>4
  <2> QED BY <1>3, <1>9, <2>1, <2>2, <2>3, <2>5 DEF Counted
<1>17. Kept' BY <1>1, <1>9, <1>10 DEF IInv, Kept, NoSilentLoss, gone
<1> QED BY <1>11, <1>12, <1>13, <1>14, <1>15, <1>16, <1>17 DEF IInv

-----------------------------------------------------------------------------
LEMMA NextIInv == IInv /\ [Next]_vars => IInv'
<1> SUFFICES ASSUME IInv, [Next]_vars PROVE IInv' OBVIOUS
<1>1. CASE Submit BY <1>1, SubmitStep
<1>2. ASSUME NEW w \in Workers, Worker(w) PROVE IInv'
  <2>1. CASE Get(w) BY <2>1, GetStep
  <2>2. CASE PublishLive(w) BY <2>2, LiveSteps
  <2>3. CASE PublishFailed(w) BY <2>3, LiveSteps
  <2>4. CASE Spill(w) BY <2>4, SpillStep
  <2>5. CASE SpillFails(w) BY <2>5, SpillFailsStep
  <2>6. CASE Peek(w) BY <2>6, PeekStep
  <2>7. CASE ReplayItem(w) BY <2>7, ReplayItemStep
  <2>8. CASE ReplayEnd(w) BY <2>8, ReplayEndStep
  <2>9. CASE Discard(w) BY <2>9, DiscardStep
  <2>10. CASE DiscardFails(w) BY <2>10, DiscardFailsStep
  <2> QED BY <1>2, <2>1, <2>2, <2>3, <2>4, <2>5, <2>6, <2>7, <2>8, <2>9, <2>10 DEF Worker
<1>3. CASE Restart BY <1>3, RestartStep
<1>4. CASE UNCHANGED vars
  <2>1. UNCHANGED <<has_store, next, queue, dropped, pc, payload, lines, cursor, delivered_count,
                    file, torn, count, faults, received, unconfirmed, duplicates, lost>>
        BY <1>4 DEF vars
  <2>2. TypeOK' /\ WorkersOK' BY <2>1 DEF IInv, TypeOK, WorkersOK
  <2>3. Queued' = Queued /\ InFlight' = InFlight /\ Entries(file') = Entries(file) /\ GivenUp' = GivenUp
        BY <2>1 DEF Queued, InFlight, GivenUp
  <2>4. Numbered' BY <2>1, <2>3 DEF IInv, Numbered, Entries, Ascending
  <2>5. Replaying' BY <2>1, ReplayStill
  <2>6. Fresh' BY <2>1, <2>3 DEF IInv, Fresh
  <2>7. Counted' BY <2>1, DiskStill
  <2>8. Kept' BY <2>1, <2>3 DEF IInv, Kept, NoSilentLoss
  <2> QED BY <2>2, <2>4, <2>5, <2>6, <2>7, <2>8 DEF IInv
<1> QED BY <1>1, <1>2, <1>3, <1>4 DEF Next

LEMMA Inductive == Spec => []IInv
BY InitIInv, NextIInv, PTL DEF Spec

\* The queue never exceeds its maxsize and every variable has the type the code gives it,
\* through spills, replays, disk errors and restarts (BackgroundPublisher).
THEOREM PublisherTypes == Spec => []TypeOK
<1>1. IInv => TypeOK BY DEF IInv
<1> QED BY <1>1, Inductive, PTL

\* While the spill file can be read, no payload handed to submit disappears without a
\* reason the code knows, however often the disk fails or the process restarts
\* (discard_batch, append, _compact_locked).
THEOREM NothingLost == ASSUME ~ReadFaults PROVE Spec => []NoSilentLoss
<1>1. IInv => NoSilentLoss BY DEF IInv, Kept
<1> QED BY <1>1, Inductive, PTL

\* Without faults the backend accepts a payload twice only when the engine could not
\* know of the first time (_drain_spill_backlog).
THEOREM NoDuplicates == Spec => []NoDuplicateDelivery
<1>1. IInv => NoDuplicateDelivery BY DEF IInv, Fresh, NoDuplicateDelivery
<1> QED BY <1>1, Inductive, PTL

\* While the spill file can be read, the backlog stays in order, within its limit and
\* visible to is_empty, and a torn line costs at most two payloads (DiskSpillStore).
THEOREM BacklogKept == ASSUME ~ReadFaults PROVE Spec => []BacklogSound
<1>1. ASSUME IInv PROVE BacklogSound
  <2>1. BacklogInOrder
    <3>1. \A i \in DOMAIN queue : queue[i] # Corrupt
      <4>1. queue \in Seq(Payload) BY <1>1 DEF IInv, TypeOK
      <4>2. DOMAIN queue = 1..Len(queue) BY <4>1, LenProperties
      <4> QED BY <4>1, <4>2, ElementOfSeq DEF Payload, Corrupt
    <3> QED BY <1>1, <3>1 DEF IInv, Numbered, Ascending, Before, BacklogInOrder
  <2>2. BacklogBounded BY <1>1 DEF IInv, Counted
  <2>3. BacklogVisible
    <3> SUFFICES ASSUME \A w \in Workers : pc[w] # "dead", Entries(file) # {} PROVE count > 0
        BY DEF BacklogVisible
    <3>1. Len(file) <= count BY <1>1 DEF IInv, Counted
    <3>2. file \in Seq(Nat) /\ count \in Nat BY <1>1 DEF IInv, TypeOK
    <3>3. Len(file) \in Nat /\ DOMAIN file = 1..Len(file) BY <3>2, LenProperties
    <3>4. DOMAIN file # {} BY DEF Entries
    <3>5. Len(file) # 0 BY <3>3, <3>4
    <3> QED BY <3>1, <3>2, <3>3, <3>5
  <2>4. TornLineBounded
    <3>1. Cardinality(lost["torn"]) \in Nat BY <1>1, FS_CardinalityType DEF IInv, Counted
    <3>2. faults \in Nat BY <1>1 DEF IInv, TypeOK
    <3> QED BY <1>1, <3>1, <3>2 DEF IInv, Counted, TornLineBounded
  <2> QED BY <2>1, <2>2, <2>3, <2>4 DEF BacklogSound
<1> QED BY <1>1, Inductive, PTL

\* Only a compaction trims.
LEMMA OthersTrimNothing ==
    ASSUME IInv, [Next]_vars, \A w \in Workers : ~(Spill(w) /\ SpillCompact(w))
    PROVE  lost'["trim"] = lost["trim"]
<1>1. ASSUME NEW r \in Reasons, r # "trim", NEW ps, GiveUp(r, ps) PROVE lost'["trim"] = lost["trim"]
  <2>1. "trim" \in Reasons /\ lost \in [Reasons -> SUBSET Payload] BY DEF Reasons, IInv, TypeOK
  <2> QED BY <1>1, <2>1 DEF GiveUp
<1>2. {"full", "undelivered", "torn", "disk", "crash"} \subseteq Reasons \ {"trim"} BY DEF Reasons
<1>3. CASE Submit BY <1>1, <1>2, <1>3 DEF Submit, SubmitQueued, SubmitFull
<1>4. ASSUME NEW w \in Workers, Worker(w) PROVE lost'["trim"] = lost["trim"]
  <2>1. CASE Spill(w) BY <1>1, <1>2, <2>1 DEF Spill, SpillKept
  <2>2. CASE SpillFails(w) BY <1>1, <1>2, <2>2 DEF SpillFails
  <2>3. CASE PublishFailed(w) BY <1>1, <1>2, <2>3 DEF PublishFailed
  <2>4. CASE ~(Spill(w) \/ SpillFails(w) \/ PublishFailed(w))
        BY <1>4, <2>4 DEF Worker, Get, PublishLive, Peek, ReplayItem, ReplayEnd, Discard, DiscardFails
  <2> QED BY <2>1, <2>2, <2>3, <2>4
<1>5. CASE Restart BY <1>1, <1>2, <1>5 DEF Restart
<1>6. CASE UNCHANGED vars BY <1>6 DEF vars
<1> QED BY <1>3, <1>4, <1>5, <1>6 DEF Next

LEMMA TrimStep ==
    ASSUME IInv, [Next]_vars
    PROVE  \A p \in lost'["trim"] \ lost["trim"] : \A q \in Entries(file') : p < q
<1>1. CASE \A w \in Workers : ~(Spill(w) /\ SpillCompact(w)) BY <1>1, OthersTrimNothing
<1>2. ASSUME NEW w \in Workers, Spill(w), SpillCompact(w)
      PROVE  \A p \in lost'["trim"] \ lost["trim"] : \A q \in Entries(file') : p < q
  <2> DEFINE written == Written(payload[w])
  <2>1. PICK read \in ReadLines(written) :
           /\ file' = Newest(read)
           /\ lost' = [lost EXCEPT !["torn"] = @ \cup Joined(payload[w]),
                                   !["trim"] = @ \cup (Entries(read) \ Entries(Newest(read)))]
        BY <1>2 DEF SpillCompact
  <2>2. lost'["trim"] = lost["trim"] \cup (Entries(read) \ Entries(file'))
        BY <2>1 DEF Reasons, IInv, TypeOK
  <2>3. payload[w] \in Payload /\ payload[w] \in InFlight
        BY <1>2, LivePayload DEF Spill, Busy
  <2>4. Ascending(file) /\ Before(Entries(file), {payload[w]}) /\ (torn => file # <<>>)
        BY <2>3 DEF IInv, Numbered, Before, Counted
  <2>5. written \in Seq(Nat) /\ Ascending(written)
        BY <2>3, <2>4, WrittenLines DEF IInv, TypeOK
  <2>6. read \in Seq(Nat) /\ Ascending(read)
    <3>1. <<>> \in Seq(Nat) /\ Ascending(<<>>) BY EmptySeq DEF Ascending
    <3> QED BY <2>1, <2>5, <3>1 DEF ReadLines
  <2>7. Before(Entries(read) \ Entries(file'), Entries(file')) BY <2>1, <2>6, NewestLines
  <2> QED BY <2>2, <2>7 DEF Before
<1> QED BY <1>1, <1>2

LEMMA DiscardsStep ==
    ASSUME ~ReadFaults, IInv, [Next]_vars, NEW w \in Workers, pc[w] = "discard", pc'[w] = "get"
    PROVE  Entries(file) \ Entries(file') \subseteq
              {lines[w][i] : i \in 1..cursor[w]} \cap (received \ {Corrupt})
<1>1. \A u \in Workers \ {w} : pc[u] = "off" BY Alone DEF Storing, Reading
<1>2. CASE Discard(w)
  <2>1. /\ Entries(file) \subseteq Entries(file') \cup {file[i] : i \in 1..cursor[w]}
        /\ \A i \in 1..cursor[w] : file[i] # Corrupt => file[i] \in received
        /\ cursor[w] # 0 => lines[w] = file
        BY <1>2, Discarded
  <2>2. SUFFICES ASSUME NEW p \in Entries(file) \ Entries(file')
                 PROVE  p \in {lines[w][i] : i \in 1..cursor[w]} \cap (received \ {Corrupt})
        OBVIOUS
  <2>3. PICK i \in 1..cursor[w] : p = file[i] BY <2>1, <2>2
  <2>4. cursor[w] # 0 BY <2>3 DEF IInv, TypeOK
  <2>5. p # Corrupt BY <2>2 DEF Entries
  <2> QED BY <2>1, <2>3, <2>4, <2>5
<1>3. CASE file' = file BY <1>3
<1>4. Discard(w) \/ file' = file
  <2>1. CASE Submit BY <2>1 DEF Submit, diskVars
  <2>2. ASSUME NEW u \in Workers, Worker(u) PROVE Discard(w) \/ file' = file
    <3>1. u = w BY <1>1, <2>2 DEF Worker, Get, PublishLive, PublishFailed, Spill, SpillFails,
             Peek, ReplayItem, ReplayEnd, Discard, DiscardFails
    <3> QED BY <2>2, <3>1 DEF Worker, Get, PublishLive, PublishFailed, Spill, SpillFails,
             Peek, ReplayItem, ReplayEnd, DiscardFails, diskVars
  <2>3. CASE Restart BY <1>1, <2>3 DEF Restart, CrashDisk
  <2>4. CASE UNCHANGED vars BY <2>4 DEF vars
  <2> QED BY <2>1, <2>2, <2>3, <2>4 DEF Next
<1> QED BY <1>2, <1>3, <1>4

\* While the spill file can be read, a discard removes only what was delivered, and a
\* compaction the oldest lines first (_drain_spill_backlog, _compact_locked).
THEOREM OnlySoundRemovals == ASSUME ~ReadFaults PROVE Spec => RemovalsSound
<1>1. IInv /\ [Next]_vars => [\A w \in Workers : pc[w] = "discard" /\ pc'[w] = "get" =>
          Entries(file) \ Entries(file') \subseteq
             {lines[w][i] : i \in 1..cursor[w]} \cap (received \ {Corrupt})]_vars
      BY DiscardsStep
<1>2. Spec => DiscardsOnlyDelivered BY <1>1, Inductive, PTL DEF Spec, DiscardsOnlyDelivered
<1>3. IInv /\ [Next]_vars =>
         [\A p \in lost'["trim"] \ lost["trim"] : \A q \in Entries(file') : p < q]_vars
      BY TrimStep
<1>4. Spec => TrimsOldestFirst BY <1>3, Inductive, PTL DEF Spec, TrimsOldestFirst
<1> QED BY <1>2, <1>4 DEF RemovalsSound
=============================================================================
