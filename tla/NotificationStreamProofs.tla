----------------------- MODULE NotificationStreamProofs -----------------------
(***************************************************************************)
(* Proofs about NotificationStream: the numbers of a recipient have no     *)
(* holes, the stream is in order and skips nothing, and pages are complete. *)
(***************************************************************************)
EXTENDS NotificationStream, FiniteSetTheorems, WellFoundedInduction, SequenceTheorems, TLAPS

-----------------------------------------------------------------------------
(* The inductive invariants.                                               *)

\* One transaction at a time has drawn a number, the highest; the numbers
\* below it are visible and no others are.
Numbered ==
  /\ \A c, d \in Creators : creating[c] # 0 /\ creating[d] # 0 => c = d
  /\ \A c \in Creators : creating[c] # 0 => creating[c] = counter
  /\ Visible = 1..(IF Unlocked THEN counter ELSE counter - 1)

TypeInv == TypeOK /\ Numbered

Elements(s) == {s[i] : i \in 1..Len(s)}
Increasing(s) == \A i, j \in 1..Len(s) : i < j => s[i] < s[j]
Descending(s) == \A i, j \in 1..Len(s) : i < j => s[i] > s[j]

\* The cursors and what is under way are numbers of visible notifications.
Known ==
  /\ client.last \in Visible \union {0}
  /\ Elements(wire) \subseteq Visible
  /\ stream.open =>
       /\ stream.sequence \in Visible \union {0}
       /\ Elements(stream.batch) \subseteq Visible
       /\ ~stream.has => stream.sequence = 0 /\ stream.unreadOnly

\* What was received lies before the wire, the wire before the batch.
Ordered ==
  /\ Increasing(wire)
  /\ \A n \in Elements(wire) : client.last < n
  /\ stream.open =>
       /\ client.last <= stream.sequence
       /\ \A n \in Elements(wire) : n <= stream.sequence
       /\ Increasing(stream.batch)
       /\ \A n \in Elements(stream.batch) : stream.sequence < n

\* What a cursor has passed was received, is under way, or was read.
Passed(n) ==
  \/ n <= client.last
  \/ \E m \in Elements(wire) : n <= m
  \/ stream.open /\ (n <= stream.sequence \/ \E m \in Elements(stream.batch) : n <= m)
Covered(n) ==
  \/ n \in client.received \/ row[n] = "read"
  \/ n \in Elements(wire)
  \/ stream.open /\ n \in Elements(stream.batch)
NoGap == \A n \in Visible : Passed(n) => Covered(n)

StreamInv == TypeInv /\ Known /\ Ordered /\ NoGap

\* The pages so far show, in order, all that was there at the first one, down
\* to the cursor.
PagerInv ==
  /\ TypeInv
  /\ pager.from \subseteq Visible
  /\ \A n \in Visible, m \in pager.from : n < m => n \in pager.from
  /\ pager.phase = "idle" => pager.seen = <<>> /\ pager.cursor = 0
  /\ pager.phase = "paging" => pager.cursor \in pager.from
  /\ pager.phase = "done" => pager.cursor = 0
  /\ Descending(pager.seen)
  /\ pager.phase # "idle" => Elements(pager.seen) = {n \in pager.from : pager.cursor <= n}

-----------------------------------------------------------------------------
(* The elements of a sequence and their order. *)

LEMMA ElementsEmpty == Elements(<<>>) = {} /\ Increasing(<<>>) /\ Descending(<<>>)
  BY DEF Elements, Increasing, Descending

LEMMA SubsetSeq ==
  ASSUME NEW T, NEW U, T \subseteq U, NEW s \in Seq(T)
  PROVE  s \in Seq(U)
  OBVIOUS

LEMMA ElementsAre ==
  ASSUME NEW T, NEW s \in Seq(T)
  PROVE  Elements(s) \subseteq T
  BY DEF Elements

LEMMA ElementsHead ==
  ASSUME NEW s \in Seq(Nat), s # <<>>
  PROVE  /\ Elements(s) = {Head(s)} \union Elements(Tail(s))
         /\ Increasing(s) => /\ Increasing(Tail(s))
                             /\ \A n \in Elements(Tail(s)) : Head(s) < n
  <1>1. /\ Len(s) \in Nat \ {0} /\ Head(s) = s[1] /\ Len(Tail(s)) = Len(s) - 1
        /\ \A i \in 1..(Len(s) - 1) : Tail(s)[i] = s[i + 1]
    OBVIOUS
  <1> DEFINE h == Head(s)
             t == Tail(s)
             k == Len(s)
  <1> HIDE DEF h, t, k
  <1>2. k \in Nat \ {0} /\ h = s[1] /\ Len(t) = k - 1 /\ \A i \in 1..(k - 1) : t[i] = s[i + 1]
    BY <1>1 DEF h, t, k
  <1>3. ASSUME NEW i \in 1..k PROVE s[i] \in {h} \union {t[j] : j \in 1..(k - 1)}
    <2>1. CASE i = 1
      BY <1>2, <2>1
    <2>2. CASE i # 1
      <3>1. i - 1 \in 1..(k - 1) /\ t[i - 1] = s[i]
        BY <1>2, <2>2
      <3>2. QED
        BY <3>1
    <2>3. QED
      BY <2>1, <2>2
  <1>4. h \in {s[i] : i \in 1..k} /\ \A j \in 1..(k - 1) : t[j] \in {s[i] : i \in 1..k}
    <2>1. 1 \in 1..k /\ \A j \in 1..(k - 1) : j + 1 \in 1..k
      BY <1>2
    <2>2. QED
      BY <1>2, <2>1
  <1>5. {s[i] : i \in 1..k} = {h} \union {t[j] : j \in 1..(k - 1)}
    BY <1>3, <1>4
  <1>6. ASSUME Increasing(s), NEW i \in 1..(k - 1) PROVE h < t[i]
    BY <1>2, <1>6 DEF Increasing, k
  <1>7. ASSUME Increasing(s), NEW i \in 1..(k - 1), NEW j \in 1..(k - 1), i < j
        PROVE  t[i] < t[j]
    <2>1. i + 1 \in 1..k /\ j + 1 \in 1..k /\ i + 1 < j + 1
      BY <1>2, <1>7
    <2>2. QED
      BY <1>2, <1>7, <2>1 DEF Increasing, k
  <1>8. Elements(s) = {h} \union Elements(t)
    BY <1>2, <1>5 DEF Elements, k
  <1>9. Increasing(s) => Increasing(t) /\ \A n \in Elements(t) : h < n
    BY <1>2, <1>6, <1>7 DEF Elements, Increasing
  <1> QED
    BY <1>8, <1>9 DEF h, t

LEMMA ElementsConcat ==
  ASSUME NEW s \in Seq(Nat), NEW t \in Seq(Nat)
  PROVE  /\ Elements(s \o t) = Elements(s) \union Elements(t)
         /\ /\ Increasing(s) /\ Increasing(t)
            /\ \A m \in Elements(s), n \in Elements(t) : m < n
            => Increasing(s \o t)
         /\ /\ Descending(s) /\ Descending(t)
            /\ \A m \in Elements(s), n \in Elements(t) : m > n
            => Descending(s \o t)
  <1> DEFINE u == s \o t
             k == Len(s)
             l == Len(t)
  <1>1. /\ k \in Nat /\ l \in Nat /\ Len(u) = k + l
        /\ \A i \in 1..(k + l) : u[i] = IF i <= k THEN s[i] ELSE t[i - k]
    OBVIOUS
  <1> HIDE DEF u, k, l
  <1>2. /\ \A i \in 1..k : i \in 1..(k + l) /\ u[i] = s[i]
        /\ \A i \in 1..l : i + k \in 1..(k + l) /\ u[i + k] = t[i]
    <2>1. ASSUME NEW i \in 1..l PROVE i + k \in 1..(k + l) /\ u[i + k] = t[i]
      <3>1. i + k \in 1..(k + l) /\ ~(i + k <= k) /\ (i + k) - k = i
        BY <1>1
      <3>2. QED
        BY <1>1, <3>1
    <2>2. QED
      BY <1>1, <2>1
  <1>3. ASSUME NEW i \in 1..(k + l)
        PROVE  \/ i \in 1..k /\ u[i] = s[i]
               \/ i > k /\ i - k \in 1..l /\ u[i] = t[i - k]
    BY <1>1
  <1>4. Elements(u) = Elements(s) \union Elements(t)
    <2>1. {u[i] : i \in 1..(k + l)} \subseteq {s[i] : i \in 1..k} \union {t[i] : i \in 1..l}
      BY <1>3
    <2>2. {s[i] : i \in 1..k} \union {t[i] : i \in 1..l} \subseteq {u[i] : i \in 1..(k + l)}
      BY <1>2
    <2>3. QED
      BY <1>1, <2>1, <2>2 DEF Elements, k, l
  <1>5. ASSUME NEW i \in 1..(k + l), NEW j \in 1..(k + l), i < j
        PROVE  \/ i \in 1..k /\ j \in 1..k /\ u[i] = s[i] /\ u[j] = s[j]
               \/ u[i] \in Elements(s) /\ u[j] \in Elements(t)
               \/ /\ i - k \in 1..l /\ j - k \in 1..l /\ i - k < j - k
                  /\ u[i] = t[i - k] /\ u[j] = t[j - k]
    <2>1. CASE i \in 1..k /\ j \in 1..k
      BY <1>2, <2>1
    <2>2. CASE i \in 1..k /\ j > k
      BY <1>2, <1>3, <2>2, <1>1 DEF Elements, k, l
    <2>3. CASE i > k
      <3>1. j > k
        BY <1>1, <1>5, <2>3
      <3>2. i \notin 1..k /\ j \notin 1..k
        BY <1>1, <2>3, <3>1
      <3>3. QED
        BY <1>1, <1>3, <1>5, <3>2
    <2>4. QED
      BY <1>1, <1>5, <2>1, <2>2, <2>3
  <1>6. ASSUME Increasing(s), Increasing(t), \A m \in Elements(s), n \in Elements(t) : m < n
        PROVE  Increasing(u)
    BY <1>1, <1>5, <1>6, Zenon DEF Increasing, k, l
  <1>7. ASSUME Descending(s), Descending(t), \A m \in Elements(s), n \in Elements(t) : m > n
        PROVE  Descending(u)
    BY <1>1, <1>5, <1>7, Zenon DEF Descending, k, l
  <1>8. QED
    BY <1>4, <1>6, <1>7 DEF u

LEMMA ElementsAppend ==
  ASSUME NEW s \in Seq(Nat), NEW n \in Nat
  PROVE  /\ Elements(Append(s, n)) = Elements(s) \union {n}
         /\ Increasing(s) /\ (\A m \in Elements(s) : m < n) => Increasing(Append(s, n))
  <1>1. Append(s, n) = s \o <<n>> /\ <<n>> \in Seq(Nat) /\ Len(<<n>>) = 1 /\ <<n>>[1] = n
    OBVIOUS
  <1>2. Elements(<<n>>) = {n} /\ Increasing(<<n>>)
    BY DEF Elements, Increasing
  <1>3. QED
    BY <1>1, <1>2, ElementsConcat

-----------------------------------------------------------------------------
(* What ORDER BY and LIMIT leave of a set of numbers. *)

LEMMA LeastNumber ==
  ASSUME NEW S, S \subseteq Nat, S # {}
  PROVE  \E x \in S : \A y \in S : x <= y
  <1>1. \A x, y \in Nat : x < y => <<x, y>> \in OpToRel(<, Nat)
    BY Zenon DEF OpToRel
  <1>2. PICK x \in S : \A y \in S : <<y, x>> \notin OpToRel(<, Nat)
    BY NatLessThanWellFounded, WFMin, Zenon
  <1>3. \A y \in S : ~(y < x)
    BY <1>1, <1>2, Zenon
  <1> QED
    BY <1>3

Listing(S, s) ==
  s \in [1..Cardinality(S) -> S] /\ \A i, j \in 1..Cardinality(S) : i < j => s[i] < s[j]

\* One more number, above all others, goes to the end.
LEMMA ListingExtends ==
  ASSUME NEW n \in Nat, NEW T, T \subseteq 1..n, NEW t, Listing(T, t)
  PROVE  \E s : Listing(T \union {n + 1}, s)
  <1> DEFINE k == Cardinality(T)
             S == T \union {n + 1}
             s == [i \in 1..(k + 1) |-> IF i = k + 1 THEN n + 1 ELSE t[i]]
  <1>1. IsFiniteSet(T) /\ k \in Nat
    <2>1. IsFiniteSet(1..n)
      BY FS_Interval
    <2>2. IsFiniteSet(T)
      BY <2>1, FS_Subset
    <2>3. QED
      BY <2>2, FS_CardinalityType
  <1>2. Cardinality(S) = k + 1
    BY <1>1, FS_AddElement
  <1>3. \A i \in 1..k : t[i] \in T
    BY DEF Listing
  <1>4. s \in [1..(k + 1) -> S]
    BY <1>1, <1>3
  <1>5. ASSUME NEW i \in 1..(k + 1), NEW j \in 1..(k + 1), i < j PROVE s[i] < s[j]
    <2>1. i \in 1..k /\ s[i] = t[i]
      BY <1>1, <1>5
    <2>a. t[i] \in 1..n
      BY <1>3, <2>1
    <2>2. CASE j = k + 1
      BY <1>1, <2>1, <2>a, <2>2
    <2>3. CASE j # k + 1
      <3>1. j \in 1..k /\ s[j] = t[j]
        BY <1>1, <2>3
      <3>2. t[i] < t[j]
        BY <1>5, <2>1, <3>1 DEF Listing
      <3>3. QED
        BY <2>1, <3>1, <3>2
    <2>4. QED
      BY <2>2, <2>3
  <1> HIDE DEF s
  <1>6. QED
    BY <1>2, <1>4, <1>5 DEF Listing

LEMMA ListingExists ==
  ASSUME NEW n \in Nat, NEW S, S \subseteq 1..n
  PROVE  \E s : Listing(S, s)
  <1> DEFINE Bad == {m \in Nat : \E T \in SUBSET (1..m) : \A s : ~Listing(T, s)}
  <1>1. SUFFICES Bad = {}
    BY Zenon
  <1>2. SUFFICES ASSUME Bad # {} PROVE FALSE
    OBVIOUS
  <1>3. PICK m \in Bad : \A y \in Bad : m <= y
    BY <1>2, LeastNumber, Zenon
  <1>4. m \in Nat
    OBVIOUS
  <1>5. PICK T \in SUBSET (1..m) : \A s : ~Listing(T, s)
    BY <1>3
  <1>6. CASE m = 0
    <2>1. T = {}
      BY <1>6
    <2>2. Cardinality(T) = 0
      BY <2>1, FS_EmptySet
    <2>3. Listing(T, [i \in 1..0 |-> 0])
      BY <2>1, <2>2 DEF Listing
    <2>4. QED
      BY <1>5, <2>3
  <1>7. CASE m # 0
    <2> DEFINE U == T \ {m}
    <2>1. m - 1 \in Nat /\ U \in SUBSET (1..(m - 1))
      BY <1>4, <1>7
    <2>2. PICK u : Listing(U, u)
      <3>1. m - 1 \notin Bad
        BY <1>3, <1>4, <2>1
      <3>2. QED
        BY <2>1, <3>1
    <2>3. T = U \/ T = U \union {(m - 1) + 1}
      BY <1>4
    <2> HIDE DEF U
    <2>4. \E s : Listing(T, s)
      BY <2>1, <2>2, <2>3, ListingExtends
    <2>5. QED
      BY <1>5, <2>4
  <1>8. QED
    BY <1>6, <1>7

LEMMA AscendingIs ==
  ASSUME NEW S, S \subseteq Numbers
  PROVE  /\ IsFiniteSet(S) /\ Cardinality(S) \in Nat
         /\ Ascending(S) \in [1..Cardinality(S) -> S]
         /\ \A i, j \in 1..Cardinality(S) : i < j => Ascending(S)[i] < Ascending(S)[j]
         /\ \A n \in S : \E i \in 1..Cardinality(S) : n = Ascending(S)[i]
  <1> DEFINE k == Cardinality(S)
             a == Ascending(S)
  <1>1. IsFiniteSet(S) /\ k \in Nat
    <2>1. IsFiniteSet(Numbers)
      BY FS_Interval, StreamAssumption DEF Numbers
    <2>2. IsFiniteSet(S)
      BY <2>1, FS_Subset
    <2>3. QED
      BY <2>2, FS_CardinalityType
  <1>2. \E s \in [1..k -> S] : \A i, j \in 1..k : i < j => s[i] < s[j]
    BY ListingExists, StreamAssumption DEF Numbers, Listing
  <1>3. a \in [1..k -> S] /\ \A i, j \in 1..k : i < j => a[i] < a[j]
    BY <1>2 DEF Ascending
  <1> HIDE DEF a
  <1>4. a \in Injection(1..k, S)
    <2>0. \A n \in S : n \in Nat
      BY StreamAssumption DEF Numbers
    <2>1. \A i \in 1..k : a[i] \in Nat
      BY <1>3, <2>0
    <2>2. ASSUME NEW i \in 1..k, NEW j \in 1..k, a[i] = a[j] PROVE i = j
      <3>1. ~(i < j) /\ ~(j < i)
        BY <1>3, <2>1, <2>2
      <3>2. QED
        BY <1>1, <3>1
    <2>3. \A i, j \in 1..k : a[i] = a[j] => i = j
      BY <2>2
    <2>4. QED
      BY <1>3, <2>3 DEF Injection, IsInjective
  <1>5. Cardinality(1..k) = k
    BY <1>1, FS_Interval
  <1>6. a \in Surjection(1..k, S)
    BY <1>1, <1>4, <1>5, FS_Injection
  <1>7. QED
    BY <1>1, <1>3, <1>6 DEF Surjection, a

LEMMA LimitIs ==
  ASSUME NEW S, S \subseteq Numbers, NEW k \in Nat
  PROVE  /\ Limit(k, S) \in Nat /\ Limit(k, S) <= Cardinality(S) /\ Limit(k, S) <= k
         /\ Cardinality(S) <= k => Limit(k, S) = Cardinality(S)
         /\ Cardinality(S) > k => Limit(k, S) = k
  BY AscendingIs DEF Limit

LEMMA LowestIs ==
  ASSUME NEW S, S \subseteq Numbers, NEW k \in Nat
  PROVE  /\ Lowest(k, S) \in Seq(S)
         /\ Increasing(Lowest(k, S))
         /\ \A n \in S, m \in Elements(Lowest(k, S)) : n <= m => n \in Elements(Lowest(k, S))
  <1> DEFINE c == Cardinality(S)
             m == Limit(k, S)
             a == Ascending(S)
             b == [i \in 1..m |-> a[i]]
  <1> HIDE DEF a, m, c
  <1>1. /\ c \in Nat /\ m \in Nat /\ m <= c /\ a \in [1..c -> S]
        /\ \A i, j \in 1..c : i < j => a[i] < a[j]
        /\ \A n \in S : \E i \in 1..c : n = a[i]
    BY AscendingIs, LimitIs DEF a, m, c
  <1>0. \A n \in S : n \in Nat
    BY StreamAssumption DEF Numbers
  <1>2. b \in Seq(S) /\ Len(b) = m
    BY <1>1
  <1>3. \A i, j \in 1..m : i < j => b[i] < b[j]
    BY <1>1
  <1>4. ASSUME NEW n \in S, NEW i \in 1..m, n <= b[i] PROVE \E j \in 1..m : n = b[j]
    <2>1. PICK j \in 1..c : n = a[j]
      BY <1>1
    <2>2. n \in Nat /\ a[i] \in Nat
      BY <1>0, <1>1
    <2>3. ~(i < j)
      BY <1>1, <1>4, <2>1, <2>2
    <2>4. j \in 1..m
      BY <1>1, <2>3
    <2>5. QED
      BY <2>1, <2>4
  <1>5. Lowest(k, S) = b
    BY DEF Lowest, a, m
  <1> HIDE DEF b
  <1>6. QED
    BY <1>2, <1>3, <1>4, <1>5 DEF Increasing, Elements

LEMMA HighestIs ==
  ASSUME NEW S, S \subseteq Numbers, NEW k \in Nat
  PROVE  /\ Highest(k, S) \in Seq(S) /\ Len(Highest(k, S)) = Limit(k, S)
         /\ Descending(Highest(k, S))
         /\ \A n \in S, i \in 1..Limit(k, S) :
              Highest(k, S)[i] <= n => \E j \in 1..Limit(k, S) : n = Highest(k, S)[j]
         /\ Cardinality(S) <= k => \A n \in S : \E j \in 1..Limit(k, S) : n = Highest(k, S)[j]
  <1> DEFINE c == Cardinality(S)
             m == Limit(k, S)
             a == Ascending(S)
             b == [i \in 1..m |-> a[c + 1 - i]]
  <1> HIDE DEF a, m, c
  <1>1. /\ c \in Nat /\ m \in Nat /\ m <= c /\ a \in [1..c -> S]
        /\ \A i, j \in 1..c : i < j => a[i] < a[j]
        /\ \A n \in S : \E i \in 1..c : n = a[i]
        /\ c <= k => m = c
    BY AscendingIs, LimitIs DEF a, m, c
  <1>0. /\ \A i \in 1..m : c + 1 - i \in 1..c
        /\ \A n \in S : n \in Nat
    BY <1>1, StreamAssumption DEF Numbers
  <1>2. b \in Seq(S) /\ Len(b) = m
    BY <1>0, <1>1
  <1>3. ASSUME NEW i \in 1..m, NEW j \in 1..m, i < j PROVE b[i] > b[j]
    <2>1. c + 1 - j < c + 1 - i
      BY <1>1, <1>3
    <2>2. a[c + 1 - j] < a[c + 1 - i] /\ a[c + 1 - j] \in S /\ a[c + 1 - i] \in S
      BY <1>0, <1>1, <2>1
    <2>3. QED
      BY <2>2, StreamAssumption DEF Numbers
  <1>4. ASSUME NEW n \in S, NEW i \in 1..m, b[i] <= n PROVE \E j \in 1..m : n = b[j]
    <2>1. PICK j \in 1..c : n = a[j]
      BY <1>1
    <2>2. n \in Nat /\ a[c + 1 - i] \in Nat /\ c + 1 - i \in 1..c
      BY <1>0, <1>1
    <2>3. ~(j < c + 1 - i)
      BY <1>1, <1>4, <2>1, <2>2
    <2>4. c + 1 - j \in 1..m /\ c + 1 - (c + 1 - j) = j
      BY <1>1, <2>3
    <2>5. b[c + 1 - j] = n
      BY <2>1, <2>4
    <2>6. QED
      BY <2>4, <2>5
  <1>5. ASSUME c <= k, NEW n \in S PROVE \E j \in 1..m : n = b[j]
    <2>1. PICK j \in 1..c : n = a[j]
      BY <1>1
    <2>2. c + 1 - j \in 1..m /\ c + 1 - (c + 1 - j) = j
      BY <1>1, <1>5
    <2>3. b[c + 1 - j] = n
      BY <2>1, <2>2
    <2>4. QED
      BY <2>2, <2>3
  <1>6. Highest(k, S) = b
    BY DEF Highest, a, m, c
  <1> HIDE DEF b
  <1>7. QED
    BY <1>2, <1>3, <1>4, <1>5, <1>6 DEF Descending, m, c

-----------------------------------------------------------------------------
(* Types, and numbers without holes. *)

LEMMA TypeInit == Init => TypeInv
  <1> SUFFICES ASSUME Init PROVE TypeInv
    OBVIOUS
  <1>1. /\ active \in BOOLEAN /\ counter \in 0..MaxRows
        /\ row \in [Numbers -> {"none", "unread", "read"}]
        /\ creating \in [Creators -> 0..MaxRows] /\ drops \in 0..MaxDrops
    BY StreamAssumption DEF Init
  <1>2. stream \in {Closed} \union Streams /\ wire \in Seq(Numbers)
    BY DEF Init
  <1>3. /\ client \in [last : 0..MaxRows, received : SUBSET Numbers]
        /\ pager \in [phase : {"idle", "paging", "done"}, cursor : 0..MaxRows,
                      from : SUBSET Numbers, seen : Seq(Numbers)]
    BY StreamAssumption DEF Init
  <1>4. Visible = {} /\ Unlocked
    BY DEF Init, Visible, Unlocked
  <1>5. Numbered
    BY <1>4 DEF Init, Numbered
  <1>6. Visible \union ({creating[c] : c \in Creators} \ {0}) = 1..counter
    BY <1>4 DEF Init
  <1>7. QED
    BY <1>1, <1>2, <1>3, <1>5, <1>6 DEF TypeInv, TypeOK

LEMMA TypeAllocate ==
  ASSUME TypeInv, NEW c \in Creators, Allocate(c)
  PROVE  TypeInv'
  <1>1. /\ counter' = counter + 1 /\ counter + 1 \in 1..MaxRows
        /\ creating' = [creating EXCEPT ![c] = counter + 1] /\ row' = row
        /\ \A d \in Creators : creating[d] = 0
    <2>1. counter \in 0..MaxRows /\ counter < MaxRows /\ MaxRows \in Nat
      BY StreamAssumption DEF Allocate, TypeInv, TypeOK
    <2>2. counter + 1 \in 1..MaxRows
      BY <2>1
    <2>3. QED
      BY <2>2 DEF Allocate, NextSequence, Unlocked
  <1>2. /\ creating'[c] = counter + 1 /\ creating' \in [Creators -> 0..MaxRows]
        /\ \A d \in Creators : d # c => creating'[d] = 0
    BY <1>1, StreamAssumption DEF TypeInv, TypeOK
  <1>3. Visible' = Visible /\ Visible = 1..counter /\ ~Unlocked'
    BY <1>1, <1>2 DEF Visible, TypeInv, Numbered, Unlocked, TypeOK
  <1>4. Numbered'
    BY <1>1, <1>2, <1>3 DEF Numbered, TypeInv, TypeOK
  <1>5. TypeOK'
    <2>1. Visible' \union ({creating'[d] : d \in Creators} \ {0}) = 1..counter'
      <3>1. {creating'[d] : d \in Creators} \ {0} = {counter + 1}
        BY <1>1, <1>2
      <3>2. QED
        BY <1>1, <1>3, <3>1 DEF TypeInv, TypeOK
    <2>2. QED
      BY <1>1, <1>2, <2>1, StreamAssumption DEF Allocate, TypeInv, TypeOK
  <1>6. QED
    BY <1>4, <1>5 DEF TypeInv

\* The transaction that has a number is the only one.
LEMMA OneCreates ==
  ASSUME TypeInv, NEW c \in Creators, creating[c] # 0, creating' = [creating EXCEPT ![c] = 0]
  PROVE  /\ creating[c] = counter /\ counter \in 1..MaxRows /\ Visible = 1..(counter - 1)
         /\ creating' \in [Creators -> 0..MaxRows] /\ \A d \in Creators : creating'[d] = 0
         /\ Unlocked'
  <1>1. creating[c] = counter /\ \A d \in Creators : d # c => creating[d] = 0
    BY DEF TypeInv, Numbered
  <1>2. counter \in 1..MaxRows
    BY <1>1 DEF TypeInv, TypeOK
  <1>3. Visible = 1..(counter - 1)
    BY DEF TypeInv, Numbered, Unlocked
  <1>4. creating' \in [Creators -> 0..MaxRows] /\ \A d \in Creators : creating'[d] = 0
    BY <1>1, StreamAssumption DEF TypeInv, TypeOK
  <1>5. QED
    BY <1>1, <1>2, <1>3, <1>4 DEF Unlocked

LEMMA TypeCommitCreate ==
  ASSUME TypeInv, NEW c \in Creators, CommitCreate(c)
  PROVE  TypeInv' /\ Visible' = Visible \union {counter} /\ counter \notin Visible
  <1>1. /\ creating[c] = counter /\ counter \in 1..MaxRows /\ Visible = 1..(counter - 1)
        /\ creating' \in [Creators -> 0..MaxRows] /\ \A d \in Creators : creating'[d] = 0
        /\ Unlocked'
    BY OneCreates DEF CommitCreate
  <1>2. row' = [row EXCEPT ![counter] = "unread"] /\ counter' = counter
    BY <1>1 DEF CommitCreate, Created
  <1>3. Visible' = Visible \union {counter} /\ counter \notin Visible
    <2>1. counter \in Numbers /\ counter \notin Visible
      BY <1>1, StreamAssumption DEF Numbers
    <2>2. row'[counter] = "unread" /\ \A n \in Numbers : n # counter => row'[n] = row[n]
      BY <1>2, <2>1 DEF TypeInv, TypeOK
    <2>3. QED
      BY <2>1, <2>2 DEF Visible
  <1>4. Visible' = 1..counter
    BY <1>1, <1>3
  <1>5. Numbered'
    BY <1>1, <1>2, <1>4 DEF Numbered
  <1>6. TypeOK'
    <2>1. {creating'[d] : d \in Creators} \ {0} = {}
      BY <1>1
    <2>2. row' \in [Numbers -> {"none", "unread", "read"}]
      BY <1>2 DEF TypeInv, TypeOK
    <2>3. QED
      BY <1>1, <1>2, <1>4, <2>1, <2>2 DEF CommitCreate, TypeInv, TypeOK
  <1>7. QED
    BY <1>3, <1>5, <1>6 DEF TypeInv

LEMMA TypeAbortCreate ==
  ASSUME TypeInv, NEW c \in Creators, AbortCreate(c)
  PROVE  TypeInv'
  <1>1. /\ creating[c] = counter /\ counter \in 1..MaxRows /\ Visible = 1..(counter - 1)
        /\ creating' \in [Creators -> 0..MaxRows] /\ \A d \in Creators : creating'[d] = 0
        /\ Unlocked'
    BY OneCreates DEF AbortCreate
  <1>2. row' = row /\ counter' = counter - 1 /\ Visible' = Visible
    BY <1>1 DEF AbortCreate, Visible
  <1>3. Numbered'
    BY <1>1, <1>2 DEF Numbered
  <1>4. TypeOK'
    <2>1. {creating'[d] : d \in Creators} \ {0} = {}
      BY <1>1
    <2>2. counter' \in 0..MaxRows
      BY <1>1, <1>2, StreamAssumption
    <2>3. QED
      BY <1>1, <1>2, <2>1, <2>2 DEF AbortCreate, TypeInv, TypeOK
  <1>5. QED
    BY <1>3, <1>4 DEF TypeInv

\* Steps that create nothing and only mark what is visible.
LEMMA TypeRest ==
  ASSUME TypeInv, UNCHANGED <<counter, creating>>, Visible' = Visible,
         row' \in [Numbers -> {"none", "unread", "read"}], active' \in BOOLEAN,
         stream' \in {Closed} \union Streams, wire' \in Seq(Numbers),
         client' \in [last : 0..MaxRows, received : SUBSET Numbers],
         pager' \in [phase : {"idle", "paging", "done"}, cursor : 0..MaxRows,
                     from : SUBSET Numbers, seen : Seq(Numbers)],
         drops' \in 0..MaxDrops
  PROVE  TypeInv'
  <1>1. Numbered'
    BY DEF TypeInv, Numbered, Unlocked
  <1>2. TypeOK'
    BY DEF TypeInv, TypeOK
  <1>3. QED
    BY <1>1, <1>2 DEF TypeInv

LEMMA TypeMarkRead ==
  ASSUME TypeInv, NEW n \in Numbers, MarkRead(n)
  PROVE  TypeInv' /\ Visible' = Visible
  <1>1. /\ row' = [row EXCEPT ![n] = "read"] /\ row[n] = "unread"
        /\ row' \in [Numbers -> {"none", "unread", "read"}]
    BY DEF MarkRead, Unread, TypeInv, TypeOK
  <1>2. Visible' = Visible
    BY <1>1 DEF Visible, TypeInv, TypeOK
  <1>3. QED
    BY <1>1, <1>2, TypeRest DEF MarkRead, TypeInv, TypeOK

\* The handler's steps.
LEMMA TypeConnect ==
  ASSUME TypeInv, Connect
  PROVE  TypeInv' /\ Visible' = Visible
  <1>1. Visible' = Visible /\ wire' \in Seq(Numbers)
    BY DEF Connect, Visible
  <1>2. /\ client' \in [last : 0..MaxRows, received : SUBSET Numbers]
        /\ client.last \in 0..MaxRows
    BY StreamAssumption DEF Connect, TypeInv, TypeOK
  <1>3. stream' \in Streams
    <2>1. 0 \in 0..MaxRows /\ <<>> \in Seq(Numbers)
      BY StreamAssumption
    <2>2. [open |-> TRUE, sequence |-> client.last, has |-> TRUE,
           unreadOnly |-> FALSE, batch |-> <<>>] \in Streams
      BY <1>2, <2>1 DEF Streams
    <2>3. [open |-> TRUE, sequence |-> 0, has |-> FALSE,
           unreadOnly |-> TRUE, batch |-> <<>>] \in Streams
      BY <2>1 DEF Streams
    <2>4. QED
      BY <2>2, <2>3, Zenon DEF Connect
  <1>4. QED
    BY <1>1, <1>2, <1>3, TypeRest DEF Connect, TypeInv, TypeOK

LEMMA TypePoll ==
  ASSUME TypeInv, Poll
  PROVE  /\ TypeInv' /\ Visible' = Visible
         /\ Backlog \subseteq Numbers
         /\ stream' = [stream EXCEPT !.batch = Lowest(BatchSize, Backlog)]
         /\ stream \in Streams
  <1>1. Visible' = Visible /\ stream \in Streams /\ Backlog \subseteq Numbers
    BY DEF Poll, Visible, Backlog, TypeInv, TypeOK, Closed
  <1>2. Lowest(BatchSize, Backlog) \in Seq(Numbers)
    <2>1. Lowest(BatchSize, Backlog) \in Seq(Backlog)
      BY <1>1, LowestIs, StreamAssumption
    <2>2. QED
      BY <1>1, <2>1
  <1>3. stream' \in Streams /\ stream' = [stream EXCEPT !.batch = Lowest(BatchSize, Backlog)]
    BY <1>1, <1>2 DEF Poll, Streams
  <1>4. QED
    BY <1>1, <1>3, TypeRest DEF Poll, TypeInv, TypeOK

LEMMA TypeWriteEvent ==
  ASSUME TypeInv, WriteEvent
  PROVE  /\ TypeInv' /\ Visible' = Visible /\ stream \in Streams
         /\ Head(stream.batch) \in Numbers /\ Tail(stream.batch) \in Seq(Numbers)
  <1>1. Visible' = Visible /\ stream \in Streams
    BY DEF WriteEvent, Visible, TypeInv, TypeOK, Closed
  <1>2. stream.batch \in Seq(Numbers) /\ stream.batch # <<>>
    BY <1>1 DEF WriteEvent, Streams
  <1>3. Head(stream.batch) \in Numbers /\ Tail(stream.batch) \in Seq(Numbers)
    BY <1>2
  <1>4. Head(stream.batch) \in 0..MaxRows
    BY <1>3, StreamAssumption DEF Numbers
  <1>5. stream' \in Streams
    BY <1>1, <1>3, <1>4 DEF WriteEvent, Streams
  <1>6. wire' \in Seq(Numbers)
    BY <1>3 DEF WriteEvent, TypeInv, TypeOK
  <1>7. QED
    BY <1>1, <1>3, <1>5, <1>6, TypeRest DEF WriteEvent, TypeInv, TypeOK

LEMMA TypeCloses ==
  ASSUME TypeInv, Close \/ CloseInactive
  PROVE  TypeInv' /\ Visible' = Visible
  <1>1. Visible' = Visible /\ wire' \in Seq(Numbers)
    <2>1. row' = row /\ (wire' = wire \/ wire' = <<>>) /\ wire \in Seq(Numbers)
      BY Zenon DEF Close, CloseInactive, TypeInv, TypeOK
    <2>2. Visible' = Visible
      BY <2>1, Zenon DEF Visible
    <2>3. <<>> \in Seq(Numbers)
      OBVIOUS
    <2>4. QED
      BY <2>1, <2>2, <2>3, Zenon
  <1>2. drops' \in 0..MaxDrops
    BY StreamAssumption DEF Close, CloseInactive, TypeInv, TypeOK
  <1>3. QED
    BY <1>1, <1>2, TypeRest DEF Close, CloseInactive, TypeInv, TypeOK

LEMMA TypeReceive ==
  ASSUME TypeInv, Receive
  PROVE  TypeInv' /\ Visible' = Visible /\ Head(wire) \in Numbers
  <1>1. Visible' = Visible
    BY DEF Receive, Visible
  <1>2. Head(wire) \in Numbers /\ Tail(wire) \in Seq(Numbers)
    BY DEF Receive, TypeInv, TypeOK
  <1>3. Head(wire) \in 0..MaxRows
    BY <1>2, StreamAssumption DEF Numbers
  <1>4. client' \in [last : 0..MaxRows, received : SUBSET Numbers]
    BY <1>2, <1>3 DEF Receive, TypeInv, TypeOK
  <1>5. QED
    BY <1>1, <1>2, <1>4, TypeRest DEF Receive, TypeInv, TypeOK

\* What a page of the rows below the cursor is, and the cursor it leaves.
LEMMA PageIs ==
  ASSUME NEW S, S \subseteq Numbers
  PROVE  /\ NextCursor(S) \in S \union {0}
         /\ \A n \in S : n \in Elements(Highest(PageSize, S)) <=> NextCursor(S) <= n
         /\ Highest(PageSize, S) \in Seq(S) /\ Descending(Highest(PageSize, S))
  <1> DEFINE h == Highest(PageSize, S)
             m == Limit(PageSize, S)
             c == Cardinality(S)
  <1> HIDE DEF h, m, c
  <1>1. /\ h \in Seq(S) /\ Len(h) = m /\ Descending(h)
        /\ \A n \in S, i \in 1..m : h[i] <= n => \E j \in 1..m : n = h[j]
        /\ c <= PageSize => \A n \in S : \E j \in 1..m : n = h[j]
    BY HighestIs, StreamAssumption, Zenon DEF h, m, c
  <1>2. m \in Nat /\ c \in Nat /\ PageSize \in Nat \ {0} /\ (c > PageSize => m = PageSize)
    BY LimitIs, AscendingIs, StreamAssumption DEF m, c
  <1>3. \A n \in S : n \in Nat \ {0}
    BY StreamAssumption DEF Numbers
  <1>4. CASE c > PageSize
    <2>1. m = PageSize /\ m \in 1..m
      BY <1>2, <1>4
    <2>2. NextCursor(S) = h[m] /\ h[m] \in S
      BY <1>1, <1>4, <2>1 DEF NextCursor, h, m, c
    <2>3. ASSUME NEW j \in 1..m PROVE h[m] <= h[j]
      <3>1. h[m] \in Nat /\ h[j] \in Nat
        BY <1>1, <1>3, <2>1
      <3>2. CASE j = m
        BY <3>1, <3>2
      <3>3. CASE j < m
        BY <1>1, <2>1, <3>1, <3>3 DEF Descending
      <3>4. QED
        BY <1>2, <3>2, <3>3
    <2>4. QED
      BY <1>1, <2>1, <2>2, <2>3 DEF h, Elements
  <1>5. CASE ~(c > PageSize)
    <2>1. NextCursor(S) = 0
      BY <1>5 DEF NextCursor, c
    <2>2. c <= PageSize
      BY <1>2, <1>5
    <2>3. QED
      BY <1>1, <1>3, <2>1, <2>2 DEF h, Elements
  <1>6. QED
    BY <1>1, <1>4, <1>5 DEF h

LEMMA TypeGetPage ==
  ASSUME TypeInv, GetPage
  PROVE  /\ TypeInv' /\ Visible' = Visible
         /\ Below \subseteq Numbers /\ Highest(PageSize, Below) \in Seq(Below)
  <1>1. Visible' = Visible /\ Visible \subseteq Numbers /\ Below \subseteq Numbers
    BY DEF GetPage, Visible, Below
  <1>2. Highest(PageSize, Below) \in Seq(Below)
    BY <1>1, HighestIs, StreamAssumption
  <1>3. Highest(PageSize, Below) \in Seq(Numbers)
    BY <1>1, <1>2
  <1>4. NextCursor(Below) \in 0..MaxRows
    <2>1. NextCursor(Below) \in Numbers \union {0}
      BY <1>1, PageIs, Zenon
    <2>2. Numbers \union {0} \subseteq 0..MaxRows
      BY StreamAssumption DEF Numbers
    <2>3. QED
      BY <2>1, <2>2, Zenon
  <1>5. pager' \in [phase : {"idle", "paging", "done"}, cursor : 0..MaxRows,
                     from : SUBSET Numbers, seen : Seq(Numbers)]
    <2>1. pager.seen \o Highest(PageSize, Below) \in Seq(Numbers)
      BY <1>3 DEF TypeInv, TypeOK
    <2>2. (IF pager.phase = "idle" THEN Visible ELSE pager.from) \in SUBSET Numbers
      BY <1>1 DEF TypeInv, TypeOK
    <2>3. QED
      BY <1>4, <2>1, <2>2 DEF GetPage
  <1>6. QED
    BY <1>1, <1>2, <1>5, TypeRest DEF GetPage, TypeInv, TypeOK

LEMMA TypeNext == TypeInv /\ [Next]_vars => TypeInv'
  <1> SUFFICES ASSUME TypeInv, [Next]_vars PROVE TypeInv'
    OBVIOUS
  <1>1. ASSUME NEW c \in Creators, Allocate(c) \/ CommitCreate(c) \/ AbortCreate(c)
        PROVE  TypeInv'
    BY <1>1, TypeAllocate, TypeCommitCreate, TypeAbortCreate
  <1>2. ASSUME NEW n \in Numbers, MarkRead(n) PROVE TypeInv'
    BY <1>2, TypeMarkRead
  <1>3. CASE Deactivate
    <2>1. Visible' = Visible
      BY <1>3 DEF Deactivate, Visible
    <2>2. QED
      BY <1>3, <2>1, TypeRest DEF Deactivate, TypeInv, TypeOK
  <1>4. CASE Connect \/ Poll \/ WriteEvent \/ Close \/ CloseInactive \/ Receive \/ GetPage
    BY <1>4, TypeConnect, TypePoll, TypeWriteEvent, TypeCloses, TypeReceive, TypeGetPage
  <1>5. CASE UNCHANGED vars
    <2>1. Visible' = Visible
      BY <1>5 DEF vars, Visible
    <2>2. QED
      BY <1>5, <2>1, TypeRest DEF vars, TypeInv, TypeOK
  <1>6. QED
    BY <1>1, <1>2, <1>3, <1>4, <1>5 DEF Next

(* Every value is of its type, and the numbers that have been given out are
   1 to the counter: an aborted create leaves no hole (notification/service.go
   Create, the counter row locked to the end of the transaction). *)
THEOREM TypeCorrect == Spec => []TypeOK
  <1>1. TypeInv => TypeOK
    BY DEF TypeInv
  <1>2. QED
    BY <1>1, TypeInit, TypeNext, PTL DEF Spec

-----------------------------------------------------------------------------
(* The stream. *)

\* What the provers need to know of the numbers at hand.
LEMMA StreamTypes ==
  ASSUME TypeInv
  PROVE  /\ Visible \subseteq Numbers /\ \A n \in Numbers : n \in Nat \ {0}
         /\ client.last \in Nat /\ wire \in Seq(Numbers) /\ wire \in Seq(Nat)
         /\ Elements(wire) \subseteq Nat
         /\ stream.open => /\ stream \in Streams /\ stream.sequence \in Nat
                           /\ stream.batch \in Seq(Nat) /\ Elements(stream.batch) \subseteq Nat
  <1>1. Visible \subseteq Numbers /\ \A n \in Numbers : n \in Nat \ {0}
    BY StreamAssumption DEF Visible, Numbers
  <1>2. client.last \in Nat
    BY StreamAssumption DEF TypeInv, TypeOK
  <1>3. wire \in Seq(Numbers) /\ wire \in Seq(Nat)
    <2>1. wire \in Seq(Numbers)
      BY DEF TypeInv, TypeOK
    <2>2. QED
      BY <1>1, <2>1
  <1>4. ASSUME stream.open
        PROVE  stream \in Streams /\ stream.sequence \in Nat /\ stream.batch \in Seq(Nat)
    <2>1. stream \in Streams
      BY <1>4 DEF TypeInv, TypeOK, Closed
    <2>2. stream.batch \in Seq(Numbers) /\ stream.sequence \in 0..MaxRows
      BY <2>1 DEF Streams
    <2>3. stream.batch \in Seq(Nat)
      BY <1>1, <2>2
    <2>4. QED
      BY <2>1, <2>2, <2>3, StreamAssumption
  <1>5. QED
    BY <1>1, <1>2, <1>3, <1>4, ElementsAre

LEMMA NothingSkippedHolds ==
  ASSUME StreamInv
  PROVE  NothingSkipped
  <1> SUFFICES ASSUME NEW n \in Visible, n <= client.last, n \notin client.received
               PROVE  row[n] = "read"
    BY DEF NothingSkipped
  <1>1. n \in Nat /\ client.last \in Nat /\ Covered(n)
    BY StreamTypes DEF StreamInv, NoGap, Passed
  <1>2. n \notin Elements(wire)
    BY <1>1, StreamTypes DEF StreamInv, Ordered
  <1>3. ASSUME stream.open PROVE n \notin Elements(stream.batch)
    BY <1>1, <1>3, StreamTypes DEF StreamInv, Ordered
  <1>4. QED
    BY <1>1, <1>2, <1>3 DEF Covered

LEMMA StreamInit == Init => StreamInv
  <1> SUFFICES ASSUME Init PROVE StreamInv
    OBVIOUS
  <1>1. wire = <<>> /\ ~stream.open /\ client.last = 0 /\ Visible = {}
    BY DEF Init, Closed, Visible
  <1>2. Known /\ Ordered /\ NoGap
    BY <1>1, ElementsEmpty DEF Known, Ordered, NoGap
  <1>3. QED
    BY <1>2, TypeInit DEF StreamInv

\* Steps of others: rows that appear have the highest numbers.
LEMMA StreamStays ==
  ASSUME StreamInv, TypeInv', UNCHANGED <<stream, wire, client>>,
         Visible \subseteq Visible',
         \A n \in Visible : row[n] = "read" => row'[n] = "read",
         \A n \in Visible' \ Visible, m \in Visible \union {0} : m < n
  PROVE  StreamInv'
  <1>1. Known' /\ Ordered'
    BY DEF StreamInv, Known, Ordered
  <1>2. NoGap'
    <2> SUFFICES ASSUME NEW n \in Visible', Passed(n)' PROVE Covered(n)'
      BY DEF NoGap
    <2>1. Passed(n)
      BY DEF Passed
    <2>2. n \in Nat /\ \A m \in Visible \union {0} : m \in Nat
      <3>1. Visible \subseteq Nat /\ Visible' \subseteq Nat
        BY StreamTypes, StreamAssumption DEF StreamInv, Visible, Numbers
      <3>2. QED
        BY <3>1
    <2>3. n \in Visible
      <3>1. PICK m \in Visible \union {0} : n <= m
        BY <2>1, Zenon DEF Passed, StreamInv, Known
      <3>2. QED
        BY <2>2, <3>1
    <2>4. Covered(n)
      BY <2>1, <2>3 DEF StreamInv, NoGap
    <2>5. QED
      BY <2>3, <2>4 DEF Covered
  <1>3. QED
    BY <1>1, <1>2 DEF StreamInv

LEMMA StreamCommitCreate ==
  ASSUME StreamInv, NEW c \in Creators, CommitCreate(c)
  PROVE  StreamInv'
  <1>1. /\ TypeInv' /\ Visible' = Visible \union {counter} /\ counter \notin Visible
        /\ creating[c] = counter /\ counter \in 1..MaxRows /\ Visible = 1..(counter - 1)
    BY TypeCommitCreate, OneCreates DEF StreamInv, CommitCreate
  <1>2. \A m \in Visible \union {0} : m < counter
    BY <1>1, StreamAssumption
  <1>3. ASSUME NEW n \in Visible PROVE row'[n] = row[n]
    BY <1>1, <1>3 DEF CommitCreate, Created, StreamInv, TypeInv, TypeOK, Visible
  <1>4. QED
    BY <1>1, <1>2, <1>3, StreamStays DEF CommitCreate

LEMMA StreamMarkRead ==
  ASSUME StreamInv, NEW k \in Numbers, MarkRead(k)
  PROVE  StreamInv'
  <1>1. TypeInv' /\ Visible' = Visible
    BY TypeMarkRead DEF StreamInv
  <1>2. \A n \in Visible : row[n] = "read" => row'[n] = "read"
    BY DEF MarkRead, StreamInv, TypeInv, TypeOK, Visible
  <1>3. QED
    BY <1>1, <1>2, StreamStays DEF MarkRead

LEMMA StreamConnect ==
  ASSUME StreamInv, Connect
  PROVE  StreamInv'
  <1>1. TypeInv' /\ Visible' = Visible /\ row' = row /\ wire' = <<>> /\ stream'.open
    <2>1. TypeInv' /\ Visible' = Visible
      BY TypeConnect DEF StreamInv
    <2>2. QED
      BY <2>1 DEF Connect
  <1>2. /\ stream'.batch = <<>> /\ stream'.sequence = client'.last
        /\ ~stream'.has => stream'.sequence = 0 /\ stream'.unreadOnly
        /\ \/ client' = client
           \/ client'.last = 0
    BY DEF Connect
  <1>3. client.last \in Visible \union {0} /\ client'.last \in Visible \union {0}
    BY <1>2 DEF StreamInv, Known
  <1>4. Elements(wire') = {} /\ Elements(stream'.batch) = {}
        /\ Increasing(wire') /\ Increasing(stream'.batch)
    BY <1>1, <1>2, ElementsEmpty
  <1>5. Known'
    BY <1>1, <1>2, <1>3, <1>4 DEF Known
  <1>6. client'.last \in Nat
    BY <1>2, StreamTypes DEF StreamInv
  <1>7. Ordered'
    BY <1>1, <1>2, <1>4, <1>6 DEF Ordered
  <1>8. NoGap'
    <2> SUFFICES ASSUME NEW n \in Visible', Passed(n)' PROVE Covered(n)'
      BY DEF NoGap
    <2>1. n \in Visible /\ n <= client'.last
      BY <1>1, <1>2, <1>4 DEF Passed
    <2>2. n \in Nat \ {0}
      BY <2>1, StreamTypes DEF StreamInv
    <2>3. client' = client
      BY <1>2, <2>1, <2>2
    <2>4. n \in client.received \/ row[n] = "read"
      BY <2>1, <2>3, NothingSkippedHolds DEF NothingSkipped
    <2>5. QED
      BY <1>1, <2>3, <2>4 DEF Covered
  <1>9. QED
    BY <1>1, <1>5, <1>7, <1>8 DEF StreamInv

LEMMA StreamPoll ==
  ASSUME StreamInv, Poll
  PROVE  StreamInv'
  <1> DEFINE b == Lowest(BatchSize, Backlog)
  <1>1. /\ TypeInv' /\ Visible' = Visible /\ Backlog \subseteq Numbers
        /\ stream' = [stream EXCEPT !.batch = b] /\ stream \in Streams
    BY TypePoll DEF StreamInv
  <1>2. /\ b \in Seq(Backlog) /\ Increasing(b)
        /\ \A n \in Backlog, m \in Elements(b) : n <= m => n \in Elements(b)
    BY <1>1, LowestIs, StreamAssumption
  <1> HIDE DEF b
  <1>3. Elements(b) \subseteq Backlog
    BY <1>2, ElementsAre
  <1>4. /\ stream.open /\ stream'.open /\ stream.batch = <<>> /\ stream'.batch = b
        /\ stream'.sequence = stream.sequence /\ stream'.has = stream.has
        /\ stream'.unreadOnly = stream.unreadOnly
        /\ wire' = wire /\ client' = client /\ row' = row
    BY <1>1 DEF Poll, Streams
  <1>5. \A n \in Backlog : n \in Visible /\ stream.sequence < n
    <2>1. \A n \in Visible : n \in Nat \ {0}
      BY StreamTypes DEF StreamInv
    <2>2. ~stream.has => stream.sequence = 0
      BY <1>4 DEF StreamInv, Known
    <2>3. QED
      BY <2>1, <2>2 DEF Backlog
  <1>6. \A n \in Visible : stream.sequence < n /\ row[n] # "read" => n \in Backlog
    <2>1. \A n \in Visible : row[n] # "read" => row[n] = "unread"
      BY DEF StreamInv, TypeInv, TypeOK, Visible
    <2>2. QED
      BY <2>1, Zenon DEF Backlog
  <1>7. Known'
    BY <1>1, <1>3, <1>4, <1>5 DEF StreamInv, Known
  <1>8. Ordered'
    BY <1>2, <1>3, <1>4, <1>5 DEF StreamInv, Ordered
  <1>9. NoGap'
    <2> SUFFICES ASSUME NEW n \in Visible, Passed(n)' PROVE Covered(n)'
      BY <1>1 DEF NoGap
    <2>1. CASE Passed(n)
      <3>1. Covered(n)
        BY <2>1 DEF StreamInv, NoGap
      <3>2. n \notin Elements(stream.batch)
        BY <1>4, ElementsEmpty
      <3>3. QED
        BY <1>4, <3>1, <3>2 DEF Covered
    <2>2. CASE ~Passed(n)
      <3>1. PICK m \in Elements(b) : n <= m
        BY <1>4, <2>2 DEF Passed
      <3>2. ~(n <= stream.sequence)
        BY <1>4, <2>2 DEF Passed
      <3>3. n \in Nat /\ stream.sequence \in Nat
        BY <1>4, StreamTypes DEF StreamInv
      <3>4. row[n] = "read" \/ n \in Elements(b)
        BY <1>2, <1>6, <3>1, <3>2, <3>3
      <3>5. QED
        BY <1>4, <3>4 DEF Covered
    <2>3. QED
      BY <2>1, <2>2
  <1>10. QED
    BY <1>1, <1>7, <1>8, <1>9 DEF StreamInv

LEMMA StreamWriteEvent ==
  ASSUME StreamInv, WriteEvent
  PROVE  StreamInv'
  <1> DEFINE h == Head(stream.batch)
             t == Tail(stream.batch)
             B == Elements(stream.batch)
             T == Elements(t)
             W == Elements(wire)
  <1>1. TypeInv' /\ Visible' = Visible /\ stream \in Streams /\ h \in Numbers
    BY TypeWriteEvent DEF StreamInv
  <1>2. /\ stream.open /\ stream.batch # <<>> /\ wire' = Append(wire, h)
        /\ stream'.open /\ stream'.batch = t /\ stream'.sequence = h /\ stream'.has
        /\ client' = client /\ row' = row
    BY <1>1 DEF WriteEvent, Streams
  <1>3. /\ stream.batch \in Seq(Nat) /\ wire \in Seq(Nat) /\ h \in Nat
        /\ client.last \in Nat /\ stream.sequence \in Nat /\ W \subseteq Nat /\ B \subseteq Nat
    BY <1>1, <1>2, StreamTypes DEF StreamInv
  <1>4. /\ Increasing(wire) /\ \A n \in W : client.last < n
        /\ client.last <= stream.sequence /\ \A n \in W : n <= stream.sequence
        /\ Increasing(stream.batch) /\ \A n \in B : stream.sequence < n
    BY <1>2 DEF StreamInv, Ordered
  <1>5. B = {h} \union T /\ Increasing(t) /\ \A n \in T : h < n
    BY <1>2, <1>3, <1>4, ElementsHead
  <1>6. Elements(wire') = W \union {h} /\ Increasing(wire')
    <2>1. \A m \in W : m < h
      <3> HIDE DEF h, B, W, T
      <3>1. stream.sequence < h
        BY <1>4, <1>5
      <3>2. QED
        BY <1>3, <1>4, <3>1
    <2>2. QED
      BY <1>2, <1>3, <1>4, <2>1, ElementsAppend
  <1> HIDE DEF h, t, B, T, W
  <1>7. Known'
    <2>1. W \subseteq Visible /\ B \subseteq Visible
      BY <1>2 DEF StreamInv, Known, W, B
    <2>2. QED
      BY <1>1, <1>2, <1>5, <1>6, <2>1 DEF StreamInv, Known, T
  <1>8. Ordered'
    <2>1. /\ client.last <= h /\ \A n \in W \union {h} : client.last < n /\ n <= h
      BY <1>3, <1>4, <1>5
    <2>2. QED
      BY <1>2, <1>5, <1>6, <2>1 DEF Ordered, T
  <1>9. NoGap'
    <2> SUFFICES ASSUME NEW n \in Visible, Passed(n)' PROVE Covered(n)'
      BY <1>1 DEF NoGap
    <2>1. \/ n <= client.last
          \/ \E m \in W \union B : n <= m
      BY <1>2, <1>5, <1>6 DEF Passed, T
    <2>2. Passed(n)
      BY <1>2, <2>1, Zenon DEF Passed, W, B
    <2>3. n \in client.received \/ row[n] = "read" \/ n \in W \union B
      BY <2>2, Zenon DEF StreamInv, NoGap, Covered, W, B
    <2>4. QED
      BY <1>2, <1>5, <1>6, <2>3 DEF Covered, T
  <1>10. QED
    BY <1>1, <1>7, <1>8, <1>9 DEF StreamInv

LEMMA StreamCloses ==
  ASSUME StreamInv, Close \/ CloseInactive
  PROVE  StreamInv'
  <1>1. /\ TypeInv' /\ Visible' = Visible
        /\ row' = row /\ client' = client /\ ~stream'.open /\ (wire' = wire \/ wire' = <<>>)
    <2>1. TypeInv' /\ Visible' = Visible
      BY TypeCloses DEF StreamInv
    <2>2. stream' = Closed /\ row' = row /\ client' = client /\ (wire' = wire \/ wire' = <<>>)
      BY Zenon DEF Close, CloseInactive
    <2>3. QED
      BY <2>1, <2>2 DEF Closed
  <1>2. Known' /\ Ordered'
    BY <1>1, ElementsEmpty DEF StreamInv, Known, Ordered
  <1>3. NoGap'
    <2> SUFFICES ASSUME NEW n \in Visible, Passed(n)' PROVE Covered(n)'
      BY <1>1 DEF NoGap
    <2>1. CASE n <= client.last
      <3>1. n \in client.received \/ row[n] = "read"
        BY <2>1, NothingSkippedHolds DEF NothingSkipped
      <3>2. QED
        BY <1>1, <3>1 DEF Covered
    <2>2. CASE ~(n <= client.last)
      <3>1. PICK m \in Elements(wire') : n <= m
        BY <1>1, <2>2 DEF Passed
      <3>2. wire' = wire /\ wire' # <<>>
        BY <1>1, <3>1, ElementsEmpty
      <3>3. CASE Close
        BY <3>2, <3>3 DEF Close
      <3>4. CASE CloseInactive
        <4>1. Covered(n)
          BY <3>1, <3>2 DEF StreamInv, NoGap, Passed
        <4>2. n \notin Elements(stream.batch)
          BY <3>4, ElementsEmpty DEF CloseInactive
        <4>3. QED
          BY <1>1, <3>2, <4>1, <4>2 DEF Covered
      <3>5. QED
        BY <3>3, <3>4
    <2>3. QED
      BY <2>1, <2>2
  <1>4. QED
    BY <1>1, <1>2, <1>3 DEF StreamInv

LEMMA StreamReceive ==
  ASSUME StreamInv, Receive
  PROVE  StreamInv'
  <1> DEFINE h == Head(wire)
             W == Elements(wire)
             T == Elements(Tail(wire))
  <1>1. /\ TypeInv' /\ Visible' = Visible /\ row' = row /\ stream' = stream
        /\ client'.last = h /\ client'.received = client.received \union {h}
        /\ wire' = Tail(wire)
    <2>1. TypeInv' /\ Visible' = Visible
      BY TypeReceive DEF StreamInv
    <2>2. QED
      BY <2>1 DEF Receive
  <1>2. wire \in Seq(Nat) /\ wire # <<>> /\ client.last \in Nat /\ W \subseteq Nat
    BY StreamTypes DEF StreamInv, Receive
  <1>3. /\ Increasing(wire) /\ \A n \in W : client.last < n
        /\ stream.open => \A n \in W : n <= stream.sequence
    BY DEF StreamInv, Ordered
  <1>4. W = {h} \union T /\ Increasing(Tail(wire)) /\ \A n \in T : h < n
    BY <1>2, <1>3, ElementsHead
  <1>5. h \in Nat /\ h \in Visible /\ T \subseteq Visible
    BY <1>2, <1>4 DEF StreamInv, Known
  <1> HIDE DEF h, W, T
  <1>6. Known'
    BY <1>1, <1>5 DEF StreamInv, Known, T
  <1>7. Ordered'
    BY <1>1, <1>3, <1>4, <1>5 DEF StreamInv, Ordered, T
  <1>8. NoGap'
    <2> SUFFICES ASSUME NEW n \in Visible, Passed(n)' PROVE Covered(n)'
      BY <1>1 DEF NoGap
    <2>1. Passed(n)
      BY <1>1, <1>4 DEF Passed, T, W
    <2>2. \/ n \in client.received \/ row[n] = "read" \/ n \in W
          \/ stream.open /\ n \in Elements(stream.batch)
      BY <2>1, Zenon DEF StreamInv, NoGap, Covered, W
    <2>3. QED
      BY <1>1, <1>4, <2>2 DEF Covered, T
  <1>9. QED
    BY <1>1, <1>6, <1>7, <1>8 DEF StreamInv

LEMMA StreamNext == StreamInv /\ [Next]_vars => StreamInv'
  <1> SUFFICES ASSUME StreamInv, [Next]_vars PROVE StreamInv'
    OBVIOUS
  <1>0. TypeInv'
    BY TypeNext DEF StreamInv
  <1>1. ASSUME NEW c \in Creators, Allocate(c) \/ AbortCreate(c) PROVE StreamInv'
    <2>1. row' = row /\ UNCHANGED <<stream, wire, client>>
      BY <1>1, Zenon DEF Allocate, AbortCreate
    <2>2. QED
      BY <1>0, <2>1, StreamStays DEF Visible
  <1>2. ASSUME NEW c \in Creators, CommitCreate(c) PROVE StreamInv'
    BY <1>2, StreamCommitCreate
  <1>3. ASSUME NEW n \in Numbers, MarkRead(n) PROVE StreamInv'
    BY <1>3, StreamMarkRead
  <1>4. CASE Deactivate \/ GetPage \/ UNCHANGED vars
    <2>1. row' = row /\ UNCHANGED <<stream, wire, client>>
      BY <1>4, Zenon DEF Deactivate, GetPage, vars
    <2>2. QED
      BY <1>0, <2>1, StreamStays DEF Visible
  <1>5. CASE Connect \/ Poll \/ WriteEvent \/ Close \/ CloseInactive \/ Receive
    BY <1>5, StreamConnect, StreamPoll, StreamWriteEvent, StreamCloses, StreamReceive
  <1>6. QED
    BY <1>1, <1>2, <1>3, <1>4, <1>5 DEF Next

(* A client that follows its cursor over any number of broken connections has
   every notification up to the last one it received, except those that were
   read elsewhere, for any batch size and any number of creators
   (notification/service.go Create; httpapi/notifications.go poll). *)
THEOREM NeverSkips == Spec => []NothingSkipped
  <1>1. StreamInv => NothingSkipped
    BY NothingSkippedHolds
  <1>2. QED
    BY <1>1, StreamInit, StreamNext, PTL DEF Spec

(* What was received, what is on its way and what the handler has read come in
   one increasing order: no event is sent twice or before an earlier one
   (httpapi/notifications.go poll, the sequence taken over after each write). *)
THEOREM ArrivesInOrder == Spec => []InOrderOnce
  <1>1. ASSUME StreamInv PROVE InOrderOnce
    <2> DEFINE b == IF stream.open THEN stream.batch ELSE <<>>
               f == <<client.last>>
    <2>1. /\ client.last \in Nat /\ wire \in Seq(Nat) /\ b \in Seq(Nat) /\ f \in Seq(Nat)
          /\ Elements(wire) \subseteq Nat /\ Elements(b) \subseteq Nat
      <3>1. b \in Seq(Nat)
        BY <1>1, StreamTypes DEF StreamInv
      <3>2. client.last \in Nat /\ wire \in Seq(Nat)
        BY <1>1, StreamTypes DEF StreamInv
      <3>3. Elements(wire) \subseteq Nat /\ Elements(b) \subseteq Nat
        BY <3>1, <3>2, ElementsAre, Zenon
      <3>4. f \in Seq(Nat)
        BY <3>2
      <3>5. QED
        BY <3>1, <3>2, <3>3, <3>4, Zenon
    <2>2. Elements(f) = {client.last} /\ Increasing(f)
      BY DEF Elements, Increasing
    <2>3. Increasing(b)
      BY <1>1, ElementsEmpty DEF StreamInv, Ordered
    <2>4. /\ \A n \in Elements(wire) : client.last < n
          /\ \A n \in Elements(b) : client.last < n /\ \A m \in Elements(wire) : m < n
      <3>1. \A n \in Elements(wire) : client.last < n
        BY <1>1 DEF StreamInv, Ordered
      <3>2. CASE stream.open
        <4>1. stream.sequence \in Nat
          BY <1>1, <3>2, StreamTypes DEF StreamInv
        <4>2. QED
          BY <1>1, <2>1, <3>1, <3>2, <4>1 DEF StreamInv, Ordered
      <3>3. CASE ~stream.open
        BY <3>1, <3>3, ElementsEmpty
      <3>4. QED
        BY <3>2, <3>3
    <2> HIDE DEF b, f
    <2>5. /\ Elements(f \o wire) = {client.last} \union Elements(wire)
          /\ Increasing(f \o wire) /\ f \o wire \in Seq(Nat)
      BY <1>1, <2>1, <2>2, <2>4, ElementsConcat DEF StreamInv, Ordered
    <2>6. Increasing((f \o wire) \o b)
      BY <2>1, <2>3, <2>4, <2>5, ElementsConcat
    <2>7. QED
      BY <2>6, Zenon DEF InOrderOnce, Increasing, f, b
  <1>2. QED
    BY <1>1, StreamInit, StreamNext, PTL DEF Spec

-----------------------------------------------------------------------------
(* The pages. *)

LEMMA PagerInit == Init => PagerInv
  <1> SUFFICES ASSUME Init PROVE PagerInv
    OBVIOUS
  <1>1. /\ pager.phase = "idle" /\ pager.seen = <<>> /\ pager.cursor = 0 /\ pager.from = {}
    BY DEF Init
  <1>2. QED
    BY <1>1, TypeInit, ElementsEmpty DEF PagerInv

\* Rows that appear have higher numbers than those of the first page.
LEMMA PagerStays ==
  ASSUME PagerInv, TypeInv', pager' = pager, Visible \subseteq Visible',
         \A n \in Visible' \ Visible, m \in Visible : m < n
  PROVE  PagerInv'
  <1>1. /\ pager.from \subseteq Visible
        /\ \A n \in Visible, m \in pager.from : n < m => n \in pager.from
    BY DEF PagerInv
  <1>2. Visible' \subseteq Nat
    BY StreamAssumption DEF Visible, Numbers
  <1>3. ASSUME NEW n \in Visible', NEW m \in pager.from, n < m PROVE n \in pager.from
    <2>1. n \in Nat /\ m \in Nat /\ m \in Visible
      BY <1>1, <1>2
    <2>2. n \in Visible
      BY <1>3, <2>1
    <2>3. QED
      BY <1>1, <1>3, <2>2
  <1>4. QED
    BY <1>1, <1>3 DEF PagerInv

LEMMA PagerGetPage ==
  ASSUME PagerInv, GetPage
  PROVE  PagerInv'
  <1> DEFINE S == Below
             h == Highest(PageSize, Below)
             k == NextCursor(Below)
             F == pager'.from
  <1>1. /\ TypeInv' /\ Visible' = Visible /\ S \subseteq Numbers /\ h \in Seq(S)
    BY TypeGetPage DEF PagerInv
  <1>2. /\ k \in S \union {0} /\ \A n \in S : n \in Elements(h) <=> k <= n
        /\ Descending(h)
    BY <1>1, PageIs
  <1>3. /\ pager'.phase = (IF k = 0 THEN "done" ELSE "paging") /\ pager'.cursor = k
        /\ pager'.from = (IF pager.phase = "idle" THEN Visible ELSE pager.from)
        /\ pager'.seen = pager.seen \o h
    BY Zenon DEF GetPage
  <1>4. /\ Visible \subseteq Nat /\ \A n \in Visible : n # 0
        /\ pager.seen \in Seq(Nat) /\ pager.cursor \in Nat /\ Elements(pager.seen) \subseteq Nat
    <2>1. Numbers \subseteq Nat /\ 0 \notin Numbers /\ Visible \subseteq Numbers
      BY StreamAssumption DEF Numbers, Visible
    <2>2. pager.seen \in Seq(Numbers) /\ pager.cursor \in 0..MaxRows
      BY DEF PagerInv, TypeInv, TypeOK
    <2>3. pager.seen \in Seq(Nat)
      BY <2>1, <2>2, SubsetSeq, Zenon
    <2>4. pager.cursor \in Nat
      BY <2>2, StreamAssumption
    <2>5. QED
      BY <2>1, <2>3, <2>4, ElementsAre, Zenon
  <1>5. S = {n \in Visible : pager.cursor = 0 \/ n < pager.cursor}
    BY DEF Below
  <1> HIDE DEF S, h, k, F
  \* All that lies below the cursor belongs to the first page's rows.
  <1>6. /\ F \subseteq Visible /\ \A n \in Visible, m \in F : n < m => n \in F
        /\ S = {n \in F : pager.phase = "idle" \/ n < pager.cursor}
        /\ Elements(pager.seen) = {n \in F : pager.phase # "idle" /\ pager.cursor <= n}
    <2>1. CASE pager.phase = "idle"
      <3>1. F = Visible /\ pager.cursor = 0 /\ Elements(pager.seen) = {}
        BY <1>3, <2>1, ElementsEmpty DEF F, PagerInv
      <3>2. QED
        BY <1>5, <2>1, <3>1
    <2>2. CASE pager.phase # "idle"
      <3>1. pager.phase = "paging"
        BY <2>2 DEF GetPage, PagerInv, TypeInv, TypeOK
      <3>2. /\ F = pager.from /\ F \subseteq Visible /\ pager.cursor \in F
            /\ \A n \in Visible, m \in F : n < m => n \in F
            /\ Elements(pager.seen) = {n \in F : pager.cursor <= n}
        BY <1>3, <2>2, <3>1 DEF F, PagerInv
      <3>3. QED
        BY <1>4, <1>5, <2>2, <3>2
    <2>3. QED
      BY <2>1, <2>2
  <1>7. Elements(h) = {n \in S : k <= n} /\ h \in Seq(Nat) /\ S \subseteq Nat /\ k \in Nat
    <2>1. S \subseteq Nat
      BY <1>4, <1>5
    <2>2. h \in Seq(Nat)
      BY <1>1, <2>1, SubsetSeq, Zenon
    <2>3. k \in Nat
      BY <1>2, <2>1
    <2>4. Elements(h) \subseteq S
      BY <1>1, ElementsAre
    <2>5. QED
      BY <1>2, <2>1, <2>2, <2>3, <2>4
  <1>8. \A m \in Elements(pager.seen), n \in Elements(h) : m > n
    BY <1>4, <1>6, <1>7
  <1>9. /\ Elements(pager'.seen) = Elements(pager.seen) \union Elements(h)
        /\ Descending(pager'.seen)
    <2>1. Descending(pager.seen)
      BY DEF PagerInv
    <2>2. QED
      BY <1>2, <1>3, <1>4, <1>7, <1>8, <2>1, ElementsConcat
  <1>10. Elements(pager'.seen) = {n \in F : k <= n}
    <2>1. ASSUME NEW n \in F
          PROVE  n \in Elements(pager.seen) \union Elements(h) <=> k <= n
      <3>1. n \in Nat
        BY <1>4, <1>6
      <3>2. CASE n \in S
        BY <1>4, <1>6, <1>7, <3>1, <3>2
      <3>3. CASE n \notin S
        <4>1. pager.phase # "idle" /\ pager.cursor <= n /\ n \in Elements(pager.seen)
          BY <1>4, <1>6, <3>1, <3>3
        <4>2. k <= n
          BY <1>2, <1>4, <1>6, <1>7, <3>1, <4>1
        <4>3. QED
          BY <4>1, <4>2
      <3>4. QED
        BY <3>2, <3>3
    <2>2. Elements(pager.seen) \union Elements(h) \subseteq F
      BY <1>6, <1>7
    <2>3. QED
      BY <1>9, <2>1, <2>2
  <1>11. /\ pager'.phase # "idle" /\ (pager'.phase = "paging" => k \in F)
         /\ (pager'.phase = "done" => k = 0)
    <2>1. k = 0 \/ k \in F
      BY <1>2, <1>6
    <2>2. QED
      BY <1>3, <2>1
  <1>12. QED
    BY <1>1, <1>3, <1>6, <1>9, <1>10, <1>11 DEF PagerInv, F

LEMMA PagerNext == PagerInv /\ [Next]_vars => PagerInv'
  <1> SUFFICES ASSUME PagerInv, [Next]_vars PROVE PagerInv'
    OBVIOUS
  <1>0. TypeInv'
    BY TypeNext DEF PagerInv
  <1>1. CASE GetPage
    BY <1>1, PagerGetPage
  <1>2. ASSUME NEW c \in Creators, CommitCreate(c) PROVE PagerInv'
    <2>1. Visible' = Visible \union {counter} /\ Visible = 1..(counter - 1) /\ counter \in Nat
      <3>1. Visible' = Visible \union {counter}
        BY <1>2, TypeCommitCreate DEF PagerInv
      <3>2. Visible = 1..(counter - 1) /\ counter \in 1..MaxRows
        BY <1>2, OneCreates DEF PagerInv, CommitCreate
      <3>3. QED
        BY <3>1, <3>2, StreamAssumption
    <2>2. \A n \in Visible' \ Visible, m \in Visible : m < n
      BY <2>1
    <2>3. QED
      BY <1>0, <1>2, <2>1, <2>2, PagerStays DEF CommitCreate
  <1>3. ASSUME NEW n \in Numbers, MarkRead(n) PROVE PagerInv'
    BY <1>0, <1>3, TypeMarkRead, PagerStays DEF MarkRead, PagerInv
  <1>4. ASSUME pager' = pager, row' = row PROVE PagerInv'
    BY <1>0, <1>4, PagerStays DEF Visible
  <1>5. QED
    <2>1. ASSUME NEW c \in Creators, Allocate(c) \/ AbortCreate(c) PROVE PagerInv'
      BY <1>4, <2>1, Zenon DEF Allocate, AbortCreate
    <2>2. CASE Connect \/ Poll \/ WriteEvent \/ Close \/ CloseInactive \/ Receive
      BY <1>4, <2>2, Zenon DEF Connect, Poll, WriteEvent, Close, CloseInactive, Receive
    <2>3. CASE Deactivate \/ UNCHANGED vars
      BY <1>4, <2>3, Zenon DEF Deactivate, vars
    <2>4. QED
      BY <1>1, <1>2, <1>3, <2>1, <2>2, <2>3 DEF Next

(* Following X-Next-Cursor shows every notification that was there when the
   first page was read, newest first and none twice, for any page size and
   whatever is created in between (notification/service.go Page). *)
THEOREM PagesShowAll == Spec => []PagesComplete
  <1>1. ASSUME PagerInv PROVE PagesComplete
    <2> SUFFICES ASSUME pager.phase = "done"
                 PROVE  /\ Elements(pager.seen) = pager.from
                        /\ Descending(pager.seen)
      BY Zenon DEF PagesComplete, Elements, Descending
    <2>1. \A n \in pager.from : 0 <= n
      BY <1>1, StreamAssumption DEF PagerInv, Visible, Numbers
    <2>2. QED
      BY <1>1, <2>1 DEF PagerInv
  <1>2. QED
    BY <1>1, PagerInit, PagerNext, PTL DEF Spec
=============================================================================
