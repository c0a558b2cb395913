--------------------------- MODULE DecodeViewProofs ---------------------------
(***************************************************************************)
(* What the main window shows of the images it asks the decoder thread for *)
(* is true, for any images and frames, any capacity of the queue and the   *)
(* cache, and whatever programs change the files.                          *)
(*                                                                         *)
(* The frame bar carries the proof: it stands for one identity of one      *)
(* file, what it presents is of that identity, and a request for a frame   *)
(* of it remembers the same one.  An answer is used only if it is of the   *)
(* identity its request remembers, so neither the cache nor the screen can *)
(* mix two contents of a file.                                             *)
(***************************************************************************)
EXTENDS DecodeView, FiniteSetTheorems, SequenceTheorems, WellFoundedInduction, TLAPS

-----------------------------------------------------------------------------
(* Lists: induction in the form the provers can use, Dropping and RemoveAt. *)

\* Every set of numbers that is not empty has a least one: the form in which the
\* provers can use induction.
LEMMA LeastNumber ==
  ASSUME NEW T, T \subseteq Nat, T # {}
  PROVE  \E x \in T : \A y \in T : x <= y
<1> DEFINE R == {ss \in Nat \X Nat : ss[1] < ss[2]}
<1>1. IsWellFoundedOn(R, Nat)
  BY NatLessThanWellFounded DEF OpToRel
<1>2. PICK x \in T : \A y \in T : ~ (<<y, x>> \in R)
  <2> HIDE DEF R
  <2> QED BY <1>1, WFMin
<1>3. \A y \in T : ~ (y < x)
  BY <1>2
<1> QED BY <1>3

\* And one that is bounded has a greatest.
LEMMA GreatestNumber ==
  ASSUME NEW T, T \subseteq Nat, T # {}, NEW b \in Nat, \A y \in T : y <= b
  PROVE  \E x \in T : \A y \in T : y <= x
<1> DEFINE D == {b - y : y \in T}
<1>1. D \subseteq Nat /\ D # {}
  <2>1. PICK y \in T : TRUE
    OBVIOUS
  <2>2. b - y \in D
    BY <2>1
  <2>3. \A z \in T : b - z \in Nat
    OBVIOUS
  <2> QED BY <2>2, <2>3
<1>2. PICK d \in D : \A e \in D : d <= e
  <2> HIDE DEF D
  <2> QED BY <1>1, LeastNumber
<1>3. PICK x \in T : d = b - x
  BY <1>2
<1>4. \A y \in T : b - x <= b - y
  BY <1>2, <1>3
<1> QED BY <1>3, <1>4

\* f is the recursion of Dropping, for the first m members of s.
KeptBy(s, D, m, f) ==
  f = [n \in 0 .. m |-> IF n = 0 THEN <<>> ELSE IF s[n] \in D THEN f[n - 1] ELSE Append(f[n - 1], s[n])]

\* The recursion of Dropping has a solution for every list.
LEMMA KeptDefined == ASSUME NEW s, NEW D, NEW l \in Nat PROVE \E f : KeptBy(s, D, l, f)
<1> DEFINE Missing == {m \in Nat : ~\E f : KeptBy(s, D, m, f)}
<1>1. ASSUME NEW m \in Missing, \A y \in Missing : m <= y PROVE FALSE
  <2>1. CASE m = 0
    <3> DEFINE f == [n \in 0 .. 0 |-> <<>>]
    <3>1. f = [n \in 0 .. 0 |-> IF n = 0 THEN <<>> ELSE IF s[n] \in D THEN f[n - 1] ELSE Append(f[n - 1], s[n])]
      OBVIOUS
    <3>2. KeptBy(s, D, m, f)
      BY <2>1, <3>1 DEF KeptBy
    <3> QED BY <3>2
  <2>2. CASE m # 0
    <3>1. m - 1 \in Nat /\ m - 1 \notin Missing
      BY <1>1, <2>2
    <3>2. PICK f : KeptBy(s, D, m - 1, f)
      BY <3>1
    <3> DEFINE last == IF s[m] \in D THEN f[m - 1] ELSE Append(f[m - 1], s[m])
               g == [n \in 0 .. m |-> IF n = m THEN last ELSE f[n]]
               h == [n \in 0 .. m |-> IF n = 0 THEN <<>>
                                      ELSE IF s[n] \in D THEN g[n - 1] ELSE Append(g[n - 1], s[n])]
    <3>3. \A n \in 0 .. m : g[n] = h[n]
      <4> TAKE n \in 0 .. m
      <4>1. CASE n = m
        <5>1. g[m - 1] = f[m - 1] /\ g[n] = last
          BY <4>1, <3>1
        <5> QED BY <2>2, <4>1, <5>1
      <4>2. CASE n # m
        <5>1. n \in 0 .. m - 1 /\ g[n] = f[n]
          BY <4>2
        <5>2. f[n] = IF n = 0 THEN <<>> ELSE IF s[n] \in D THEN f[n - 1] ELSE Append(f[n - 1], s[n])
          BY <3>2, <5>1 DEF KeptBy
        <5>3. n # 0 => g[n - 1] = f[n - 1]
          BY <5>1
        <5> QED BY <5>1, <5>2, <5>3
      <4> QED BY <4>1, <4>2
    <3>4. h = [n \in 0 .. m |-> h[n]] /\ g = [n \in 0 .. m |-> g[n]]
      OBVIOUS
    <3>5. g = h
      <4> HIDE DEF g, h
      <4> QED BY <3>3, <3>4
    <3>6. KeptBy(s, D, m, g)
      <4> HIDE DEF g
      <4> QED BY <3>5 DEF KeptBy
    <3> QED BY <3>6
  <2> QED BY <2>1, <2>2
<1>2. Missing = {}
  <2> HIDE DEF Missing
  <2>1. Missing \subseteq Nat
    BY DEF Missing
  <2> QED BY <1>1, <2>1, LeastNumber
<1> QED BY <1>2

\* r has the members of the first n of s that are not in D, in their order.
Selects(s, D, n, r) ==
  /\ Len(r) <= n
  /\ {r[k] : k \in 1 .. Len(r)} = {s[k] : k \in 1 .. n} \ D
  /\ \E at \in [1 .. Len(r) -> 1 .. n] :
       /\ \A k \in 1 .. Len(r) : r[k] = s[at[k]]
       /\ \A j, k \in 1 .. Len(r) : j < k => at[j] < at[k]

\* One more member of s is kept, or not.
LEMMA SelectsMore ==
  ASSUME NEW S, NEW s \in Seq(S), NEW D, NEW n \in Nat, n + 1 \in DOMAIN s,
         NEW r \in Seq(S), Selects(s, D, n, r)
  PROVE  LET q == IF s[n + 1] \in D THEN r ELSE Append(r, s[n + 1])
         IN q \in Seq(S) /\ Selects(s, D, n + 1, q)
<1> DEFINE x == s[n + 1]
<1>0. x \in S /\ DOMAIN s = 1 .. Len(s) /\ Len(r) \in Nat /\ DOMAIN r = 1 .. Len(r) /\ 1 .. n + 1 = (1 .. n) \cup {n + 1}
  <2>1. x \in S /\ DOMAIN s = 1 .. Len(s) /\ Len(r) \in Nat /\ DOMAIN r = 1 .. Len(r)
    BY ElementOfSeq, LenProperties
  <2> QED BY <2>1
<1>1. PICK at \in [1 .. Len(r) -> 1 .. n] :
       /\ \A k \in 1 .. Len(r) : r[k] = s[at[k]]
       /\ \A j, k \in 1 .. Len(r) : j < k => at[j] < at[k]
  BY DEF Selects
<1>2. Len(r) <= n /\ {r[k] : k \in 1 .. Len(r)} = {s[k] : k \in 1 .. n} \ D
  BY DEF Selects
<1>4. {s[k] : k \in 1 .. n + 1} = {s[k] : k \in 1 .. n} \cup {x}
  BY <1>0
<1>5. CASE x \in D
  <2>1. {r[k] : k \in 1 .. Len(r)} = {s[k] : k \in 1 .. n + 1} \ D
    BY <1>2, <1>4, <1>5
  <2>2. at \in [1 .. Len(r) -> 1 .. n + 1]
    BY <1>0
  <2>3. Len(r) <= n + 1
    BY <1>0, <1>2
  <2>4. Selects(s, D, n + 1, r)
    BY <1>1, <2>1, <2>2, <2>3 DEF Selects
  <2> QED BY <1>5, <2>4
<1>6. CASE x \notin D
  <2> DEFINE q == Append(r, x)
             to == [k \in 1 .. Len(r) + 1 |-> IF k = Len(r) + 1 THEN n + 1 ELSE at[k]]
  <2>1. /\ q \in Seq(S) /\ Len(q) = Len(r) + 1 /\ q[Len(r) + 1] = x
        /\ \A k \in 1 .. Len(r) : q[k] = r[k]
    BY <1>0, AppendProperties
  <2> HIDE DEF q
  <2>2. 1 .. Len(q) = (1 .. Len(r)) \cup {Len(r) + 1}
    BY <1>0, <2>1
  <2>3. {q[k] : k \in 1 .. Len(q)} = {r[k] : k \in 1 .. Len(r)} \cup {x}
    <3>1. {q[k] : k \in 1 .. Len(q)} = {q[k] : k \in 1 .. Len(r)} \cup {q[Len(r) + 1]}
      BY <2>2
    <3>2. {q[k] : k \in 1 .. Len(r)} = {r[k] : k \in 1 .. Len(r)}
      BY <2>1
    <3> QED BY <2>1, <3>1, <3>2
  <2>4. {q[k] : k \in 1 .. Len(q)} = {s[k] : k \in 1 .. n + 1} \ D
    BY <1>2, <1>4, <1>6, <2>3
  <2>5. to \in [1 .. Len(q) -> 1 .. n + 1]
    BY <1>0, <2>1
  <2>6. \A k \in 1 .. Len(q) : q[k] = s[to[k]]
    BY <1>0, <1>1, <2>1, <2>2
  <2>7. \A j, k \in 1 .. Len(q) : j < k => to[j] < to[k]
    <3> SUFFICES ASSUME NEW j \in 1 .. Len(q), NEW k \in 1 .. Len(q), j < k PROVE to[j] < to[k]
      OBVIOUS
    <3>1. j \in 1 .. Len(r) /\ at[j] \in 1 .. n /\ to[j] = at[j]
      BY <1>0, <2>1, <2>2
    <3>2. CASE k \in 1 .. Len(r)
      BY <1>0, <1>1, <3>1, <3>2
    <3>3. CASE k = Len(r) + 1
      BY <1>0, <3>1, <3>3, <2>1
    <3> QED BY <2>2, <3>2, <3>3
  <2>8. Len(q) <= n + 1
    BY <1>0, <1>2, <2>1
  <2> HIDE DEF to
  <2>9. Selects(s, D, n + 1, q)
    BY <2>4, <2>5, <2>6, <2>7, <2>8 DEF Selects
  <2> QED BY <1>6, <2>1, <2>9 DEF q
<1> QED BY <1>5, <1>6

\* Dropping leaves the other members, in their order.
LEMMA DroppingIs ==
  ASSUME NEW S, NEW s \in Seq(S), NEW D
  PROVE  Dropping(s, D) \in Seq(S) /\ Selects(s, D, Len(s), Dropping(s, D))
<1> DEFINE kept == CHOOSE f : f = [n \in 0 .. Len(s) |->
                     IF n = 0 THEN <<>> ELSE IF s[n] \in D THEN f[n - 1] ELSE Append(f[n - 1], s[n])]
<1>1. Dropping(s, D) = kept[Len(s)]
  BY DEF Dropping
<1>2. Len(s) \in Nat /\ DOMAIN s = 1 .. Len(s)
  BY LenProperties
<1>3. KeptBy(s, D, Len(s), kept)
  <2>1. \E f : f = [n \in 0 .. Len(s) |->
                     IF n = 0 THEN <<>> ELSE IF s[n] \in D THEN f[n - 1] ELSE Append(f[n - 1], s[n])]
    <3>1. \E f : KeptBy(s, D, Len(s), f)
      BY <1>2, KeptDefined
    <3> QED BY <3>1 DEF KeptBy
  <2> QED BY <2>1 DEF KeptBy
<1> HIDE DEF kept
<1>4. \A n \in 0 .. Len(s) : kept[n] = IF n = 0 THEN <<>> ELSE IF s[n] \in D THEN kept[n - 1] ELSE Append(kept[n - 1], s[n])
  BY <1>3 DEF KeptBy
<1> DEFINE Selected(n) == kept[n] \in Seq(S) /\ Selects(s, D, n, kept[n])
           Bad == {n \in 0 .. Len(s) : ~Selected(n)}
<1>5. ASSUME NEW m \in Bad, \A y \in Bad : m <= y PROVE FALSE
  <2>1. CASE m = 0
    <3>1. kept[0] = <<>> /\ <<>> \in Seq(S) /\ Len(<<>>) = 0
      BY <1>2, <1>4, EmptySeq
    <3>2. Selects(s, D, 0, <<>>)
      <4>1. 1 .. 0 = {} /\ {<<>>[k] : k \in 1 .. 0} = {} /\ {s[k] : k \in 1 .. 0} = {}
        OBVIOUS
      <4>2. [k \in 1 .. 0 |-> 1] \in [1 .. 0 -> 1 .. 0]
        BY <4>1
      <4>3. \E at \in [1 .. 0 -> 1 .. 0] : /\ \A k \in 1 .. 0 : <<>>[k] = s[at[k]]
                                           /\ \A j, k \in 1 .. 0 : j < k => at[j] < at[k]
        BY <4>1, <4>2
      <4>4. /\ Len(<<>>) = 0 /\ Len(<<>>) <= 0
            /\ {<<>>[k] : k \in 1 .. 0} = {s[k] : k \in 1 .. 0} \ D
        BY <3>1, <4>1
      <4> QED BY <4>3, <4>4 DEF Selects
    <3> QED BY <1>5, <2>1, <3>1, <3>2
  <2>2. CASE m # 0
    <3>1. m \in 0 .. Len(s) /\ m - 1 \in Nat /\ m \in DOMAIN s /\ m = (m - 1) + 1
      BY <1>2, <1>5, <2>2
    <3>2. m - 1 \notin Bad
      BY <1>5, <3>1
    <3>3. Selected(m - 1)
      BY <3>1, <3>2
    <3>4. kept[m] = IF s[m] \in D THEN kept[m - 1] ELSE Append(kept[m - 1], s[m])
      BY <1>4, <2>2, <3>1
    <3>5. Selected(m)
      BY <3>1, <3>3, <3>4, SelectsMore
    <3> QED BY <1>5, <3>5
  <2> QED BY <2>1, <2>2
<1>6. Bad = {}
  <2>1. Bad \subseteq Nat
    OBVIOUS
  <2> HIDE DEF Bad
  <2> QED BY <1>5, <2>1, LeastNumber
<1> QED BY <1>1, <1>2, <1>6

\* RemoveAt closes the gap.
LEMMA RemoveAtIs ==
  ASSUME NEW S, NEW s \in Seq(S), NEW n \in 1 .. Len(s)
  PROVE  LET r == RemoveAt(s, n) IN
         /\ r \in Seq(S) /\ Len(r) = Len(s) - 1
         /\ \A k \in 1 .. Len(s) - 1 : r[k] = IF k < n THEN s[k] ELSE s[k + 1]
<1>1. Len(s) \in Nat /\ DOMAIN s = 1 .. Len(s)
  BY LenProperties
<1> DEFINE a == SubSeq(s, 1, n - 1)
           b == SubSeq(s, n + 1, Len(s))
<1>2. \A k \in 1 .. Len(s) : s[k] \in S
  BY <1>1, ElementOfSeq
<1>3. a \in Seq(S) /\ Len(a) = n - 1 /\ \A k \in 1 .. n - 1 : a[k] = s[k]
  BY <1>1, <1>2, SubSeqProperties
<1>4. b \in Seq(S) /\ Len(b) = Len(s) - n /\ \A k \in 1 .. Len(s) - n : b[k] = s[n + k]
  <2>1. /\ b \in Seq(S) /\ Len(b) = IF n + 1 <= Len(s) THEN Len(s) - (n + 1) + 1 ELSE 0
        /\ \A k \in 1 .. Len(s) - (n + 1) + 1 : b[k] = s[n + 1 + k - 1]
    BY <1>1, <1>2, SubSeqProperties
  <2> HIDE DEF b
  <2>2. Len(b) = Len(s) - n /\ Len(s) - (n + 1) + 1 = Len(s) - n
    <3>1. CASE n + 1 <= Len(s)
      BY <1>1, <2>1, <3>1
    <3>2. CASE ~(n + 1 <= Len(s))
      <4>0. n \in Int /\ 1 <= n /\ n <= Len(s)
        BY <1>1
      <4>1. n = Len(s)
        <5>1. \A x, y \in Int : x <= y /\ ~(x + 1 <= y) => x = y
          OBVIOUS
        <5>2. Len(s) \in Int
          BY <1>1
        <5> QED BY <3>2, <4>0, <5>1, <5>2
      <4>2. Len(b) = 0
        BY <2>1, <3>2
      <4>3. Len(s) - n = 0 /\ Len(s) - (n + 1) + 1 = 0
        BY <1>1, <4>1
      <4> QED BY <4>2, <4>3
    <3> QED BY <3>1, <3>2
  <2>3. \A k \in 1 .. Len(s) - n : n + 1 + k - 1 = n + k
    OBVIOUS
  <2> QED BY <2>1, <2>2, <2>3
<1> HIDE DEF a, b
<1>5. /\ a \o b \in Seq(S) /\ Len(a \o b) = Len(s) - 1
      /\ \A k \in 1 .. Len(s) - 1 : (a \o b)[k] = IF k <= n - 1 THEN a[k] ELSE b[k - (n - 1)]
  <2>1. /\ a \o b \in Seq(S) /\ Len(a \o b) = Len(a) + Len(b)
        /\ \A k \in 1 .. Len(a) + Len(b) : (a \o b)[k] = IF k <= Len(a) THEN a[k] ELSE b[k - Len(a)]
    BY <1>3, <1>4, ConcatProperties
  <2>2. Len(a) + Len(b) = Len(s) - 1
    BY <1>1, <1>3, <1>4
  <2> QED BY <1>3, <2>1, <2>2
<1>6. \A k \in 1 .. Len(s) - 1 : (a \o b)[k] = IF k < n THEN s[k] ELSE s[k + 1]
  BY <1>1, <1>3, <1>4, <1>5
<1> QED BY <1>5, <1>6 DEF RemoveAt, a, b

-----------------------------------------------------------------------------
(* The cache: every entry holds what its key says, and there are at most    *)
(* CacheSize of them.                                                       *)

\* The folds Min and Max on the pairs the loader and the cache take them of.
LEMMA MinPair == \A a, b \in Int : Min({a, b}) = IF a <= b THEN a ELSE b
<1> SUFFICES ASSUME NEW a \in Int, NEW b \in Int PROVE Min({a, b}) = IF a <= b THEN a ELSE b
  OBVIOUS
<1>1. \E x \in {a, b} : \A y \in {a, b} : x <= y
  OBVIOUS
<1>2. Min({a, b}) \in {a, b} /\ \A y \in {a, b} : Min({a, b}) <= y
  BY <1>1 DEF Min
<1> QED BY <1>2

\* And the greater one.
LEMMA MaxPair == \A a, b \in Int : Max({a, b}) = IF a >= b THEN a ELSE b
<1> SUFFICES ASSUME NEW a \in Int, NEW b \in Int PROVE Max({a, b}) = IF a >= b THEN a ELSE b
  OBVIOUS
<1>1. \E x \in {a, b} : \A y \in {a, b} : x >= y
  OBVIOUS
<1>2. Max({a, b}) \in {a, b} /\ \A y \in {a, b} : Max({a, b}) >= y
  BY <1>1 DEF Max
<1> QED BY <1>2

\* Every entry holds what its key says.
CacheOK(c) == c \in Seq(Entry) /\ Len(c) <= CacheSize /\ \A k \in DOMAIN c : c[k].pixels = c[k].key

\* What is left of a cache.
LEMMA FewerEntries ==
  ASSUME NEW c, CacheOK(c), NEW D
  PROVE  CacheOK(Dropping(c, D))
<1> DEFINE r == Dropping(c, D)
<1>1. c \in Seq(Entry) /\ Len(c) \in Nat /\ DOMAIN c = 1 .. Len(c) /\ CacheSize \in Nat
  BY LenProperties, ViewAssumption DEF CacheOK
<1>2. r \in Seq(Entry) /\ Selects(c, D, Len(c), r)
  BY <1>1, DroppingIs
<1> HIDE DEF r
<1>3. Len(r) \in Nat /\ DOMAIN r = 1 .. Len(r)
  BY <1>2, LenProperties
<1>4. PICK at \in [1 .. Len(r) -> 1 .. Len(c)] : \A k \in 1 .. Len(r) : r[k] = c[at[k]]
  BY <1>2 DEF Selects
<1>5. \A k \in DOMAIN r : r[k].pixels = r[k].key
  BY <1>1, <1>3, <1>4 DEF CacheOK
<1>6. Len(r) <= Len(c)
  BY <1>2 DEF Selects
<1>7. CacheOK(r)
  BY <1>1, <1>2, <1>3, <1>5, <1>6 DEF CacheOK
<1> QED BY <1>7 DEF r

\* Entries of an older identity go.
LEMMA PurgeIs == ASSUME NEW c, CacheOK(c), NEW key PROVE CacheOK(Purge(c, key))
  BY FewerEntries DEF Purge

\* Where an entry with the key is, or 0.
LEMMA PlaceOfIs ==
  ASSUME NEW c, NEW key
  PROVE  LET k == PlaceOf(c, key) IN
         \/ k = 0
         \/ k \in DOMAIN c /\ c[k].key = key
  BY DEF PlaceOf

\* A hit becomes the newest entry.
LEMMA TouchIs == ASSUME NEW c, CacheOK(c), NEW key PROVE CacheOK(Touch(c, key))
<1> DEFINE k == PlaceOf(c, key)
           r == RemoveAt(c, k)
           a == Append(r, c[k])
<1>1. c \in Seq(Entry) /\ Len(c) \in Nat /\ DOMAIN c = 1 .. Len(c) /\ CacheSize \in Nat
  BY LenProperties, ViewAssumption DEF CacheOK
<1>2. CASE k = 0
  BY <1>2 DEF Touch
<1>3. CASE k # 0
  <2>1. k \in 1 .. Len(c) /\ Touch(c, key) = a
    BY <1>1, <1>3, PlaceOfIs DEF Touch
  <2> HIDE DEF k
  <2>2. /\ r \in Seq(Entry) /\ Len(r) = Len(c) - 1
        /\ \A j \in 1 .. Len(c) - 1 : r[j] = IF j < k THEN c[j] ELSE c[j + 1]
    BY <1>1, <2>1, RemoveAtIs
  <2>3. c[k] \in Entry /\ c[k].pixels = c[k].key
    BY <1>1, <2>1 DEF CacheOK
  <2> HIDE DEF r
  <2>4. /\ a \in Seq(Entry) /\ Len(a) = Len(c) /\ a[Len(c)] = c[k]
        /\ \A j \in 1 .. Len(c) - 1 : a[j] = r[j]
    <3>1. /\ a \in Seq(Entry) /\ Len(a) = Len(r) + 1 /\ a[Len(r) + 1] = c[k]
          /\ \A j \in 1 .. Len(r) : a[j] = r[j]
      BY <2>2, <2>3, AppendProperties
    <3> HIDE DEF a
    <3> QED BY <1>1, <2>1, <2>2, <3>1
  <2> HIDE DEF a
  <2>5. \A j \in DOMAIN a : a[j].pixels = a[j].key
    <3>1. DOMAIN a = 1 .. Len(c)
      BY <2>4, LenProperties
    <3>2. \A j \in 1 .. Len(c) - 1 : r[j].pixels = r[j].key
      BY <1>1, <2>1, <2>2 DEF CacheOK
    <3> QED BY <1>1, <2>3, <2>4, <3>1, <3>2
  <2> QED BY <2>1, <2>4, <2>5 DEF CacheOK
<1> QED BY <1>2, <1>3

\* What a reader made of what was asked for comes in, and the oldest entry may go.
LEMMA AddToCacheIs ==
  ASSUME NEW c, CacheOK(c), NEW key \in Image
  PROVE  CacheOK(AddToCache(c, key, key))
<1> DEFINE others == Dropping(c, {e \in ToSet(c) : e.key = key})
           e == [key |-> key, pixels |-> key]
           a == Append(others, e)
           m == Max({1, Len(a) - CacheSize + 1})
           q == SubSeq(a, m, Len(a))
<1>1. CacheOK(others) /\ CacheSize \in Nat /\ CacheSize > 0
  BY FewerEntries, ViewAssumption
<1>2. AddToCache(c, key, key) = IF ~Admitted(key) THEN others ELSE q
  BY DEF AddToCache
<1> HIDE DEF others
<1>3. others \in Seq(Entry) /\ Len(others) \in Nat /\ e \in Entry
  BY <1>1, LenProperties DEF CacheOK, Entry
<1>4. /\ a \in Seq(Entry) /\ Len(a) = Len(others) + 1 /\ a[Len(others) + 1] = e
      /\ \A j \in 1 .. Len(others) : a[j] = others[j]
  BY <1>3, AppendProperties
<1>5. \A j \in 1 .. Len(a) : a[j] \in Entry /\ a[j].pixels = a[j].key
  <2>1. \A j \in 1 .. Len(others) : others[j] \in Entry /\ others[j].pixels = others[j].key
    BY <1>1, <1>3, LenProperties DEF CacheOK
  <2> QED BY <1>3, <1>4, <2>1
<1> HIDE DEF a
<1>6. m \in Int /\ m >= 1 /\ m >= Len(a) - CacheSize + 1 /\ m <= Len(a) /\ Len(a) \in Nat
  <2>1. Len(a) \in Nat /\ Len(a) >= 1
    BY <1>3, <1>4
  <2>2. PICK n \in Int : n = Len(a) - CacheSize + 1
    BY <1>1, <2>1
  <2>3. m = IF 1 >= n THEN 1 ELSE n
    BY <2>2, MaxPair
  <2> HIDE DEF m
  <2> QED BY <1>1, <2>1, <2>2, <2>3
<1> HIDE DEF m
<1>7. /\ q \in Seq(Entry) /\ Len(q) = Len(a) - m + 1
      /\ \A j \in 1 .. Len(a) - m + 1 : q[j] = a[m + j - 1]
  BY <1>5, <1>6, SubSeqProperties
<1> HIDE DEF q
<1>8. CacheOK(q)
  <2>1. DOMAIN q = 1 .. Len(a) - m + 1
    BY <1>7, LenProperties
  <2>2. \A j \in 1 .. Len(a) - m + 1 : m + j - 1 \in 1 .. Len(a)
    BY <1>6
  <2>3. \A j \in 1 .. Len(a) - m + 1 : q[j].pixels = q[j].key
    <3> SUFFICES ASSUME NEW j \in 1 .. Len(a) - m + 1 PROVE q[j].pixels = q[j].key
      OBVIOUS
    <3>1. PICK i \in 1 .. Len(a) : i = m + j - 1
      BY <2>2
    <3>2. q[j] = a[i]
      BY <1>7, <3>1
    <3> QED BY <1>5, <3>2
  <2>4. Len(q) <= CacheSize
    BY <1>1, <1>6, <1>7
  <2> QED BY <1>7, <2>1, <2>3, <2>4 DEF CacheOK
<1> QED BY <1>1, <1>2, <1>8

\* A hit is what was looked for.
LEMMA PixelsIs ==
  ASSUME NEW v, CacheOK(v.cache), v.uncached.pixels = v.uncached.key, NEW key
  PROVE  Pixels(v, key) \in {key, NoImage} /\ (CachedFrame(v, key) => Pixels(v, key) = key)
  BY PlaceOfIs DEF Pixels, CachedFrame, CacheOK

-----------------------------------------------------------------------------
(* The loader as the window calls it: the queue keeps its capacity, and the *)
(* request in work stays in work.                                           *)

\* The loader, typed.
LoaderOK(l) ==
  /\ l \in [queue : Seq(Request), active : Request \cup {NoRequest}, gen : Nat, running : BOOLEAN]
  /\ Len(l.queue) <= Capacity
\* The request in work stays in work.
SameWork(l, m) == l.active \in Request => m.active \in Request

\* What the places of a queue hold.
LEMMA QueueFacts ==
  ASSUME NEW q \in Seq(Request)
  PROVE  /\ DOMAIN q = 1 .. Len(q) /\ Len(q) \in Nat
         /\ \A k \in DOMAIN q : /\ q[k] \in Request /\ q[k].id \in Ids /\ q[k].prio \in Priority
                                /\ q[k].gen \in Nat /\ q[k].cancelled \in BOOLEAN
<1>1. DOMAIN q = 1 .. Len(q) /\ Len(q) \in Nat /\ \A k \in DOMAIN q : q[k] \in Request
  BY LenProperties, ElementOfSeq
<1>2. \A r \in Request : r.id \in Ids /\ r.prio \in Priority /\ r.gen \in Nat /\ r.cancelled \in BOOLEAN
  BY DEF Request
<1> QED BY <1>1, <1>2

\* No request is none.
LEMMA NothingAsked ==
  NoRequest \notin Request /\ [NoRequest EXCEPT !.cancelled = NoRequest.cancelled] = NoRequest
<1>1. NoRequest \in [id : {NoId}, prio : {0}, gen : {0}, cancelled : BOOLEAN]
  BY DEF NoRequest
<1>2. NoRequest \notin Request
  BY LoaderAssumption DEF NoRequest, Request, NoId, Ids
<1> QED BY <1>1, <1>2 DEF NoRequest

\* A queue that is not empty has a most urgent request and a victim.
LEMMA MostUrgentIs ==
  ASSUME NEW q \in Seq(Request), q # <<>>
  PROVE  MostUrgent(q) \in 1 .. Len(q)
<1> DEFINE P == {q[j].prio : j \in DOMAIN q}
<1>1. DOMAIN q = 1 .. Len(q) /\ Len(q) \in Nat /\ \A k \in DOMAIN q : q[k].prio \in Priority
  BY QueueFacts
<1>2. Len(q) # 0
  BY EmptySeq
<1>3. P \subseteq Nat /\ P # {}
  BY <1>1, <1>2 DEF Priority
<1>4. PICK p \in P : \A x \in P : p <= x
  BY <1>3, LeastNumber
<1> DEFINE K == {j \in DOMAIN q : q[j].prio = p}
<1>5. K \subseteq Nat /\ K # {}
  BY <1>1
<1>6. PICK k \in K : \A j \in K : k <= j
  BY <1>5, LeastNumber
<1>7. \A j \in DOMAIN q : q[k].prio < q[j].prio \/ (q[k].prio = q[j].prio /\ k <= j)
  <2> SUFFICES ASSUME NEW j \in DOMAIN q PROVE q[k].prio < q[j].prio \/ (q[k].prio = q[j].prio /\ k <= j)
    OBVIOUS
  <2>1. q[j].prio \in P /\ q[j].prio \in Nat /\ p \in Nat /\ q[k].prio = p
    BY <1>3, <1>4, <1>6
  <2>2. p = q[j].prio => k <= j
    BY <1>6
  <2>3. p <= q[j].prio
    BY <1>4, <2>1
  <2> HIDE DEF P, K
  <2> QED BY <2>1, <2>2, <2>3
<1>8. \E i \in DOMAIN q : \A j \in DOMAIN q : q[i].prio < q[j].prio \/ (q[i].prio = q[j].prio /\ i <= j)
  BY <1>6, <1>7
<1>9. MostUrgent(q) \in DOMAIN q
  BY <1>8 DEF MostUrgent
<1> QED BY <1>1, <1>9

LEMMA VictimIs ==
  ASSUME NEW q \in Seq(Request), q # <<>>
  PROVE  Victim(q) \in 1 .. Len(q)
<1> DEFINE P == {q[j].prio : j \in DOMAIN q}
<1>1. DOMAIN q = 1 .. Len(q) /\ Len(q) \in Nat /\ \A k \in DOMAIN q : q[k].prio \in Priority
  BY QueueFacts
<1>2. Len(q) # 0
  BY EmptySeq
<1>3. P \subseteq Nat /\ P # {} /\ \A x \in P : x <= 3
  BY <1>1, <1>2 DEF Priority
<1>4. PICK p \in P : \A x \in P : x <= p
  BY <1>3, GreatestNumber
<1> DEFINE K == {j \in DOMAIN q : q[j].prio = p}
<1>5. K \subseteq Nat /\ K # {}
  BY <1>1
<1>6. PICK k \in K : \A j \in K : k <= j
  BY <1>5, LeastNumber
<1>7. \A j \in DOMAIN q : q[k].prio > q[j].prio \/ (q[k].prio = q[j].prio /\ k <= j)
  <2> SUFFICES ASSUME NEW j \in DOMAIN q PROVE q[k].prio > q[j].prio \/ (q[k].prio = q[j].prio /\ k <= j)
    OBVIOUS
  <2>1. q[j].prio \in P /\ q[j].prio \in Nat /\ p \in Nat /\ q[k].prio = p
    BY <1>3, <1>4, <1>6
  <2>2. p = q[j].prio => k <= j
    BY <1>6
  <2>3. p >= q[j].prio
    BY <1>4, <2>1
  <2> HIDE DEF P, K
  <2> QED BY <2>1, <2>2, <2>3
<1>8. \E i \in DOMAIN q : \A j \in DOMAIN q : q[i].prio > q[j].prio \/ (q[i].prio = q[j].prio /\ i <= j)
  BY <1>6, <1>7
<1>9. Victim(q) \in DOMAIN q
  BY <1>8 DEF Victim
<1> QED BY <1>1, <1>9

\* add_task keeps the capacity, and its answer is a request for what was asked.
LEMMA AddRequestIs ==
  ASSUME NEW l, LoaderOK(l), NEW id \in Ids, NEW p \in Priority, NEW g \in Nat
  PROVE  LET a == AddRequest(l, id, p, g) IN
         /\ LoaderOK(a.loader) /\ SameWork(l, a.loader)
         /\ a.id \in Ids /\ a.id.file = id.file /\ a.id.frame = id.frame
         /\ a.dropped \in Request \cup {NoRequest}
<1> DEFINE a == AddRequest(l, id, p, g)
           same == Duplicates(l, id, g)
           d    == CHOOSE x \in same : TRUE
           req  == [id |-> id, prio |-> p, gen |-> g, cancelled |-> FALSE]
           long == Append(l.queue, req)
           k    == Victim(long)
           now  == [l EXCEPT !.gen = Max({@, g})]
<1>1. /\ l.queue \in Seq(Request) /\ l.active \in Request \cup {NoRequest} /\ l.gen \in Nat /\ l.running \in BOOLEAN
      /\ Len(l.queue) <= Capacity /\ Capacity \in Nat /\ Len(l.queue) \in Nat /\ req \in Request
      /\ DOMAIN l.queue = 1 .. Len(l.queue)
  BY LenProperties, LoaderAssumption DEF LoaderOK, Request
<1>2. now.gen \in Nat /\ LoaderOK(now) /\ now.queue = l.queue /\ now.active = l.active
  <2>1. Max({l.gen, g}) \in Nat
    BY <1>1, MaxPair
  <2> QED BY <2>1 DEF LoaderOK
<1> HIDE DEF now
<1>3. CASE ~l.running
  BY <1>3 DEF AddRequest, SameWork
<1>4. CASE l.running /\ same # {}
  <2>1. d \in DOMAIN l.queue /\ l.queue[d].id.file = id.file /\ l.queue[d].id.frame = id.frame
    BY <1>4 DEF Duplicates
  <2>2. a = [loader |-> [now EXCEPT !.queue[d].prio = Min({@, p})], id |-> l.queue[d].id, dropped |-> NoRequest]
    BY <1>4 DEF AddRequest, now
  <2> HIDE DEF d, a
  <2>3. l.queue[d] \in Request /\ l.queue[d].id \in Ids /\ l.queue[d].prio \in Priority
    BY <1>1, <2>1, QueueFacts
  <2>4. PICK n : n = Min({l.queue[d].prio, p})
    OBVIOUS
  <2>5. n \in Priority
    BY <2>3, <2>4, MinPair DEF Priority
  <2>6. PICK q : q = [l.queue EXCEPT ![d] = [l.queue[d] EXCEPT !.prio = n]]
    OBVIOUS
  <2>7. q \in Seq(Request) /\ Len(q) = Len(l.queue)
    <3>1. [l.queue[d] EXCEPT !.prio = n] \in Request
      BY <2>3, <2>5 DEF Request
    <3> QED BY <1>1, <2>1, <2>6, <3>1, ExceptSeq
  <2>8. a.loader = [now EXCEPT !.queue = q]
    BY <1>2, <2>2, <2>4, <2>6
  <2>9. LoaderOK(a.loader) /\ a.loader.active = l.active
    BY <1>1, <1>2, <2>7, <2>8 DEF LoaderOK
  <2> QED BY <2>1, <2>2, <2>3, <2>9 DEF SameWork, a
<1>5. CASE l.running /\ same = {}
  <2>1. a = [loader  |-> [now EXCEPT !.queue = IF Overflows(long) THEN RemoveAt(long, k) ELSE long], id |-> id,
             dropped |-> IF Overflows(long) THEN long[k] ELSE NoRequest]
    BY <1>5 DEF AddRequest, now
  <2>2. long \in Seq(Request) /\ Len(long) = Len(l.queue) + 1
    BY <1>1, AppendProperties
  <2> HIDE DEF long, a
  <2>3. long # <<>>
    BY <1>1, <2>2, EmptySeq
  <2>4. k \in 1 .. Len(long) /\ long[k] \in Request
    BY <2>2, <2>3, VictimIs, QueueFacts
  <2> HIDE DEF k
  <2>5. RemoveAt(long, k) \in Seq(Request) /\ Len(RemoveAt(long, k)) = Len(l.queue)
    BY <1>1, <2>2, <2>4, RemoveAtIs
  <2>6. PICK q : q = IF Overflows(long) THEN RemoveAt(long, k) ELSE long
    OBVIOUS
  <2>7. q \in Seq(Request) /\ Len(q) <= Capacity
    BY <1>1, <2>2, <2>5, <2>6 DEF Overflows
  <2>8. LoaderOK(a.loader) /\ a.loader.active = l.active
    BY <1>2, <2>1, <2>6, <2>7 DEF LoaderOK
  <2> QED BY <2>1, <2>4, <2>8 DEF SameWork, a
<1> QED BY <1>1, <1>3, <1>4, <1>5

\* What is cancelled keeps its place.
LEMMA CancelRequestIs ==
  ASSUME NEW l, LoaderOK(l), NEW id
  PROVE  LoaderOK(CancelRequest(l, id)) /\ SameWork(l, CancelRequest(l, id))
<1> DEFINE q == [k \in DOMAIN l.queue |->
                   IF l.queue[k].id = id THEN [l.queue[k] EXCEPT !.cancelled = TRUE] ELSE l.queue[k]]
           a == [l.active EXCEPT !.cancelled = @ \/ (l.active # NoRequest /\ l.active.id = id)]
<1>1. CancelRequest(l, id) = [l EXCEPT !.queue = q, !.active = a]
  BY DEF CancelRequest, LoaderOK
<1>2. /\ l.queue \in Seq(Request) /\ DOMAIN l.queue = 1 .. Len(l.queue) /\ Len(l.queue) \in Nat
      /\ \A k \in DOMAIN l.queue : l.queue[k] \in Request
  BY QueueFacts DEF LoaderOK
<1>3. q \in [1 .. Len(l.queue) -> Request]
  BY <1>2 DEF Request
<1>4. q \in Seq(Request) /\ Len(q) = Len(l.queue)
  BY <1>2, <1>3, LenProperties, SeqDef
<1>5. a \in Request \cup {NoRequest} /\ (l.active \in Request => a \in Request)
  <2>1. CASE l.active = NoRequest
    <3>1. a = [NoRequest EXCEPT !.cancelled = NoRequest.cancelled]
      BY <2>1 DEF NoRequest
    <3> QED BY <2>1, <3>1, NothingAsked
  <2>2. CASE l.active \in Request
    BY <2>2 DEF Request
  <2> QED BY <2>1, <2>2 DEF LoaderOK
<1> HIDE DEF q, a
<1> QED BY <1>1, <1>4, <1>5 DEF LoaderOK, SameWork

\* The queue is emptied, and the work of an earlier generation cancelled.
LEMMA ClearTasksIs ==
  ASSUME NEW l, LoaderOK(l), NEW g \in Nat
  PROVE  LoaderOK(ClearTasks(l, g)) /\ SameWork(l, ClearTasks(l, g))
<1> DEFINE now == Max({l.gen, g})
           a == [l.active EXCEPT !.cancelled = @ \/ (l.active # NoRequest /\ l.active.gen < now)]
<1>1. ClearTasks(l, g) = [l EXCEPT !.gen = now, !.queue = <<>>, !.active = a]
  BY DEF ClearTasks, LoaderOK
<1>2. now \in Nat
  BY MaxPair DEF LoaderOK
<1> HIDE DEF now
<1>3. a \in Request \cup {NoRequest} /\ (l.active \in Request => a \in Request)
  <2>1. CASE l.active = NoRequest
    <3>1. a = [NoRequest EXCEPT !.cancelled = NoRequest.cancelled]
      BY <2>1 DEF NoRequest
    <3> QED BY <2>1, <3>1, NothingAsked
  <2>2. CASE l.active \in Request
    BY <2>2 DEF Request
  <2> QED BY <2>1, <2>2 DEF LoaderOK
<1>4. PICK q : q = <<>>
  OBVIOUS
<1>5. q \in Seq(Request) /\ Len(q) <= Capacity
  BY <1>4, EmptySeq, LoaderAssumption
<1> HIDE DEF a
<1> QED BY <1>1, <1>2, <1>3, <1>4, <1>5 DEF LoaderOK, SameWork

\* The thread is told to end.
LEMMA RequestStopIs ==
  ASSUME NEW l, LoaderOK(l)
  PROVE  LoaderOK(RequestStop(l)) /\ SameWork(l, RequestStop(l))
<1> DEFINE a == [l.active EXCEPT !.cancelled = l.active # NoRequest]
<1>1. RequestStop(l) = [l EXCEPT !.running = FALSE, !.queue = <<>>, !.active = a]
  BY DEF RequestStop, LoaderOK
<1>3. a \in Request \cup {NoRequest} /\ (l.active \in Request => a \in Request)
  <2>1. CASE l.active = NoRequest
    <3>1. a = [NoRequest EXCEPT !.cancelled = NoRequest.cancelled]
      BY <2>1 DEF NoRequest
    <3> QED BY <2>1, <3>1, NothingAsked
  <2>2. CASE l.active \in Request
    BY <2>2 DEF Request
  <2> QED BY <2>1, <2>2 DEF LoaderOK
<1>4. PICK q : q = <<>>
  OBVIOUS
<1>5. q \in Seq(Request) /\ Len(q) <= Capacity
  BY <1>4, EmptySeq, LoaderAssumption
<1> HIDE DEF a
<1> QED BY <1>1, <1>3, <1>4, <1>5 DEF LoaderOK, SameWork

-----------------------------------------------------------------------------
(* The window: what it shows, the frame bar and the remembered identities.  *)

\* The image b with another frame.
FrameOf(b, n) == [file |-> b.file, frame |-> n, version |-> b.version]
OneContext(v) == \A c, d \in v.contexts : c.id = d.id => c = d
FrameOK(v) ==
  /\ v.frame.pixels = NoImage => v.frame.index = 0
  /\ v.frame.pixels # NoImage => v.frame.pixels = FrameOf(v.frame.base, v.frame.index)
  /\ v.frame.request # NoId =>
       /\ v.frame.request.file = v.frame.base.file /\ v.frame.request.frame = v.sought
       /\ \A c \in v.contexts : c.id = v.frame.request => c.version = v.frame.base.version
Good(v) ==
  /\ v \in View /\ CacheOK(v.cache) /\ v.uncached.pixels = v.uncached.key
  /\ OneContext(v) /\ FrameOK(v) /\ IsFiniteSet(v.pending)
  /\ v.held => v.frame = NoFrame
Steady(v) ==
  /\ v.held => v.screen = "held"
  /\ ~v.held => v.frame.base.file = v.current
  /\ v.screen = "image" => v.pixels = FrameOf(v.frame.base, v.frame.index)
\* What a request changes in the window.
Asked(v, u) ==
  /\ u.current = v.current /\ u.gen = v.gen /\ u.held = v.held /\ u.closing = v.closing
  /\ u.sought = v.sought
  /\ u.frame \in {v.frame, [v.frame EXCEPT !.request = NoId]}
  /\ \/ u.screen = v.screen /\ u.pixels = v.pixels
     \/ ~v.held /\ u.screen = "error"

\* The disk and the results on their way, typed.
DiskOK == disk \in [Files -> Nat \ {0}] /\ results \in Seq(Result)

\* The key of a frame of a file.
LEMMA KeyIs == ASSUME DiskOK, NEW f \in Files, NEW n \in Frames PROVE Key(f, n) \in Image
  BY DEF DiskOK, Key, Image

\* A list names finitely many identifiers.
LEMMA FiniteIds ==
  ASSUME NEW S, NEW q \in Seq(S)
  PROVE  IsFiniteSet({q[k].id : k \in DOMAIN q})
<1> DEFINE D == 1 .. Len(q)
           T == {q[k].id : k \in D}
           g == [k \in D |-> q[k].id]
<1>1. Len(q) \in Nat /\ DOMAIN q = D
  BY LenProperties
<1>2. IsFiniteSet(D)
  BY <1>1, FS_Interval
<1>3. g \in Surjection(D, T)
  BY DEF Surjection
<1> HIDE DEF g, D
<1>4. IsFiniteSet(T)
  <2> HIDE DEF T
  <2> QED BY <1>2, <1>3, FS_Surjection
<1> QED BY <1>1, <1>4

\* There is an identifier that nothing refers to.
LEMMA FreshIs ==
  ASSUME NEW w, LoaderOK(w.l), Good(w.v), DiskOK, NEW f \in Files, NEW n \in Frames
  PROVE  LET id == Fresh(w, f, n) IN id \in Ids /\ id.file = f /\ id.frame = n
<1> DEFINE carried == Carried(w.l)
           waiting == {results[k].id : k \in DOMAIN results}
           used == InUse(w.l) \cup w.v.pending \cup {w.v.frame.request}
           id(k) == [file |-> f, frame |-> n, nth |-> k]
           N    == Cardinality(used)
           free == {k \in 1 .. N + 1 : id(k) \notin used}
<1>1. IsFiniteSet(carried)
  <2>3. IsFiniteSet({w.l.queue[k].id : k \in DOMAIN w.l.queue})
    BY FiniteIds DEF LoaderOK
  <2> QED BY <2>3, FS_AddElement DEF Carried
<1>2. IsFiniteSet(waiting)
  BY FiniteIds DEF DiskOK
<1>3. IsFiniteSet(used)
  <2>1. IsFiniteSet(carried \cup waiting)
    BY <1>1, <1>2, FS_Union
  <2>2. IsFiniteSet(carried \cup waiting \cup w.v.pending)
    BY <2>1, FS_Union DEF Good
  <2>3. used = (carried \cup waiting \cup w.v.pending) \cup {w.v.frame.request}
    BY DEF InUse
  <2> HIDE DEF carried, waiting, used
  <2> QED BY <2>2, <2>3, FS_AddElement
<1>4. N \in Nat
  BY <1>3, FS_CardinalityType
<1>5. Fresh(w, f, n) = [file |-> f, frame |-> n, nth |-> Min(free)]
  BY DEF Fresh
<1> HIDE DEF used, N
<1>6. free # {}
  <2> SUFFICES ASSUME \A k \in 1 .. N + 1 : id(k) \in used PROVE FALSE
    OBVIOUS
  <2> DEFINE g == [k \in 1 .. N + 1 |-> id(k)]
  <2>1. g \in [1 .. N + 1 -> used]
    OBVIOUS
  <2>2. IsFiniteSet(1 .. N + 1) /\ Cardinality(1 .. N + 1) = N + 1
    BY <1>4, FS_Interval
  <2> HIDE DEF g
  <2>3. \E x, y \in 1 .. N + 1 : x # y /\ g[x] = g[y]
    <3>1. Cardinality(used) < Cardinality(1 .. N + 1)
      BY <1>4, <2>2 DEF N
    <3> HIDE DEF id
    <3> QED BY <1>3, <2>1, <2>2, <3>1, FS_PigeonHole
  <2>4. \A x, y \in 1 .. N + 1 : g[x] = g[y] => x = y
    BY DEF g
  <2> QED BY <2>3, <2>4
<1>7. free \subseteq Nat \ {0}
  BY <1>4
<1> HIDE DEF free
<1>8. \E x \in free : \A y \in free : x <= y
  BY <1>6, <1>7, LeastNumber
<1>9. PICK m : m = Min(free)
  OBVIOUS
<1>10. m \in Nat \ {0}
  BY <1>7, <1>8, <1>9 DEF Min
<1>11. Fresh(w, f, n) = [file |-> f, frame |-> n, nth |-> m]
  BY <1>5, <1>9
<1> QED BY <1>10, <1>11 DEF Ids

\* A context that goes.
LEMMA WithoutIs ==
  ASSUME NEW v, Good(v), NEW id
  PROVE  LET u == Without(v, id) IN
         Good(u) /\ u = [v EXCEPT !.contexts = u.contexts] /\ u.contexts \subseteq v.contexts
<1> DEFINE C == {c \in v.contexts : c.id # id}
           u == [v EXCEPT !.contexts = C]
<1>1. Without(v, id) = u
  BY DEF Without
<1>2. v \in View /\ C \subseteq v.contexts
  BY DEF Good
<1> HIDE DEF C
<1>3. u \in View /\ u.contexts = C
  BY <1>2 DEF View
<1>4. /\ u.cache = v.cache /\ u.uncached = v.uncached /\ u.frame = v.frame /\ u.pending = v.pending
      /\ u.held = v.held /\ u.sought = v.sought
  BY <1>2 DEF View
<1> HIDE DEF u
<1>5. OneContext(u) /\ FrameOK(u)
  BY <1>2, <1>3, <1>4 DEF Good, OneContext, FrameOK
<1>6. Good(u)
  BY <1>3, <1>4, <1>5 DEF Good
<1> QED BY <1>1, <1>2, <1>3, <1>6 DEF u

\* on_image_ready for an error.
LEMMA OnErrorIs ==
  ASSUME NEW v, Good(v), NEW r, r.id \in Ids
  PROVE  Good(OnError(v, r)) /\ Asked(v, OnError(v, r))
<1> DEFINE u == Without(v, r.id)
           a == [u EXCEPT !.frameRequests = @ \ {r.id}, !.frame.request = IF @ = r.id THEN NoId ELSE @]
           b == [u EXCEPT !.pending = @ \ {r.id},
                          !.screen = IF r.id.file = v.current THEN "error" ELSE @,
                          !.pixels = IF r.id.file = v.current THEN NoImage ELSE @]
<1>1. Good(u) /\ u = [v EXCEPT !.contexts = u.contexts] /\ v \in View /\ Good(v)
  BY WithoutIs DEF Good
<1> HIDE DEF u
<1>2. /\ u \in View /\ u.current = v.current /\ u.gen = v.gen /\ u.held = v.held /\ u.closing = v.closing
      /\ u.sought = v.sought /\ u.cache = v.cache /\ u.uncached = v.uncached /\ u.frame = v.frame
      /\ u.screen = v.screen /\ u.pixels = v.pixels /\ u.pending = v.pending
  BY <1>1 DEF View, Good
<1>3. CASE Discarded(v, r)
  BY <1>1, <1>3 DEF OnError, Asked
<1>4. CASE ~Discarded(v, r) /\ r.id \in v.frameRequests
  <2>1. OnError(v, r) = a
    BY <1>4 DEF OnError, u
  <2>2. PICK g : g = [u.frame EXCEPT !.request = IF @ = r.id THEN NoId ELSE @]
    OBVIOUS
  <2>3. /\ g \in FrameBar /\ g \in {v.frame, [v.frame EXCEPT !.request = NoId]} /\ g.base = u.frame.base
        /\ g.pixels = u.frame.pixels /\ g.index = u.frame.index /\ g.request \in {u.frame.request, NoId}
    <3>1. u.frame \in FrameBar
      BY <1>2 DEF View
    <3> QED BY <1>2, <2>2, <3>1 DEF FrameBar
  <2>4. a = [u EXCEPT !.frameRequests = @ \ {r.id}, !.frame = g]
    BY <2>2
  <2> HIDE DEF a
  <2>5. /\ a \in View /\ a.current = u.current /\ a.gen = u.gen /\ a.held = u.held /\ a.closing = u.closing
        /\ a.sought = u.sought /\ a.cache = u.cache /\ a.uncached = u.uncached /\ a.frame = g
        /\ a.screen = u.screen /\ a.pixels = u.pixels /\ a.pending = u.pending /\ a.contexts = u.contexts
    BY <1>2, <2>3, <2>4 DEF View
  <2>6. OneContext(a) /\ FrameOK(a)
    BY <1>1, <2>3, <2>5 DEF Good, OneContext, FrameOK
  <2>7. ~v.held
    BY <1>4 DEF Discarded
  <2>8. Good(a)
    BY <1>1, <1>2, <2>5, <2>6, <2>7 DEF Good
  <2> QED BY <1>2, <2>1, <2>3, <2>5, <2>8 DEF Asked
<1>5. CASE ~Discarded(v, r) /\ r.id \notin v.frameRequests
  <2>1. OnError(v, r) = b
    BY <1>5 DEF OnError, u
  <2>2. ~v.held /\ v.held \in BOOLEAN
    BY <1>1, <1>5 DEF Discarded, View
  <2>3. /\ b \in View /\ b.current = u.current /\ b.gen = u.gen /\ b.held = u.held /\ b.closing = u.closing
        /\ b.sought = u.sought /\ b.cache = u.cache /\ b.uncached = u.uncached /\ b.frame = u.frame
        /\ b.contexts = u.contexts /\ b.pending \subseteq u.pending
        /\ (b.screen = u.screen /\ b.pixels = u.pixels) \/ b.screen = "error"
    BY <1>2 DEF View
  <2> HIDE DEF b
  <2>4. OneContext(b) /\ FrameOK(b)
    BY <1>1, <2>3 DEF Good, OneContext, FrameOK
  <2>5. IsFiniteSet(b.pending)
    BY <1>1, <2>3, FS_Subset DEF Good
  <2>6. Good(b)
    BY <1>1, <1>2, <2>2, <2>3, <2>4, <2>5 DEF Good
  <2> QED BY <1>2, <2>1, <2>2, <2>3, <2>6 DEF Asked
<1> QED BY <1>3, <1>4, <1>5

\* The context and the identifier of a new request, at most.
LEMMA LostIs ==
  ASSUME NEW v, Good(v), NEW S, S \subseteq Ids
  PROVE  LET u == [v EXCEPT !.lost = S] IN Good(u) /\ Asked(v, u)
<1> DEFINE u == [v EXCEPT !.lost = S]
<1>1. v \in View
  BY DEF Good
<1>2. /\ u \in View /\ u.current = v.current /\ u.gen = v.gen /\ u.held = v.held /\ u.closing = v.closing
      /\ u.sought = v.sought /\ u.cache = v.cache /\ u.uncached = v.uncached /\ u.frame = v.frame
      /\ u.screen = v.screen /\ u.pixels = v.pixels /\ u.pending = v.pending /\ u.contexts = v.contexts
  BY <1>1 DEF View
<1> HIDE DEF u
<1>3. OneContext(u) /\ FrameOK(u)
  BY <1>2 DEF Good, OneContext, FrameOK
<1>4. Good(u)
  BY <1>2, <1>3 DEF Good
<1> QED BY <1>2, <1>4 DEF Asked, u

\* Two requests change no more than one.
LEMMA AskedTwice ==
  ASSUME NEW u, NEW v, NEW w, Asked(u, v), Asked(v, w), Good(u)
  PROVE  Asked(u, w)
<1>1. u.frame \in FrameBar
  BY DEF Good, View
<1>2. [[u.frame EXCEPT !.request = NoId] EXCEPT !.request = NoId] = [u.frame EXCEPT !.request = NoId]
  BY <1>1 DEF FrameBar
<1> QED BY <1>2 DEF Asked

\* add_task as the window calls it.
LEMMA AddTaskIs ==
  ASSUME NEW w, LoaderOK(w.l), Good(w.v), DiskOK, NEW f \in Files, NEW n \in Frames, NEW p \in Priority
  PROVE  LET a == AddTask(w, f, n, p) IN
         /\ LoaderOK(a.l) /\ SameWork(w.l, a.l) /\ Good(a.v) /\ Asked(w.v, a.v)
         /\ a.id \in Ids /\ a.id.file = f /\ a.id.frame = n
<1> DEFINE id == Fresh(w, f, n)
           a  == AddRequest(w.l, id, p, w.v.gen)
           u  == IF a.dropped = NoRequest THEN w.v ELSE OnError(w.v, a.dropped)
           x  == IF a.dropped.id = id THEN [u EXCEPT !.lost = @ \cup {id}] ELSE u
<1>1. AddTask(w, f, n, p) = [l |-> a.loader, v |-> x, id |-> a.id]
  BY DEF AddTask
<1>2. id \in Ids /\ id.file = f /\ id.frame = n
  BY FreshIs
<1> HIDE DEF id
<1>3. w.v \in View /\ w.v.gen \in Nat
  BY DEF Good, View
<1>4. /\ LoaderOK(a.loader) /\ SameWork(w.l, a.loader)
      /\ a.id \in Ids /\ a.id.file = f /\ a.id.frame = n
      /\ a.dropped \in Request \cup {NoRequest}
  BY <1>2, <1>3, AddRequestIs
<1> HIDE DEF a
<1>5. Good(u) /\ Asked(w.v, u)
  <2>1. CASE a.dropped = NoRequest
    BY <2>1 DEF Asked
  <2>2. CASE a.dropped # NoRequest
    <3>1. a.dropped.id \in Ids
      BY <1>4, <2>2 DEF Request
    <3> QED BY <2>2, <3>1, OnErrorIs
  <2> QED BY <2>1, <2>2
<1> HIDE DEF u
<1>6. Good(x) /\ Asked(w.v, x)
  <2>1. PICK S : S = u.lost \cup {id}
    OBVIOUS
  <2>2. S \subseteq Ids
    BY <1>2, <1>5, <2>1 DEF Good, View
  <2>3. Good([u EXCEPT !.lost = S]) /\ Asked(u, [u EXCEPT !.lost = S])
    BY <1>5, <2>2, LostIs
  <2>4. Asked(w.v, [u EXCEPT !.lost = S])
    BY <1>5, <2>3, AskedTwice
  <2> QED BY <1>5, <2>1, <2>3, <2>4
<1> HIDE DEF x
<1> QED BY <1>1, <1>4, <1>6

\* What a request must find: the frame bar stands for the file as it is.
Fits(v, f) == v.frame.request # NoId /\ v.frame.base.file = f => v.frame.base.version = disk[f]

\* A request remembers the identity its file has; that of the frame bar still fits.
LEMMA ContextIs ==
  ASSUME NEW v, Good(v), DiskOK, NEW id \in Ids, Fits(v, id.file),
         NEW u \in View, u.contexts = Context(v, id), u.frame = v.frame, u.sought = v.sought
  PROVE  OneContext(u) /\ FrameOK(u)
<1>1. Context(v, id) = {c \in v.contexts : c.id # id} \cup {[id |-> id, version |-> disk[id.file]]}
  <2>1. v \in View
    BY DEF Good
  <2> QED BY <2>1 DEF Context, Without, View
<1>2. OneContext(u)
  BY <1>1 DEF Good, OneContext
<1>3. FrameOK(u)
  BY <1>1 DEF Good, FrameOK, Fits
<1> QED BY <1>2, <1>3

\* And what is remembered is typed.
LEMMA ContextType ==
  ASSUME NEW v, Good(v), DiskOK, NEW id \in Ids
  PROVE  Context(v, id) \subseteq [id : Ids, version : Nat \ {0}]
<1>1. Without(v, id).contexts \subseteq v.contexts /\ v.contexts \subseteq [id : Ids, version : Nat \ {0}]
  BY WithoutIs DEF Good, View
<1>2. disk[id.file] \in Nat \ {0}
  BY DEF DiskOK, Ids
<1> QED BY <1>1, <1>2 DEF Context

\* The window and the loader between two calls.
Fine(w) == w = [l |-> w.l, v |-> w.v] /\ LoaderOK(w.l) /\ Good(w.v)

\* The request for an image.
LEMMA AskImageIs ==
  ASSUME NEW w, Fine(w), DiskOK, NEW f \in Files, NEW p \in Priority, Fits(w.v, f)
  PROVE  LET u == AskImage(w, f, p) IN Fine(u) /\ SameWork(w.l, u.l) /\ Asked(w.v, u.v)
<1> DEFINE a == AddTask(w, f, 0, p)
           C == Context(a.v, a.id)
           P == a.v.pending \cup {a.id}
           L == a.v.lost \cup ({a.id} \cap a.v.frameRequests)
           x == [a.v EXCEPT !.contexts = C, !.pending = P, !.lost = L]
<1>1. /\ LoaderOK(a.l) /\ SameWork(w.l, a.l) /\ Good(a.v) /\ Asked(w.v, a.v)
      /\ a.id \in Ids /\ a.id.file = f
  <2>1. 0 \in Frames
    BY LoaderAssumption
  <2> QED BY <2>1, AddTaskIs DEF Fine
<1>2. a.v \in View /\ w.v.frame \in FrameBar
  BY <1>1 DEF Fine, Good, View
<1>3. AskImage(w, f, p) = [l |-> a.l, v |-> x]
  BY DEF AskImage
<1> HIDE DEF a
<1>4. Fits(a.v, f)
  BY <1>1, <1>2 DEF Fits, Asked, FrameBar
<1>5. C \subseteq [id : Ids, version : Nat \ {0}] /\ P \subseteq Ids /\ L \subseteq Ids /\ IsFiniteSet(P)
  <2>1. IsFiniteSet(P)
    BY <1>1, FS_AddElement DEF Good
  <2> QED BY <1>1, <1>2, <2>1, ContextType DEF View
<1> HIDE DEF P, L
<1>6. x.contexts = C
  <2> HIDE DEF C
  <2> QED BY <1>2 DEF View
<1> HIDE DEF C
<1>7. /\ x \in View /\ x.current = a.v.current /\ x.gen = a.v.gen /\ x.held = a.v.held /\ x.closing = a.v.closing
      /\ x.sought = a.v.sought /\ x.cache = a.v.cache /\ x.uncached = a.v.uncached /\ x.frame = a.v.frame
      /\ x.screen = a.v.screen /\ x.pixels = a.v.pixels /\ x.pending = P
  BY <1>2, <1>5 DEF View
<1> HIDE DEF x
<1>8. OneContext(x) /\ FrameOK(x)
  BY <1>1, <1>4, <1>6, <1>7, ContextIs DEF C
<1>9. Good(x) /\ Asked(w.v, x)
  BY <1>1, <1>5, <1>7, <1>8 DEF Good, Asked
<1> QED BY <1>1, <1>3, <1>9 DEF Fine

\* A look into the cache.
LEMMA LookUpIs ==
  ASSUME NEW v, Good(v), NEW f
  PROVE  Good(LookUp(v, f)) /\ Asked(v, LookUp(v, f))
<1> DEFINE c == Touch(Purge(v.cache, Key(f, 0)), Key(f, 0))
           u == [v EXCEPT !.cache = c]
<1>1. v \in View /\ CacheOK(c)
  BY PurgeIs, TouchIs DEF Good
<1>2. LookUp(v, f) = u
  BY DEF LookUp
<1> HIDE DEF c
<1>3. c \in Seq(Entry)
  BY <1>1 DEF CacheOK
<1>4. /\ u \in View /\ u.current = v.current /\ u.gen = v.gen /\ u.held = v.held /\ u.closing = v.closing
      /\ u.sought = v.sought /\ u.cache = c /\ u.uncached = v.uncached /\ u.frame = v.frame
      /\ u.screen = v.screen /\ u.pixels = v.pixels /\ u.pending = v.pending /\ u.contexts = v.contexts
  BY <1>1, <1>3 DEF View
<1> HIDE DEF u
<1>5. OneContext(u) /\ FrameOK(u)
  BY <1>4 DEF Good, OneContext, FrameOK
<1> QED BY <1>1, <1>2, <1>4, <1>5 DEF Good, Asked

\* A neighbour is asked for.
LEMMA PreloadOneIs ==
  ASSUME NEW w, Fine(w), DiskOK, NEW f, f # w.v.frame.base.file, NEW p \in Priority
  PROVE  LET u == PreloadOne(w, f, p) IN Fine(u) /\ SameWork(w.l, u.l) /\ Asked(w.v, u.v)
<1> DEFINE v == LookUp(w.v, f)
           x == [w EXCEPT !.v = v]
           u == PreloadOne(w, f, p)
<1>1. Good(v) /\ Asked(w.v, v)
  BY LookUpIs DEF Fine
<1>2. CASE f \notin Files
  BY <1>2 DEF PreloadOne, SameWork, Asked
<1>3. CASE f \in Files
  <2>1. u \in {x, AskImage(x, f, p)}
    BY <1>3 DEF PreloadOne
  <2> HIDE DEF v, u
  <2>2. Fine(x) /\ x.l = w.l /\ x.v = v
    BY <1>1 DEF Fine
  <2> HIDE DEF x
  <2>3. Fits(x.v, f)
    <3>1. w.v.frame \in FrameBar
      BY DEF Fine, Good, View
    <3>2. v.frame.base = w.v.frame.base
      BY <1>1, <3>1 DEF Asked, FrameBar
    <3> QED BY <2>2, <3>2 DEF Fits
  <2>4. LET y == AskImage(x, f, p) IN Fine(y) /\ SameWork(x.l, y.l) /\ Asked(x.v, y.v)
    BY <1>3, <2>2, <2>3, AskImageIs
  <2>5. ASSUME u = x PROVE Fine(u) /\ SameWork(w.l, u.l) /\ Asked(w.v, u.v)
    BY <1>1, <2>2, <2>5 DEF SameWork
  <2>6. ASSUME u = AskImage(x, f, p) PROVE Fine(u) /\ SameWork(w.l, u.l) /\ Asked(w.v, u.v)
    <3>1. Fine(u) /\ SameWork(w.l, u.l) /\ Asked(v, u.v)
      BY <2>2, <2>4, <2>6
    <3>2. Asked(w.v, u.v)
      BY <1>1, <3>1, AskedTwice DEF Fine
    <3> QED BY <3>1, <3>2
  <2>7. Fine(u) /\ SameWork(w.l, u.l) /\ Asked(w.v, u.v)
    BY <2>1, <2>5, <2>6
  <2> QED BY <2>7 DEF u
<1> QED BY <1>2, <1>3

\* The three neighbours.
LEMMA PreloadIs ==
  ASSUME NEW w, Fine(w), DiskOK, w.v.frame.base.file = w.v.current
  PROVE  LET u == Preload(w) IN Fine(u) /\ SameWork(w.l, u.l) /\ Asked(w.v, u.v)
<1>1. PICK c : c = w.v.current
  OBVIOUS
<1>2. c \in Nat /\ w.v.frame \in FrameBar
  BY <1>1, LoaderAssumption DEF Fine, Good, View
<1>3. PICK x : x = PreloadOne(w, c + 1, 1)
  OBVIOUS
<1>4. PICK y : y = PreloadOne(x, c - 1, 2)
  OBVIOUS
<1>5. PICK z : z = PreloadOne(y, c + 2, 3)
  OBVIOUS
<1>6. Preload(w) = z
  BY <1>1, <1>3, <1>4, <1>5 DEF Preload
<1>7. Fine(x) /\ SameWork(w.l, x.l) /\ Asked(w.v, x.v)
  BY <1>1, <1>2, <1>3, PreloadOneIs DEF Priority
<1>8. x.v.frame.base.file = c /\ x.v.frame \in FrameBar
  BY <1>1, <1>2, <1>7 DEF Asked, FrameBar, Fine, Good, View
<1>9. Fine(y) /\ SameWork(x.l, y.l) /\ Asked(x.v, y.v)
  BY <1>2, <1>4, <1>7, <1>8, PreloadOneIs DEF Priority
<1>10. y.v.frame.base.file = c
  BY <1>8, <1>9 DEF Asked, FrameBar
<1>11. Fine(z) /\ SameWork(y.l, z.l) /\ Asked(y.v, z.v)
  BY <1>2, <1>5, <1>9, <1>10, PreloadOneIs DEF Priority
<1>12. Asked(w.v, z.v)
  <2>1. Good(w.v) /\ Good(x.v)
    BY <1>7 DEF Fine
  <2>2. Asked(w.v, y.v)
    BY <1>7, <1>9, <2>1, AskedTwice
  <2> QED BY <1>11, <2>1, <2>2, AskedTwice
<1> QED BY <1>6, <1>7, <1>9, <1>11, <1>12 DEF SameWork

\* A window that shows what it should still does after requests.
LEMMA StillSteady ==
  ASSUME NEW v, Good(v), Steady(v), NEW u, Asked(v, u)
  PROVE  Steady(u)
<1>1. v.frame \in FrameBar
  BY DEF Good, View
<1>2. u.frame.base = v.frame.base /\ u.frame.index = v.frame.index
  BY <1>1 DEF Asked, FrameBar
<1> QED BY <1>2 DEF Asked, Steady

-----------------------------------------------------------------------------
(* show_image.                                                              *)

\* The same window, but for what FrameOK does not read.
SameFrame(v, u) ==
  u.frame = v.frame /\ u.sought = v.sought /\ u.contexts = v.contexts

\* The words about the frame bar read three fields.
LEMMA FrameStays ==
  ASSUME NEW v, OneContext(v), FrameOK(v), NEW u, SameFrame(v, u)
  PROVE  OneContext(u) /\ FrameOK(u)
  BY DEF OneContext, FrameOK, SameFrame

\* What show_image leaves.
Showed(w, u) ==
  /\ Fine(u) /\ SameWork(w.l, u.l) /\ Steady(u.v)
  /\ u.v.held = w.v.held /\ (w.v.held => u.v.pixels = w.v.pixels)
  /\ u.v.frame.index \in {0, w.v.frame.index}

\* The frame bar for the image key.
BarFor(v, key) ==
  IF v.frame.base # key THEN [v EXCEPT !.frame = [NoFrame EXCEPT !.base = key], !.sought = 0] ELSE v

\* A frame bar for another image is empty.
LEMMA BarForIs ==
  ASSUME NEW v, Good(v), ~v.held, NEW key \in Image
  PROVE  LET u == BarFor(v, key) IN
         /\ Good(u) /\ u.current = v.current /\ u.held = v.held
         /\ u.frame.base = key /\ u.frame.index \in {0, v.frame.index}
<1> DEFINE g == [NoFrame EXCEPT !.base = key]
           u == [v EXCEPT !.frame = g, !.sought = 0]
<1>1. v \in View /\ 0 \in Frames
  BY LoaderAssumption DEF Good
<1>2. /\ g \in FrameBar /\ g.base = key /\ g.index = 0 /\ g.pixels = NoImage /\ g.request = NoId
  BY <1>1 DEF NoFrame, FrameBar
<1> HIDE DEF g
<1>3. CASE v.frame.base = key
  BY <1>3 DEF BarFor
<1>4. CASE v.frame.base # key
  <2>1. BarFor(v, key) = u
    BY <1>4 DEF BarFor, g
  <2>2. /\ u \in View /\ u.current = v.current /\ u.held = v.held /\ u.cache = v.cache /\ u.uncached = v.uncached
        /\ u.frame = g /\ u.pending = v.pending /\ u.contexts = v.contexts
    BY <1>1, <1>2 DEF View
  <2> HIDE DEF u
  <2>3. OneContext(u) /\ FrameOK(u)
    BY <1>2, <2>2 DEF Good, OneContext, FrameOK
  <2>4. Good(u)
    BY <2>2, <2>3 DEF Good
  <2> QED BY <1>2, <2>1, <2>2, <2>4
<1> QED BY <1>3, <1>4

\* The screen changes.
Screens == {"loading", "image", "error", "held"}
Showing(v, s, p) == [v EXCEPT !.screen = s, !.pixels = p]

\* What the screen shows is no matter of the other fields.
LEMMA ScreenIs ==
  ASSUME NEW v, Good(v), NEW s \in Screens, NEW p \in Image \cup {NoImage}
  PROVE  LET u == Showing(v, s, p) IN
         /\ Good(u) /\ u.current = v.current /\ u.held = v.held /\ u.frame = v.frame
         /\ u.screen = s /\ u.pixels = p
<1> DEFINE u == Showing(v, s, p)
<1>1. v \in View
  BY DEF Good
<1>2. /\ u \in View /\ u.current = v.current /\ u.held = v.held /\ u.cache = v.cache /\ u.uncached = v.uncached
      /\ u.frame = v.frame /\ u.pending = v.pending /\ u.contexts = v.contexts /\ u.sought = v.sought
      /\ u.screen = s /\ u.pixels = p
  BY <1>1 DEF View, Showing, Screens
<1> HIDE DEF u
<1>3. OneContext(u) /\ FrameOK(u)
  BY <1>2, FrameStays DEF Good, SameFrame
<1>4. Good(u)
  BY <1>2, <1>3 DEF Good
<1> QED BY <1>2, <1>4 DEF u

\* The frame bar is told of several frames.
LEMMA ManyIs ==
  ASSUME NEW v, Good(v), ~v.held, NEW b \in BOOLEAN
  PROVE  LET u == [v EXCEPT !.frame.many = b] IN
         /\ Good(u) /\ u.current = v.current /\ u.held = v.held
         /\ u.frame.base = v.frame.base /\ u.frame.index = v.frame.index
         /\ u.frame.pixels = v.frame.pixels
<1> DEFINE g == [v.frame EXCEPT !.many = b]
           u == [v EXCEPT !.frame = g]
<1>1. v \in View /\ v.frame \in FrameBar
  BY DEF Good, View
<1>2. /\ g \in FrameBar /\ g.base = v.frame.base /\ g.index = v.frame.index /\ g.pixels = v.frame.pixels
      /\ g.request = v.frame.request
  BY <1>1 DEF FrameBar
<1>3. [v EXCEPT !.frame.many = b] = u
  OBVIOUS
<1> HIDE DEF g
<1>4. /\ u \in View /\ u.current = v.current /\ u.held = v.held /\ u.cache = v.cache /\ u.uncached = v.uncached
      /\ u.frame = g /\ u.pending = v.pending /\ u.contexts = v.contexts /\ u.sought = v.sought
  BY <1>1, <1>2 DEF View
<1> HIDE DEF u
<1>5. OneContext(u) /\ FrameOK(u)
  BY <1>2, <1>4 DEF Good, OneContext, FrameOK
<1>6. Good(u)
  BY <1>4, <1>5 DEF Good
<1> QED BY <1>2, <1>3, <1>4, <1>6

\* An image the cache does not admit is kept beside it.
LEMMA UncachedIs ==
  ASSUME NEW v, Good(v), NEW e \in Entry \cup {NoEntry}, e.pixels = e.key
  PROVE  LET u == [v EXCEPT !.uncached = e] IN
         /\ Good(u) /\ u.current = v.current /\ u.held = v.held /\ u.frame = v.frame /\ u.pixels = v.pixels
<1> DEFINE u == [v EXCEPT !.uncached = e]
<1>1. v \in View
  BY DEF Good
<1>2. /\ u \in View /\ u.current = v.current /\ u.held = v.held /\ u.cache = v.cache /\ u.uncached = e
      /\ u.frame = v.frame /\ u.pending = v.pending /\ u.contexts = v.contexts /\ u.sought = v.sought
      /\ u.pixels = v.pixels
  BY <1>1 DEF View
<1> HIDE DEF u
<1>3. OneContext(u) /\ FrameOK(u)
  BY <1>2, FrameStays DEF Good, SameFrame
<1> QED BY <1>2, <1>3 DEF Good, u

\* show_image, for whatever image is selected and whatever was cached, asked for and presented.
LEMMA ShowImageIs ==
  ASSUME NEW w, Fine(w), DiskOK
  PROVE  Showed(w, ShowImage(w))
<1> DEFINE f    == w.v.current
           key  == Key(f, 0)
           new  == w.v.frame.base # key
           e    == IF w.v.uncached.key.file # f THEN NoEntry ELSE w.v.uncached
           x    == [w.v EXCEPT !.uncached = e]
           v1   == LookUp(x, f)
           v2   == IF new THEN [v1 EXCEPT !.frame = [NoFrame EXCEPT !.base = key], !.sought = 0] ELSE v1
           own  == Pixels(v2, key)
           many == v2.frame.many \/ (own # NoImage /\ f \in Animated)
           v3   == [v2 EXCEPT !.frame.many = @ \/ (own # NoImage /\ f \in Animated)]
           pix  == IF v3.frame.pixels # NoImage THEN v3.frame.pixels ELSE own
           l    == IF new THEN CancelRequest(w.l, w.v.frame.request) ELSE w.l
           s    == [LookUp(v3, f) EXCEPT !.screen = "image", !.pixels = pix]
           t    == [v3 EXCEPT !.screen = "loading", !.pixels = NoImage]
<1>1. Good(w.v) /\ w.v \in View /\ f \in Files /\ w.v.held \in BOOLEAN /\ w = [l |-> w.l, v |-> w.v] /\ LoaderOK(w.l)
  BY DEF Fine, Good, View
<1>2. CASE w.v.held
  <2>0. PICK u : u = Showing(w.v, "held", w.v.pixels)
    OBVIOUS
  <2>1. ShowImage(w) = [w EXCEPT !.v.screen = "held"]
    BY <1>2 DEF ShowImage
  <2>2. [w.v EXCEPT !.screen = "held"] = u
    BY <1>1, <2>0 DEF View, Showing
  <2>3. w.v.pixels \in Image \cup {NoImage}
    BY <1>1 DEF View
  <2>4. Good(u) /\ u.held = w.v.held /\ u.frame = w.v.frame /\ u.screen = "held" /\ u.pixels = w.v.pixels
    <3>1. PICK v, p : v = w.v /\ p = w.v.pixels
      OBVIOUS
    <3>2. Good(v) /\ p \in Image \cup {NoImage} /\ u = Showing(v, "held", p) /\ "held" \in Screens
      BY <1>1, <2>0, <2>3, <3>1 DEF Screens
    <3>3. Good(u) /\ u.held = v.held /\ u.frame = v.frame /\ u.screen = "held" /\ u.pixels = p
      BY ONLY <3>2, ScreenIs
    <3> QED BY <3>1, <3>3
  <2>5. ShowImage(w) = [l |-> w.l, v |-> u]
    BY <1>1, <2>1, <2>2
  <2>6. PICK y : y = [l |-> w.l, v |-> u]
    OBVIOUS
  <2>7. y = [l |-> y.l, v |-> y.v] /\ y.l = w.l /\ y.v = u
    BY <2>6
  <2>8. Steady(u)
    BY <1>2, <2>4 DEF Steady
  <2>9. Showed(w, y)
    BY <1>1, <1>2, <2>4, <2>7, <2>8 DEF Showed, Fine, SameWork
  <2> QED BY <2>5, <2>6, <2>9
<1>3. CASE ~w.v.held
  <2>1. key \in Image /\ key.file = f /\ key.version = disk[f] /\ key.frame = 0
    BY <1>1, KeyIs, LoaderAssumption DEF Key
  <2>2. ShowImage(w) = IF pix # NoImage THEN Preload([l |-> l, v |-> s])
                       ELSE IF HasPending(t, f) THEN [l |-> l, v |-> t] ELSE AskImage([l |-> l, v |-> t], f, 0)
    <3>1. ShowImage(w) = IF w.v.held THEN [w EXCEPT !.v.screen = "held"]
                         ELSE IF pix # NoImage THEN Preload([l |-> l, v |-> s])
                         ELSE IF HasPending([l |-> l, v |-> t].v, f) THEN [l |-> l, v |-> t]
                              ELSE AskImage([l |-> l, v |-> t], f, 0)
      BY Zenon DEF ShowImage
    <3>2. [l |-> l, v |-> t].v = t
      OBVIOUS
    <3> HIDE DEF l, t, pix, s
    <3> QED BY <1>3, <3>1, <3>2
  <2>3. LoaderOK(l) /\ SameWork(w.l, l)
    BY <1>1, CancelRequestIs DEF SameWork
  <2>4. Good(x) /\ x.current = f /\ ~x.held /\ x.frame = w.v.frame
    <3>1. e \in Entry \cup {NoEntry} /\ e.pixels = e.key
      BY <1>1 DEF View, Good, NoEntry
    <3> HIDE DEF e
    <3> QED BY <1>1, <1>3, <3>1, UncachedIs
  <2> HIDE DEF x
  <2>5. Good(v1) /\ v1.current = f /\ ~v1.held /\ v1.frame.base = w.v.frame.base /\ v1.frame.index = w.v.frame.index
    <3>1. Good(v1) /\ Asked(x, v1)
      BY <2>4, LookUpIs
    <3>2. x.frame \in FrameBar
      BY <2>4 DEF Good, View
    <3> QED BY <2>4, <3>1, <3>2 DEF Asked, FrameBar
  <2> HIDE DEF v1
  <2>6. Good(v2) /\ v2.current = f /\ ~v2.held /\ v2.frame.base = key /\ v2.frame.index \in {0, w.v.frame.index}
    <3>1. v2 = BarFor(v1, key)
      BY <2>5 DEF BarFor
    <3> HIDE DEF v2
    <3> QED BY <2>1, <2>5, <3>1, BarForIs
  <2> HIDE DEF v2
  <2>7. own \in {key, NoImage}
    BY <2>6, PixelsIs DEF Good
  <2> HIDE DEF own
  <2>8. /\ Good(v3) /\ v3.current = f /\ ~v3.held /\ v3.frame.base = key
        /\ v3.frame.index \in {0, w.v.frame.index}
    <3>1. many \in BOOLEAN
      BY <2>6 DEF Good, View, FrameBar
    <3>2. v3 = [v2 EXCEPT !.frame.many = many]
      BY Zenon
    <3> HIDE DEF many, v3
    <3> QED BY <2>6, <3>1, <3>2, ManyIs
  <2> HIDE DEF v3
  <2>9. pix # NoImage => pix = FrameOf(key, v3.frame.index) /\ pix \in Image
    <3>1. CASE v3.frame.pixels # NoImage
      BY <2>8, <3>1 DEF Good, FrameOK, View, FrameBar
    <3>2. CASE v3.frame.pixels = NoImage
      <4>1. v3.frame.index = 0
        BY <2>8, <3>2 DEF Good, FrameOK
      <4>2. FrameOf(key, 0) = key
        BY <2>1 DEF FrameOf, Image
      <4> QED BY <2>1, <2>7, <3>2, <4>1, <4>2
    <3> QED BY <3>1, <3>2
  <2> HIDE DEF pix, l
  <2>10. CASE pix # NoImage
    <3>1. Good(LookUp(v3, f)) /\ Asked(v3, LookUp(v3, f)) /\ v3.frame \in FrameBar
      BY <2>8, LookUpIs DEF Good, View
    <3>2. PICK y : y = LookUp(v3, f)
      OBVIOUS
    <3>3. /\ Good(y) /\ y.current = f /\ ~y.held /\ y.frame.base = key /\ y.frame.index = v3.frame.index
      BY <2>8, <3>1, <3>2 DEF Asked, FrameBar
    <3>4. s = Showing(y, "image", pix)
      BY <3>2 DEF Showing
    <3> HIDE DEF s
    <3>5. /\ Good(s) /\ s.current = f /\ ~s.held /\ s.frame = y.frame /\ s.screen = "image" /\ s.pixels = pix
      <4>1. pix \in Image \cup {NoImage} /\ "image" \in Screens
        BY <2>9, <2>10 DEF Screens
      <4>2. Good(s) /\ s.current = y.current /\ s.held = y.held /\ s.frame = y.frame /\ s.screen = "image" /\ s.pixels = pix
        BY ONLY <3>3, <3>4, <4>1, ScreenIs
      <4> QED BY <3>3, <4>2
    <3>6. PICK a : a = [l |-> l, v |-> s]
      OBVIOUS
    <3>7. Steady(s) /\ Fine(a) /\ a.v = s /\ a.l = l
      BY <2>1, <2>3, <2>9, <2>10, <3>3, <3>5, <3>6 DEF Steady, Fine
    <3>8. PICK u : u = Preload(a)
      OBVIOUS
    <3>9. Fine(u) /\ SameWork(l, u.l) /\ Asked(s, u.v)
      BY <2>1, <3>3, <3>5, <3>7, <3>8, PreloadIs
    <3>10. Steady(u.v)
      BY <3>5, <3>7, <3>9, StillSteady
    <3>11. u.v.held = w.v.held /\ u.v.frame.index \in {0, w.v.frame.index}
      <4>1. s.frame \in FrameBar /\ s.held \in BOOLEAN
        BY <3>5 DEF Good, View
      <4> QED BY <1>1, <1>3, <2>8, <3>3, <3>5, <3>9, <4>1 DEF Asked, FrameBar
    <3>12. ShowImage(w) = u
      BY <2>2, <2>10, <3>6, <3>8
    <3> QED BY <1>3, <2>3, <3>9, <3>10, <3>11, <3>12 DEF Showed, SameWork
  <2>11. CASE pix = NoImage
    <3>0. t = Showing(v3, "loading", NoImage)
      BY DEF Showing
    <3> HIDE DEF t
    <3>1. /\ Good(t) /\ t.current = f /\ ~t.held /\ t.frame = v3.frame /\ t.screen = "loading"
      BY <2>8, <3>0, ScreenIs DEF Screens
    <3>2. PICK a : a = [l |-> l, v |-> t]
      OBVIOUS
    <3>3. Steady(t) /\ Fine(a) /\ a.v = t /\ a.l = l
      BY <2>1, <2>3, <2>8, <3>1, <3>2 DEF Steady, Fine
    <3>4. t.held = w.v.held /\ t.frame.index \in {0, w.v.frame.index} /\ t.frame \in FrameBar
      BY <1>1, <1>3, <2>8, <3>1 DEF Good, View
    <3>5. ShowImage(w) = a \/ ShowImage(w) = AskImage(a, f, 0)
      BY <2>2, <2>11, <3>2
    <3>6. CASE ShowImage(w) = a
      BY <1>3, <2>3, <3>3, <3>4, <3>6 DEF Showed
    <3>7. CASE ShowImage(w) = AskImage(a, f, 0)
      <4>1. PICK u : u = AskImage(a, f, 0)
        OBVIOUS
      <4>2. Fits(a.v, f) /\ 0 \in Priority
        BY <2>1, <2>8, <3>1, <3>3 DEF Fits, Priority
      <4>3. Fine(u) /\ SameWork(l, u.l) /\ Asked(t, u.v)
        BY <1>1, <3>3, <4>1, <4>2, AskImageIs
      <4>4. Steady(u.v)
        BY <3>1, <3>3, <4>3, StillSteady
      <4>5. u.v.held = w.v.held /\ u.v.frame.index \in {0, w.v.frame.index}
        BY <3>4, <4>3 DEF Asked, FrameBar
      <4> QED BY <1>3, <2>3, <3>7, <4>1, <4>3, <4>4, <4>5 DEF Showed, SameWork
    <3> QED BY <3>5, <3>6, <3>7
  <2> QED BY <2>10, <2>11
<1> QED BY <1>1, <1>2, <1>3

-----------------------------------------------------------------------------
(* Results: what an answer may replace.                                     *)

\* What an answer may replace on the screen, from the window v to the window u.
Answers(v, u) ==
  /\ v.held /\ u.held => u.screen = "held" /\ u.pixels = v.pixels
  /\ u.frame.index \notin {0, v.frame.index} => u.frame.index = u.sought
\* A handler that keeps the window what it should be.
Serves(w, u) == Fine(u) /\ SameWork(w.l, u.l) /\ Steady(u.v) /\ Answers(w.v, u.v)

\* A handler that changes no more than a request.
LEMMA AskedServes ==
  ASSUME NEW w, Fine(w), Steady(w.v), NEW v, Good(v), Asked(w.v, v)
  PROVE  Serves(w, [w EXCEPT !.v = v])
<1>1. PICK u : u = [w EXCEPT !.v = v]
  OBVIOUS
<1>2. u = [l |-> u.l, v |-> u.v] /\ u.l = w.l /\ u.v = v
  BY <1>1 DEF Fine
<1>3. Steady(v)
  BY StillSteady DEF Fine
<1>4. Answers(w.v, v)
  <2>1. w.v.frame \in FrameBar
    BY DEF Fine, Good, View
  <2>2. v.frame.index = w.v.frame.index
    BY <2>1 DEF Asked, FrameBar
  <2> QED BY <1>3, <2>2 DEF Asked, Answers, Steady
<1>5. Serves(w, u)
  BY <1>2, <1>3, <1>4 DEF Serves, Fine, SameWork
<1> QED BY <1>1, <1>5

\* A handler that ends in show_image.
LEMMA Serving ==
  ASSUME NEW w, NEW x, NEW u, Showed(x, u), SameWork(w.l, x.l),
         x.v.frame.index \in {0, w.v.frame.index}, w.v.held /\ x.v.held => x.v.pixels = w.v.pixels
  PROVE  Serves(w, u)
<1>1. Answers(w.v, u.v)
  BY DEF Showed, Answers, Steady
<1> QED BY <1>1 DEF Showed, Serves, SameWork

\* The result of a request that is forgotten.
Forgotten(v, id) ==
  [Without(v, id) EXCEPT !.pending = @ \ {id}, !.frameRequests = @ \ {id},
                         !.frame.request = IF @ = id THEN NoId ELSE @]

LEMMA ForgottenIs ==
  ASSUME NEW v, Good(v), ~v.held, NEW id
  PROVE  Good(Forgotten(v, id)) /\ Asked(v, Forgotten(v, id))
<1> DEFINE u == Without(v, id)
           a == Forgotten(v, id)
<1>1. Good(u) /\ u = [v EXCEPT !.contexts = u.contexts] /\ v \in View /\ Good(v)
  BY WithoutIs DEF Good
<1>2. PICK g : g = [u.frame EXCEPT !.request = IF @ = id THEN NoId ELSE @]
  OBVIOUS
<1>3. a = [u EXCEPT !.pending = @ \ {id}, !.frameRequests = @ \ {id}, !.frame = g]
  BY <1>2 DEF Forgotten
<1> HIDE DEF u, a
<1>4. /\ u \in View /\ u.current = v.current /\ u.gen = v.gen /\ u.held = v.held /\ u.closing = v.closing
      /\ u.sought = v.sought /\ u.cache = v.cache /\ u.uncached = v.uncached /\ u.frame = v.frame
      /\ u.screen = v.screen /\ u.pixels = v.pixels /\ u.pending = v.pending
  BY <1>1 DEF View, Good
<1>5. /\ g \in FrameBar /\ g \in {v.frame, [v.frame EXCEPT !.request = NoId]} /\ g.base = u.frame.base
      /\ g.pixels = u.frame.pixels /\ g.index = u.frame.index /\ g.request \in {u.frame.request, NoId}
  <2>1. u.frame \in FrameBar
    BY <1>4 DEF View
  <2> QED BY <1>2, <1>4, <2>1 DEF FrameBar
<1>6. /\ a \in View /\ a.current = u.current /\ a.gen = u.gen /\ a.held = u.held /\ a.closing = u.closing
      /\ a.sought = u.sought /\ a.cache = u.cache /\ a.uncached = u.uncached /\ a.frame = g
      /\ a.screen = u.screen /\ a.pixels = u.pixels /\ a.pending \subseteq u.pending /\ a.contexts = u.contexts
  BY <1>3, <1>4, <1>5 DEF View
<1>7. OneContext(a) /\ FrameOK(a)
  BY <1>1, <1>5, <1>6 DEF Good, OneContext, FrameOK
<1>8. IsFiniteSet(a.pending)
  BY <1>1, <1>6, FS_Subset DEF Good
<1>9. Good(a)
  BY <1>1, <1>4, <1>6, <1>7, <1>8 DEF Good
<1>10. Asked(v, a)
  BY <1>4, <1>5, <1>6 DEF Asked
<1> QED BY <1>9, <1>10 DEF a

\* The frame bar is left alone, and the cache is another one.
Recached(v, P, F, c) == [v EXCEPT !.pending = P, !.frameRequests = F, !.cache = c]

LEMMA RecachedIs ==
  ASSUME NEW v, Good(v), NEW P, P \subseteq v.pending, NEW F, F \subseteq v.frameRequests, NEW c, CacheOK(c)
  PROVE  Good(Recached(v, P, F, c)) /\ Asked(v, Recached(v, P, F, c))
<1> DEFINE u == Recached(v, P, F, c)
<1>1. v \in View /\ c \in Seq(Entry) /\ P \subseteq Ids /\ F \subseteq Ids
  BY DEF Good, View, CacheOK
<1>2. /\ u \in View /\ u.current = v.current /\ u.gen = v.gen /\ u.held = v.held /\ u.closing = v.closing
      /\ u.sought = v.sought /\ u.cache = c /\ u.uncached = v.uncached /\ u.frame = v.frame
      /\ u.screen = v.screen /\ u.pixels = v.pixels /\ u.pending = P /\ u.contexts = v.contexts
  BY <1>1 DEF View, Recached
<1> HIDE DEF u
<1>3. OneContext(u) /\ FrameOK(u)
  BY <1>2, FrameStays DEF Good, SameFrame
<1>4. IsFiniteSet(u.pending)
  BY <1>2, FS_Subset DEF Good
<1>5. Good(u) /\ Asked(v, u)
  BY <1>2, <1>3, <1>4 DEF Good, Asked
<1> QED BY <1>5 DEF u

\* A frame is presented, and no request for another one is under way.
Presenting(v, n, s, c) ==
  [v EXCEPT !.frame.request = NoId, !.frame.index = n, !.frame.pixels = FrameOf(v.frame.base, n),
            !.pixels = IF v.screen = "image" THEN FrameOf(v.frame.base, n) ELSE @,
            !.sought = s, !.cache = c]

LEMMA PresentingIs ==
  ASSUME NEW v, Good(v), Steady(v), ~v.held, NEW n \in Frames, NEW s \in Frames, NEW c, CacheOK(c),
         FrameOf(v.frame.base, n) \in Image
  PROVE  LET u == Presenting(v, n, s, c) IN
         Good(u) /\ Steady(u) /\ ~u.held /\ u.frame.index = n /\ u.sought = s
<1> DEFINE b == FrameOf(v.frame.base, n)
           g == [v.frame EXCEPT !.request = NoId, !.index = n, !.pixels = b]
           x == IF v.screen = "image" THEN b ELSE v.pixels
           u == Presenting(v, n, s, c)
<1>1. v \in View /\ c \in Seq(Entry) /\ v.frame \in FrameBar /\ b \in Image
  BY DEF Good, View, CacheOK
<1>2. b # NoImage
  BY <1>1, LoaderAssumption DEF Image, NoImage
<1>3. PICK d : d = b
  OBVIOUS
<1> HIDE DEF b
<1>4. /\ g \in FrameBar /\ g.base = v.frame.base /\ g.index = n /\ g.pixels = d /\ g.request = NoId
  BY <1>1, <1>3 DEF FrameBar
<1>5. u = [v EXCEPT !.frame = g, !.pixels = x, !.sought = s, !.cache = c]
  BY DEF Presenting, b
<1>6. x \in Image \cup {NoImage} /\ (v.screen = "image" => x = d)
  BY <1>1, <1>3 DEF View
<1> HIDE DEF u, g, x
<1>7. /\ u \in View /\ u.current = v.current /\ u.gen = v.gen /\ u.held = v.held /\ u.closing = v.closing
      /\ u.sought = s /\ u.cache = c /\ u.uncached = v.uncached /\ u.frame = g
      /\ u.screen = v.screen /\ u.pixels = x /\ u.pending = v.pending /\ u.contexts = v.contexts
  BY <1>1, <1>4, <1>5, <1>6 DEF View
<1>8. d = FrameOf(u.frame.base, n)
  BY <1>3, <1>4, <1>7 DEF b
<1>9. OneContext(u) /\ FrameOK(u)
  BY <1>2, <1>3, <1>4, <1>7, <1>8 DEF Good, OneContext, FrameOK
<1>10. Good(u)
  BY <1>7, <1>9 DEF Good
<1>11. Steady(u)
  BY <1>4, <1>6, <1>7, <1>8 DEF Steady
<1>12. Good(u) /\ Steady(u) /\ ~u.held /\ u.frame.index = n /\ u.sought = s
  BY <1>4, <1>7, <1>10, <1>11
<1> QED BY <1>12 DEF u

\* The answer to the request for a frame.
LEMMA OnFrameIs ==
  ASSUME NEW w, Fine(w), Steady(w.v), ~w.v.held, NEW r, r.id \in Ids, NEW key \in Image,
         key = [file |-> r.id.file, frame |-> r.id.frame, version |-> key.version],
         NEW c \in w.v.contexts, c.id = r.id, c.version = key.version
  PROVE  Serves(w, OnFrame(w, r, key, key))
<1> DEFINE F == Without(w.v, r.id).frameRequests \ {r.id}
           v == [Without(w.v, r.id) EXCEPT !.frameRequests = @ \ {r.id}]
           q == AddToCache(v.cache, key, key)
           u == [v EXCEPT !.frame.request = NoId, !.cache = AddToCache(@, key, key)]
           p == Present(u, r.id.frame, key)
<1>1. Good(w.v) /\ w.v \in View /\ w.v.frame \in FrameBar
  BY DEF Fine, Good, View
<1>2. PICK x : x = Without(w.v, r.id)
  OBVIOUS
<1>3. Good(x) /\ x = [w.v EXCEPT !.contexts = x.contexts] /\ x \in View
  BY <1>1, <1>2, WithoutIs DEF Good
<1>4. Asked(w.v, x) /\ x.frame = w.v.frame /\ x.frameRequests = w.v.frameRequests /\ x.sought = w.v.sought
      /\ x.held = w.v.held
  BY <1>1, <1>3 DEF Asked, View
<1>5. v = Recached(x, x.pending, F, x.cache)
  BY <1>2, <1>3 DEF Recached, View
<1>6. OnFrame(w, r, key, key) = [w EXCEPT !.v = IF Sought(v, r.id) THEN p ELSE v]
  BY DEF OnFrame
<1> HIDE DEF v
<1>7. Good(v) /\ Asked(x, v) /\ v.frame = x.frame /\ v.sought = x.sought /\ v.held = x.held
  <2>1. F \subseteq x.frameRequests /\ CacheOK(x.cache)
    BY <1>2, <1>3 DEF Good
  <2>2. PICK G : G = F
    OBVIOUS
  <2>3. Good(v) /\ Asked(x, v)
    BY <1>3, <1>5, <2>1, <2>2, RecachedIs
  <2>4. v.frame = x.frame /\ v.sought = x.sought /\ v.held = x.held
    BY <1>3, <1>5 DEF Recached, View
  <2> QED BY <2>3, <2>4
<1>8. Asked(w.v, v)
  BY <1>1, <1>4, <1>7, AskedTwice
<1>9. CASE ~Sought(v, r.id)
  <2>1. OnFrame(w, r, key, key) = [w EXCEPT !.v = v]
    BY <1>6, <1>9
  <2> QED BY <1>7, <1>8, <2>1, AskedServes
<1>10. CASE Sought(v, r.id)
  <2>1. PICK n, s : n = r.id.frame /\ s = v.sought
    OBVIOUS
  <2>2. n \in Frames /\ n = s /\ r.id # NoId
    <3>1. r.id = v.frame.request /\ r.id.file # 0 /\ r.id.frame \in Frames
      BY <1>10, LoaderAssumption DEF Sought, Ids
    <3>2. r.id # NoId
      BY <3>1 DEF NoId
    <3> QED BY <1>7, <2>1, <3>1, <3>2 DEF Good, FrameOK
  <2>3. v.frame.base.file = r.id.file /\ v.frame.base.version = key.version
    BY <1>1, <1>4, <1>7, <1>10, <2>2 DEF Sought, Good, FrameOK
  <2>4. FrameOf(v.frame.base, n) = key
    BY <2>1, <2>3 DEF FrameOf
  <2>5. v \in View /\ v.frame \in FrameBar /\ s \in Frames
    BY <1>7, <2>1 DEF Good, View
  <2>6. CacheOK(q)
    BY <1>7, AddToCacheIs DEF Good
  <2>7. PICK d : d = q
    OBVIOUS
  <2>8. p = Presenting(v, n, s, d)
    <3>1. u = [v EXCEPT !.frame = [v.frame EXCEPT !.request = NoId], !.cache = d]
      BY <2>7
    <3> HIDE DEF u, q
    <3>2. u.frame = [v.frame EXCEPT !.request = NoId] /\ u.screen = v.screen /\ u.pixels = v.pixels
      BY <2>5, <3>1 DEF View
    <3>3. p = [u EXCEPT !.frame = [u.frame EXCEPT !.index = n, !.pixels = key],
                        !.pixels = IF u.screen = "image" THEN key ELSE u.pixels]
      BY <2>1 DEF Present
    <3>4. [v.frame EXCEPT !.request = NoId, !.index = n, !.pixels = key]
            = [u.frame EXCEPT !.index = n, !.pixels = key]
      BY <2>5, <3>2 DEF FrameBar
    <3>5. Presenting(v, n, s, d)
            = [v EXCEPT !.frame = [v.frame EXCEPT !.request = NoId, !.index = n, !.pixels = key],
                        !.pixels = IF v.screen = "image" THEN key ELSE v.pixels, !.sought = s, !.cache = d]
      BY <2>4 DEF Presenting
    <3> HIDE DEF p
    <3>6. PICK g, h, z : /\ g = [v.frame EXCEPT !.request = NoId, !.index = n, !.pixels = key]
                         /\ h = [v.frame EXCEPT !.request = NoId]
                         /\ z = IF v.screen = "image" THEN key ELSE v.pixels
      OBVIOUS
    <3>7. u = [v EXCEPT !.frame = h, !.cache = d] /\ p = [u EXCEPT !.frame = g, !.pixels = z]
      BY <3>1, <3>2, <3>3, <3>4, <3>6
    <3>8. Presenting(v, n, s, d) = [v EXCEPT !.frame = g, !.pixels = z, !.sought = v.sought, !.cache = d]
      BY <2>1, <3>5, <3>6
    <3>9. [[v EXCEPT !.frame = h, !.cache = d] EXCEPT !.frame = g, !.pixels = z]
            = [v EXCEPT !.frame = g, !.pixels = z, !.sought = v.sought, !.cache = d]
      BY ONLY <2>5 DEF View
    <3> QED BY <3>7, <3>8, <3>9
  <2>9. Steady(v)
    BY <1>1, <1>8, StillSteady
  <2> HIDE DEF p, q
  <2>10. Good(p) /\ Steady(p) /\ ~p.held /\ p.frame.index = n /\ p.sought = s
    BY <1>4, <1>7, <2>2, <2>4, <2>5, <2>6, <2>7, <2>8, <2>9, PresentingIs
  <2>11. PICK y : y = [w EXCEPT !.v = p]
    OBVIOUS
  <2>12. y = [l |-> y.l, v |-> y.v] /\ y.l = w.l /\ y.v = p
    BY <2>11 DEF Fine
  <2>13. Serves(w, y)
    BY <2>2, <2>10, <2>12 DEF Serves, Fine, SameWork, Answers
  <2> QED BY <1>6, <1>10, <2>11, <2>13
<1> QED BY <1>9, <1>10

\* The answer to the request for an image.
LEMMA OnImageIs ==
  ASSUME NEW w, Fine(w), Steady(w.v), DiskOK, ~w.v.held, NEW r, NEW key \in Image
  PROVE  Serves(w, OnImage(w, r, key, key))
<1> DEFINE P == Without(w.v, r.id).pending \ {r.id}
           v == [Without(w.v, r.id) EXCEPT !.pending = @ \ {r.id}, !.cache = AddToCache(@, key, key)]
           e == IF Admitted(key) THEN NoEntry ELSE [key |-> key, pixels |-> key]
           y == [v EXCEPT !.uncached = e]
<1>1. Good(w.v) /\ w.v \in View /\ w.v.frame \in FrameBar
  BY DEF Fine, Good, View
<1>2. PICK x : x = Without(w.v, r.id)
  OBVIOUS
<1>3. Good(x) /\ x = [w.v EXCEPT !.contexts = x.contexts] /\ x \in View
  BY <1>1, <1>2, WithoutIs DEF Good
<1>4. Asked(w.v, x)
  BY <1>1, <1>3 DEF Asked, View
<1>5. PICK q : q = AddToCache(x.cache, key, key)
  OBVIOUS
<1>6. CacheOK(q)
  BY <1>3, <1>5, AddToCacheIs DEF Good
<1>7. v = Recached(x, P, x.frameRequests, q)
  BY <1>2, <1>3, <1>5 DEF Recached, View
<1>8. OnImage(w, r, key, key) = IF r.id.file # v.current THEN [w EXCEPT !.v = v]
                                ELSE ShowImage([w EXCEPT !.v = y])
  BY Zenon DEF OnImage
<1> HIDE DEF v
<1>9. Good(v) /\ Asked(x, v)
  BY <1>2, <1>3, <1>6, <1>7, RecachedIs
<1>10. Asked(w.v, v)
  BY <1>1, <1>4, <1>9, AskedTwice
<1>11. CASE r.id.file # v.current
  BY <1>8, <1>9, <1>10, <1>11, AskedServes
<1>12. CASE r.id.file = v.current
  <2>1. e \in Entry \cup {NoEntry} /\ e.pixels = e.key
    BY DEF Entry, NoEntry
  <2> HIDE DEF e
  <2>2. Good(y) /\ y.held = v.held /\ y.frame = v.frame
    BY <1>9, <2>1, UncachedIs
  <2> HIDE DEF y
  <2>3. PICK z : z = [w EXCEPT !.v = y]
    OBVIOUS
  <2>4. z = [l |-> z.l, v |-> z.v] /\ z.l = w.l /\ z.v = y
    BY <2>3 DEF Fine
  <2>5. Fine(z)
    BY <2>2, <2>4 DEF Fine
  <2>6. PICK u : u = ShowImage(z)
    OBVIOUS
  <2>7. Showed(z, u)
    BY <2>5, <2>6, ShowImageIs
  <2>8. z.v.frame.index \in {0, w.v.frame.index}
    BY <1>1, <1>10, <2>2, <2>4 DEF Asked, FrameBar
  <2>9. Serves(w, u)
    BY <2>4, <2>7, <2>8, Serving DEF SameWork
  <2> QED BY <1>8, <1>12, <2>3, <2>6, <2>9
<1> QED BY <1>11, <1>12

\* on_image_ready keeps the window what it should be, whatever comes in when.
LEMMA OnImageReadyIs ==
  ASSUME NEW w, Fine(w), Steady(w.v), DiskOK, NEW r, r.id \in Ids, r.version \in Nat
  PROVE  Serves(w, OnImageReady(w, r))
<1> DEFINE v == w.v
           image(n) == [file |-> r.id.file, frame |-> r.id.frame, version |-> n]
           asked == image((CHOOSE c \in v.contexts : c.id = r.id).version)
<1>1. Good(v) /\ v \in View /\ v.held \in BOOLEAN
  BY DEF Fine, Good, View
<1>2. CASE Discarded(v, r)
  <2>1. Asked(v, v)
    BY DEF Asked
  <2>2. [w EXCEPT !.v = w.v] = w
    BY DEF Fine
  <2>3. Serves(w, w)
    BY <1>1, <2>1, <2>2, AskedServes
  <2> QED BY <1>2, <2>3 DEF OnImageReady
<1>3. CASE ~Discarded(v, r) /\ r.version = 0
  <2>1. OnImageReady(w, r) = [w EXCEPT !.v = OnError(v, r)]
    BY <1>3 DEF OnImageReady
  <2>2. PICK x : x = OnError(v, r)
    OBVIOUS
  <2>3. Good(x) /\ Asked(v, x)
    BY <1>1, <2>2, OnErrorIs
  <2> QED BY <2>1, <2>2, <2>3, AskedServes
<1>4. CASE ~Discarded(v, r) /\ r.version # 0 /\ Late(v, r)
  <2>1. OnImageReady(w, r) = [w EXCEPT !.v = Forgotten(v, r.id)]
    BY <1>4 DEF OnImageReady, Forgotten
  <2>2. PICK x : x = Forgotten(v, r.id)
    OBVIOUS
  <2>3. Good(x) /\ Asked(v, x)
    BY <1>1, <1>4, <2>2, ForgottenIs DEF Discarded
  <2> QED BY <2>1, <2>2, <2>3, AskedServes
<1>5. CASE ~Discarded(v, r) /\ r.version # 0 /\ ~Late(v, r)
  <2>1. OnImageReady(w, r) = IF r.id \in v.frameRequests THEN OnFrame(w, r, asked, image(r.version))
                             ELSE OnImage(w, r, asked, image(r.version))
    BY <1>5 DEF OnImageReady
  <2>2. PICK c \in v.contexts : c.id = r.id /\ c.version = r.version
    BY <1>5 DEF Late
  <2>3. (CHOOSE d \in v.contexts : d.id = r.id) = c
    BY <1>1, <2>2 DEF Good, OneContext
  <2>4. PICK key : key = image(r.version)
    OBVIOUS
  <2>5. asked = key
    BY <2>2, <2>3, <2>4
  <2>6. /\ key \in Image /\ key.version = r.version
        /\ key = [file |-> r.id.file, frame |-> r.id.frame, version |-> key.version]
    BY <1>5, <2>4 DEF Ids, Image
  <2> HIDE DEF asked, image
  <2>7. ~w.v.held
    BY <1>5 DEF Discarded
  <2>8. Serves(w, OnFrame(w, r, key, key))
    BY <2>2, <2>6, <2>7, OnFrameIs
  <2>9. Serves(w, OnImage(w, r, key, key))
    BY <2>6, <2>7, OnImageIs
  <2> QED BY <2>1, <2>4, <2>5, <2>8, <2>9
<1> QED BY <1>1, <1>2, <1>3, <1>4, <1>5

-----------------------------------------------------------------------------
(* Selections, listings, holds and seeks.                                   *)

\* Another image is selected, a generation begins, a hold begins or ends, the window closes.
Turned(v, f, g, h, c) == [v EXCEPT !.current = f, !.gen = g, !.held = h, !.closing = c]

LEMMA TurnedIs ==
  ASSUME NEW v, Good(v), NEW f \in Files, NEW g \in Nat, NEW h \in BOOLEAN, NEW c \in BOOLEAN,
         h => v.frame = NoFrame
  PROVE  LET u == Turned(v, f, g, h, c) IN
         /\ Good(u) /\ u.current = f /\ u.held = h /\ u.frame = v.frame /\ u.screen = v.screen
         /\ u.pixels = v.pixels
<1> DEFINE u == Turned(v, f, g, h, c)
<1>1. v \in View
  BY DEF Good
<1>2. /\ u \in View /\ u.current = f /\ u.held = h /\ u.cache = v.cache /\ u.uncached = v.uncached
      /\ u.frame = v.frame /\ u.pending = v.pending /\ u.contexts = v.contexts /\ u.sought = v.sought
      /\ u.screen = v.screen /\ u.pixels = v.pixels
  BY <1>1 DEF View, Turned
<1> HIDE DEF u
<1>3. OneContext(u) /\ FrameOK(u)
  BY <1>2, FrameStays DEF Good, SameFrame
<1>4. Good(u)
  BY <1>2, <1>3 DEF Good
<1> QED BY <1>2, <1>4 DEF u

\* clear_pixmap_cache
LEMMA ClearCacheIs ==
  ASSUME NEW w, Fine(w)
  PROVE  LET u == ClearCache(w) IN
         /\ Fine(u) /\ SameWork(w.l, u.l) /\ u.v.frame = NoFrame /\ u.v.pixels = w.v.pixels
         /\ u.v.held = w.v.held /\ u.v.gen = w.v.gen /\ u.v.current = w.v.current /\ u.v.closing = w.v.closing
<1> DEFINE x == [w.v EXCEPT !.cache = <<>>, !.contexts = {}, !.pending = {}, !.uncached = NoEntry,
                            !.frame = NoFrame, !.sought = 0]
<1>1. w.v \in View /\ 0 \in Frames /\ NoFrame \in FrameBar /\ NoEntry \in Entry \cup {NoEntry}
  BY LoaderAssumption DEF Fine, Good, NoFrame, FrameBar
<1>2. CacheOK(<<>>)
  BY ViewAssumption DEF CacheOK
<1>3. PICK c : c = <<>>
  OBVIOUS
<1>4. CacheOK(c) /\ c \in Seq(Entry)
  BY <1>2, <1>3 DEF CacheOK
<1>5. x = [w.v EXCEPT !.cache = c, !.contexts = {}, !.pending = {}, !.uncached = NoEntry,
                      !.frame = NoFrame, !.sought = 0]
  BY <1>3
<1> HIDE DEF x
<1>6. /\ x \in View /\ x.current = w.v.current /\ x.held = w.v.held /\ x.cache = c /\ x.uncached = NoEntry
      /\ x.frame = NoFrame /\ x.pending = {} /\ x.contexts = {} /\ x.sought = 0 /\ x.gen = w.v.gen
      /\ x.pixels = w.v.pixels /\ x.closing = w.v.closing
  BY <1>1, <1>4, <1>5 DEF View
<1>7. OneContext(x) /\ FrameOK(x)
  BY <1>6 DEF OneContext, FrameOK, NoFrame
<1>8. IsFiniteSet(x.pending)
  BY <1>6, FS_EmptySet
<1>9. Good(x)
  BY <1>4, <1>6, <1>7, <1>8 DEF Good, NoEntry
<1>10. PICK l : l = CancelRequest(w.l, w.v.frame.request)
  OBVIOUS
<1>11. LoaderOK(l) /\ SameWork(w.l, l)
  BY <1>10, CancelRequestIs DEF Fine
<1>12. PICK u : u = [l |-> l, v |-> x]
  OBVIOUS
<1>13. ClearCache(w) = u
  BY <1>10, <1>12 DEF ClearCache, x
<1>14. u = [l |-> u.l, v |-> u.v] /\ u.l = l /\ u.v = x
  BY <1>12
<1> QED BY <1>6, <1>9, <1>11, <1>13, <1>14 DEF Fine

\* The request for another frame is cancelled.
LEMMA DropFrameIs ==
  ASSUME NEW w, Fine(w)
  PROVE  LET u == DropFrame(w) IN
         /\ Fine(u) /\ SameWork(w.l, u.l) /\ Asked(w.v, u.v) /\ u.v.frame.request = NoId
<1> DEFINE g == [w.v.frame EXCEPT !.request = NoId]
           x == [w.v EXCEPT !.frame = g]
<1>1. w.v \in View /\ w.v.frame \in FrameBar
  BY DEF Fine, Good, View
<1>2. /\ g \in FrameBar /\ g.base = w.v.frame.base /\ g.index = w.v.frame.index
      /\ g.pixels = w.v.frame.pixels /\ g.request = NoId
  BY <1>1 DEF FrameBar
<1>3. w.v.frame = NoFrame => g = NoFrame
  <2>1. w.v.frame = NoFrame => w.v.frame.request = NoId
    BY DEF NoFrame
  <2>2. w.v.frame.request = NoId => g = w.v.frame
    BY <1>1 DEF FrameBar
  <2> QED BY <2>1, <2>2
<1>4. PICK h : h = g
  OBVIOUS
<1>5. x = [w.v EXCEPT !.frame = h]
  BY <1>4
<1> HIDE DEF g, x
<1>6. /\ x \in View /\ x.current = w.v.current /\ x.held = w.v.held /\ x.cache = w.v.cache
      /\ x.uncached = w.v.uncached /\ x.frame = h /\ x.pending = w.v.pending
      /\ x.contexts = w.v.contexts /\ x.sought = w.v.sought /\ x.gen = w.v.gen
      /\ x.pixels = w.v.pixels /\ x.closing = w.v.closing /\ x.screen = w.v.screen
  BY <1>1, <1>2, <1>4, <1>5 DEF View
<1>7. OneContext(x) /\ FrameOK(x)
  BY <1>2, <1>4, <1>6 DEF Fine, Good, OneContext, FrameOK
<1>8. Good(x)
  BY <1>3, <1>4, <1>6, <1>7 DEF Fine, Good
<1>9. Asked(w.v, x)
  BY <1>4, <1>6 DEF Asked, g
<1>10. PICK l : l = CancelRequest(w.l, w.v.frame.request)
  OBVIOUS
<1>11. LoaderOK(l) /\ SameWork(w.l, l)
  BY <1>10, CancelRequestIs DEF Fine
<1>12. PICK u : u = [l |-> l, v |-> x]
  OBVIOUS
<1>13. DropFrame(w) = u
  BY <1>10, <1>12 DEF DropFrame, x, g
<1>14. u = [l |-> u.l, v |-> u.v] /\ u.l = l /\ u.v = x
  BY <1>12
<1> QED BY <1>2, <1>4, <1>6, <1>8, <1>9, <1>11, <1>13, <1>14 DEF Fine

\* A frame is sought: the request for another one is dropped, and the cache is looked at.
Seeking(w, n) == [DropFrame(w) EXCEPT !.v.sought = n]
Looked(w, n) == [Seeking(w, n).v EXCEPT !.cache = Touch(@, Key(w.v.frame.base.file, n))]
\* It is in the cache, or has to be decoded.
SeekCached(w, n) ==
  [Seeking(w, n) EXCEPT !.v = Present(Looked(w, n), n, Pixels(Looked(w, n), Key(w.v.frame.base.file, n)))]
SeekAsked(w, n) ==
  LET a == AddTask(Seeking(w, n), w.v.frame.base.file, n, 0)
  IN [l |-> a.l, v |-> [a.v EXCEPT !.contexts = Context(a.v, a.id), !.frameRequests = @ \cup {a.id},
                                   !.frame.request = a.id, !.lost = @ \cup ({a.id} \cap a.v.pending)]]

\* A frame is sought while no request for another one is under way.
LEMMA SoughtIs ==
  ASSUME NEW v, Good(v), v.frame.request = NoId, NEW n \in Frames
  PROVE  LET u == [v EXCEPT !.sought = n] IN
         /\ Good(u) /\ u.frame = v.frame /\ u.held = v.held /\ u.screen = v.screen /\ u.pixels = v.pixels
         /\ u.current = v.current /\ u.sought = n /\ u.cache = v.cache
<1> DEFINE u == [v EXCEPT !.sought = n]
<1>1. v \in View
  BY DEF Good
<1>2. /\ u \in View /\ u.current = v.current /\ u.held = v.held /\ u.cache = v.cache /\ u.uncached = v.uncached
      /\ u.frame = v.frame /\ u.pending = v.pending /\ u.contexts = v.contexts /\ u.sought = n
      /\ u.screen = v.screen /\ u.pixels = v.pixels
  BY <1>1 DEF View
<1> HIDE DEF u
<1>3. OneContext(u) /\ FrameOK(u)
  BY <1>2 DEF Good, OneContext, FrameOK
<1>4. Good(u)
  BY <1>2, <1>3 DEF Good
<1> QED BY <1>2, <1>4 DEF u

\* The loader and the window when a frame is looked for.
LEMMA SeekStarts ==
  ASSUME NEW w, Fine(w), Steady(w.v), ~w.v.held, NEW n \in Frames
  PROVE  LET x == Seeking(w, n) IN
         /\ Fine(x) /\ SameWork(w.l, x.l) /\ Steady(x.v) /\ ~x.v.held
         /\ x.v.frame.base = w.v.frame.base /\ x.v.frame.index = w.v.frame.index
         /\ x.v.frame.request = NoId /\ x.v.sought = n
<1>1. PICK d : d = DropFrame(w)
  OBVIOUS
<1>2. Fine(d) /\ SameWork(w.l, d.l) /\ Asked(w.v, d.v) /\ d.v.frame.request = NoId
  BY <1>1, DropFrameIs
<1>3. w.v.frame \in FrameBar /\ Good(w.v)
  BY DEF Fine, Good, View
<1>4. Steady(d.v)
  BY <1>2, <1>3, StillSteady
<1>5. PICK u : u = [d.v EXCEPT !.sought = n]
  OBVIOUS
<1>6. /\ Good(u) /\ u.frame = d.v.frame /\ u.held = d.v.held /\ u.screen = d.v.screen /\ u.pixels = d.v.pixels
      /\ u.current = d.v.current /\ u.sought = n
  <2>1. PICK v : v = d.v
    OBVIOUS
  <2>2. Good(v) /\ v.frame.request = NoId
    BY <1>2, <2>1 DEF Fine
  <2> QED BY <1>5, <2>1, <2>2, SoughtIs
<1>7. PICK x : x = Seeking(w, n)
  OBVIOUS
<1>8. x = [l |-> x.l, v |-> x.v] /\ x.l = d.l /\ x.v = u
  BY <1>1, <1>2, <1>5, <1>7 DEF Fine, Seeking
<1>9. Steady(u)
  BY <1>4, <1>6 DEF Steady
<1>10. ~u.held /\ u.frame.base = w.v.frame.base /\ u.frame.index = w.v.frame.index
  BY <1>2, <1>3, <1>6 DEF Asked, FrameBar
<1>11. /\ Fine(x) /\ SameWork(w.l, x.l) /\ Steady(x.v) /\ ~x.v.held
       /\ x.v.frame.base = w.v.frame.base /\ x.v.frame.index = w.v.frame.index
       /\ x.v.frame.request = NoId /\ x.v.sought = n
  BY <1>2, <1>6, <1>8, <1>9, <1>10 DEF Fine
<1> QED BY <1>7, <1>11

\* _seek_frame, for a frame in the cache and for one that is decoded.
LEMMA SeekCachedIs ==
  ASSUME NEW w, Fine(w), Steady(w.v), DiskOK, ~w.v.held, NEW n \in Frames, NEW f \in Files,
         w.v.frame.base.file = f, w.v.frame.base = Key(f, 0), CachedFrame(Looked(w, n), Key(f, n))
  PROVE  Serves(w, SeekCached(w, n))
<1>1. PICK x : x = Seeking(w, n)
  OBVIOUS
<1>2. /\ Fine(x) /\ SameWork(w.l, x.l) /\ Steady(x.v) /\ ~x.v.held
      /\ x.v.frame.base = w.v.frame.base /\ x.v.frame.index = w.v.frame.index
      /\ x.v.frame.request = NoId /\ x.v.sought = n
  BY <1>1, SeekStarts
<1>3. PICK key : key = Key(f, n)
  OBVIOUS
<1>4. key \in Image /\ key = FrameOf(w.v.frame.base, n)
  BY <1>3, KeyIs DEF Key, FrameOf
<1>5. PICK z : z = x.v
  OBVIOUS
<1>6. Good(z) /\ z \in View /\ z.frame \in FrameBar
  BY <1>2, <1>5 DEF Fine, Good, View
<1>7. PICK c : c = Touch(z.cache, key)
  OBVIOUS
<1>8. CacheOK(c)
  BY <1>6, <1>7, TouchIs DEF Good
<1>9. PICK y : y = Looked(w, n)
  OBVIOUS
<1>10. y = Recached(z, z.pending, z.frameRequests, c)
  BY <1>1, <1>3, <1>5, <1>6, <1>7, <1>9 DEF Looked, Recached, View
<1>11. Good(y) /\ Asked(z, y)
  BY <1>6, <1>8, <1>10, RecachedIs
<1>12. y.frame = z.frame /\ y.sought = z.sought /\ y.held = z.held /\ y \in View
  BY <1>6, <1>10, <1>11 DEF Recached, View, Good
<1>13. Steady(y)
  BY <1>2, <1>5, <1>6, <1>11, StillSteady
<1>14. Pixels(y, key) = key
  BY <1>3, <1>9, <1>11, PixelsIs DEF Good
<1>15. PICK p : p = Present(y, n, key)
  OBVIOUS
<1>16. PICK d : d = y.cache
  OBVIOUS
<1>17. p = Presenting(y, n, n, d)
  <2>1. y.sought = n /\ y.frame.request = NoId /\ y.frame \in FrameBar
    BY <1>2, <1>5, <1>6, <1>12
  <2>2. FrameOf(y.frame.base, n) = key
    BY <1>2, <1>4, <1>5, <1>12
  <2>3. PICK g, b : /\ g = [y.frame EXCEPT !.index = n, !.pixels = key]
                    /\ b = IF y.screen = "image" THEN key ELSE y.pixels
    OBVIOUS
  <2>4. g = [y.frame EXCEPT !.request = NoId, !.index = n, !.pixels = key]
    BY <2>1, <2>3 DEF FrameBar
  <2>5. p = [y EXCEPT !.frame = g, !.pixels = b]
    BY <1>15, <2>3 DEF Present
  <2>6. Presenting(y, n, n, d) = [y EXCEPT !.frame = g, !.pixels = b, !.sought = y.sought, !.cache = y.cache]
    BY <1>16, <2>1, <2>2, <2>3, <2>4 DEF Presenting
  <2>7. [y EXCEPT !.frame = g, !.pixels = b] = [y EXCEPT !.frame = g, !.pixels = b, !.sought = y.sought, !.cache = y.cache]
    BY ONLY <1>12 DEF View
  <2> QED BY <2>5, <2>6, <2>7
<1>18. Good(p) /\ Steady(p) /\ ~p.held /\ p.frame.index = n /\ p.sought = n
  <2>1. FrameOf(y.frame.base, n) \in Image /\ CacheOK(d) /\ ~y.held
    BY <1>2, <1>4, <1>5, <1>11, <1>12, <1>16 DEF Good
  <2> QED BY <1>11, <1>13, <1>17, <2>1, PresentingIs
<1>19. PICK u : u = [x EXCEPT !.v = p]
  OBVIOUS
<1>20. SeekCached(w, n) = u
  BY <1>1, <1>3, <1>9, <1>14, <1>15, <1>19 DEF SeekCached
<1>21. u = [l |-> u.l, v |-> u.v] /\ u.l = x.l /\ u.v = p
  BY <1>2, <1>19 DEF Fine
<1>22. Serves(w, u)
  BY <1>2, <1>18, <1>21 DEF Serves, Fine, Answers
<1> QED BY <1>20, <1>22

LEMMA SeekAskedIs ==
  ASSUME NEW w, Fine(w), Steady(w.v), DiskOK, ~w.v.held, NEW n \in Frames, NEW f \in Files,
         w.v.frame.base.file = f, w.v.frame.base = Key(f, 0)
  PROVE  Serves(w, SeekAsked(w, n))
<1>1. PICK x : x = Seeking(w, n)
  OBVIOUS
<1>2. /\ Fine(x) /\ SameWork(w.l, x.l) /\ Steady(x.v) /\ ~x.v.held
      /\ x.v.frame.base = w.v.frame.base /\ x.v.frame.index = w.v.frame.index
      /\ x.v.frame.request = NoId /\ x.v.sought = n
  BY <1>1, SeekStarts
<1>3. PICK a : a = AddTask(x, f, n, 0)
  OBVIOUS
<1>4. /\ LoaderOK(a.l) /\ SameWork(x.l, a.l) /\ Good(a.v) /\ Asked(x.v, a.v)
      /\ a.id \in Ids /\ a.id.file = f /\ a.id.frame = n
  <2>1. 0 \in Priority /\ LoaderOK(x.l) /\ Good(x.v)
    BY <1>2 DEF Priority, Fine
  <2> QED BY <1>3, <2>1, AddTaskIs
<1>5. PICK z : z = a.v
  OBVIOUS
<1>6. Good(z) /\ z \in View /\ z.frame \in FrameBar /\ x.v.frame \in FrameBar /\ Good(x.v)
  BY <1>2, <1>4, <1>5 DEF Fine, Good, View
<1>7. /\ z.frame.base = w.v.frame.base /\ z.frame.index = w.v.frame.index /\ z.sought = n /\ ~z.held
  BY <1>2, <1>4, <1>5, <1>6 DEF Asked, FrameBar
<1>8. Steady(z)
  BY <1>2, <1>4, <1>5, <1>6, StillSteady
<1>9. PICK C, F, L, g : /\ C = Context(z, a.id) /\ F = z.frameRequests \cup {a.id}
                        /\ L = z.lost \cup ({a.id} \cap z.pending) /\ g = [z.frame EXCEPT !.request = a.id]
  OBVIOUS
<1>10. C \subseteq [id : Ids, version : Nat \ {0}] /\ F \subseteq Ids /\ L \subseteq Ids
  BY <1>4, <1>6, <1>9, ContextType DEF View
<1>11. /\ g \in FrameBar /\ g.base = z.frame.base /\ g.index = z.frame.index /\ g.pixels = z.frame.pixels
       /\ g.request = a.id
  BY <1>4, <1>6, <1>9 DEF FrameBar
<1>12. PICK s : s = [z EXCEPT !.contexts = C, !.frameRequests = F, !.frame = g, !.lost = L]
  OBVIOUS
<1>13. /\ s \in View /\ s.current = z.current /\ s.held = z.held /\ s.cache = z.cache /\ s.uncached = z.uncached
       /\ s.frame = g /\ s.pending = z.pending /\ s.contexts = C /\ s.sought = z.sought
       /\ s.screen = z.screen /\ s.pixels = z.pixels
  BY <1>6, <1>10, <1>11, <1>12 DEF View
<1>14. C = {c \in z.contexts : c.id # a.id} \cup {[id |-> a.id, version |-> disk[a.id.file]]}
  BY <1>6, <1>9 DEF Context, Without, View
<1>15. OneContext(s)
  BY <1>6, <1>13, <1>14 DEF Good, OneContext
<1>16. FrameOK(s)
  <2>1. s.frame.request.file = s.frame.base.file /\ s.frame.request.frame = s.sought
    BY <1>4, <1>7, <1>11, <1>13
  <2>2. s.frame.base.version = disk[f]
    BY <1>7, <1>11, <1>13 DEF Key
  <2>3. \A c \in s.contexts : c.id = s.frame.request => c.version = s.frame.base.version
    BY <1>4, <1>11, <1>13, <1>14, <2>2
  <2>4. /\ s.frame.pixels = NoImage => s.frame.index = 0
        /\ s.frame.pixels # NoImage => s.frame.pixels = FrameOf(s.frame.base, s.frame.index)
    BY <1>6, <1>11, <1>13 DEF Good, FrameOK
  <2> QED BY <2>1, <2>3, <2>4 DEF FrameOK
<1>17. Good(s)
  BY <1>6, <1>7, <1>13, <1>15, <1>16 DEF Good
<1>18. Steady(s)
  BY <1>8, <1>11, <1>13 DEF Steady
<1>19. PICK u : u = [l |-> a.l, v |-> s]
  OBVIOUS
<1>20. SeekAsked(w, n) = u
  BY <1>1, <1>3, <1>5, <1>9, <1>12, <1>19 DEF SeekAsked
<1>21. u = [l |-> u.l, v |-> u.v] /\ u.l = a.l /\ u.v = s
  BY <1>19
<1>22. Serves(w, u)
  BY <1>2, <1>4, <1>7, <1>11, <1>13, <1>17, <1>18, <1>21 DEF Serves, Fine, SameWork, Answers
<1> QED BY <1>20, <1>22

-----------------------------------------------------------------------------
(* The steps of the window.                                                 *)

\* While a reader is supervised there is the request it works for.
ThreadOK == reader.stage \in {"reading", "killed", "emitting"} => loader.active \in Request

\* The inductive invariant.
IInv == LoaderTypeOK /\ showQueued \in BOOLEAN /\ ThreadOK /\ Good(view) /\ Steady(view)

\* It holds of the record the handlers take.
LEMMA NowIs ==
  ASSUME IInv
  PROVE  /\ Fine(Now) /\ DiskOK /\ Steady(Now.v) /\ Now.l = loader /\ Now.v = view
         /\ LoaderOK(loader) /\ Good(view) /\ Steady(view)
         /\ view \in View /\ loader.gen \in Nat
<1>1. LoaderOK(loader) /\ DiskOK
  BY DEF IInv, LoaderTypeOK, LoaderOK, DiskOK
<1>2. Good(view) /\ Steady(view) /\ view \in View
  BY DEF IInv, Good
<1>3. Now = [l |-> Now.l, v |-> Now.v] /\ Now.l = loader /\ Now.v = view
  BY DEF Now
<1>4. loader.gen \in Nat
  BY <1>1 DEF LoaderOK
<1> QED BY <1>1, <1>2, <1>3, <1>4 DEF Fine

\* What the window remembers of requests that are over goes.
Reduced(v, C, F, L) == [v EXCEPT !.contexts = C, !.frameRequests = F, !.lost = L]

LEMMA RestIs ==
  ASSUME NEW v, Good(v), Steady(v), NEW C, C \subseteq v.contexts, NEW F, F \subseteq v.frameRequests,
         NEW L, L \subseteq v.lost
  PROVE  LET u == Reduced(v, C, F, L) IN
         /\ Good(u) /\ Steady(u) /\ u.held = v.held /\ u.screen = v.screen /\ u.pixels = v.pixels
         /\ u.frame = v.frame /\ u.sought = v.sought
<1> DEFINE u == Reduced(v, C, F, L)
<1>1. v \in View
  BY DEF Good
<1>2. /\ u \in View /\ u.current = v.current /\ u.held = v.held /\ u.cache = v.cache /\ u.uncached = v.uncached
      /\ u.frame = v.frame /\ u.pending = v.pending /\ u.contexts = C /\ u.sought = v.sought
      /\ u.screen = v.screen /\ u.pixels = v.pixels
  BY <1>1 DEF View, Reduced
<1> HIDE DEF u
<1>3. OneContext(u) /\ FrameOK(u)
  BY <1>2 DEF Good, OneContext, FrameOK
<1>4. Good(u)
  BY <1>2, <1>3 DEF Good
<1>5. Steady(u)
  BY <1>2 DEF Steady
<1> QED BY <1>2, <1>4, <1>5 DEF u

\* Every handler of the window.
LEMMA WindowStep ==
  ASSUME IInv, NEW w, Fine(w), SameWork(loader, w.l), Steady(w.v), Answers(view, w.v), Becomes(w),
         results' \in Seq(Result), showQueued' \in BOOLEAN
  PROVE  IInv' /\ Answers(view, view') /\ UNCHANGED scratch
<1>1. PICK u : u = view'
  OBVIOUS
<1>2. PICK C, F, L : /\ C \subseteq w.v.contexts /\ F \subseteq w.v.frameRequests /\ L \subseteq w.v.lost
                     /\ view' = [w.v EXCEPT !.contexts = C, !.frameRequests = F, !.lost = L]
  <2> DEFINE live == Carried(w.l) \cup {results'[k].id : k \in DOMAIN results'}
             c == {x \in w.v.contexts : x.id \in live}
             f == w.v.frameRequests \cap live
             l == w.v.lost \cap w.v.pending
  <2>1. view' = [w.v EXCEPT !.contexts = c, !.frameRequests = f, !.lost = l]
    BY Zenon DEF Becomes
  <2>2. c \subseteq w.v.contexts /\ f \subseteq w.v.frameRequests /\ l \subseteq w.v.lost
    OBVIOUS
  <2> HIDE DEF c, f, l
  <2> QED BY <2>1, <2>2
<1>3. /\ Good(u) /\ Steady(u) /\ u.held = w.v.held /\ u.screen = w.v.screen /\ u.pixels = w.v.pixels
      /\ u.frame = w.v.frame /\ u.sought = w.v.sought
  <2>1. PICK v : v = w.v
    OBVIOUS
  <2>2. Good(v) /\ Steady(v)
    BY <2>1 DEF Fine
  <2>3. C \subseteq v.contexts /\ F \subseteq v.frameRequests /\ L \subseteq v.lost /\ u = Reduced(v, C, F, L)
    BY <1>1, <1>2, <2>1 DEF Reduced
  <2>4. /\ Good(u) /\ Steady(u) /\ u.held = v.held /\ u.screen = v.screen /\ u.pixels = v.pixels
        /\ u.frame = v.frame /\ u.sought = v.sought
    BY ONLY <2>2, <2>3, RestIs
  <2> QED BY <2>1, <2>4
<1>4. Answers(view, u)
  BY <1>3 DEF Answers
<1>5. loader' = w.l /\ reader' = reader /\ group' = group /\ scratch' = scratch /\ disk' = disk
  BY DEF Becomes
<1>6. LoaderTypeOK' /\ ThreadOK'
  BY <1>5 DEF IInv, LoaderTypeOK, ThreadOK, SameWork, Fine, LoaderOK
<1>7. Good(view') /\ Steady(view') /\ Answers(view, view')
  BY <1>1, <1>3, <1>4
<1> QED BY <1>5, <1>6, <1>7 DEF IInv

\* A handler that ends in show_image.
LEMMA ShowStep ==
  ASSUME IInv, NEW x, Fine(x), SameWork(loader, x.l), x.v.frame.index \in {0, view.frame.index},
         view.held /\ x.v.held => x.v.pixels = view.pixels, Becomes(ShowImage(x)),
         results' \in Seq(Result), showQueued' \in BOOLEAN
  PROVE  IInv' /\ Answers(view, view') /\ UNCHANGED scratch
<1>1. PICK u : u = ShowImage(x)
  OBVIOUS
<1>2. Showed(x, u)
  BY <1>1, NowIs, ShowImageIs
<1>3. PICK n : n = Now
  OBVIOUS
<1>4. n.l = loader /\ n.v = view
  BY <1>3, NowIs
<1>5. Serves(n, u)
  BY <1>2, <1>4, Serving
<1>6. Becomes(u)
  BY <1>1
<1> QED BY <1>4, <1>5, <1>6, WindowStep DEF Serves

\* What the user does leaves the event queue alone.
LEMMA Unqueued == ASSUME IInv, User PROVE results' \in Seq(Result) /\ showQueued' \in BOOLEAN
  BY DEF IInv, LoaderTypeOK, User

\* Refresh and ShowLater show the selected image again.
LEMMA RefreshStep == ASSUME IInv, Refresh PROVE IInv' /\ Answers(view, view') /\ UNCHANGED scratch
<1>1. User /\ Becomes(ShowImage(Now))
  BY DEF Refresh
<1>2. PICK n : n = Now
  OBVIOUS
<1>3. Fine(n) /\ n.l = loader /\ n.v = view /\ Becomes(ShowImage(n))
  BY <1>1, <1>2, NowIs
<1> QED BY <1>1, <1>3, Unqueued, ShowStep DEF SameWork

LEMMA ShowLaterStep == ASSUME IInv, ShowLater PROVE IInv' /\ Answers(view, view') /\ UNCHANGED scratch
<1>1. Becomes(ShowImage(Now)) /\ results' \in Seq(Result) /\ showQueued' \in BOOLEAN
  BY DEF ShowLater, Called, IInv, LoaderTypeOK
<1>2. PICK n : n = Now
  OBVIOUS
<1>3. Fine(n) /\ n.l = loader /\ n.v = view /\ Becomes(ShowImage(n))
  BY <1>1, <1>2, NowIs
<1> QED BY <1>1, <1>3, ShowStep DEF SameWork

\* The turns of the window that Select and MoveDone make.
LEMMA TurnedNow ==
  ASSUME IInv, NEW f \in Files, NEW h \in BOOLEAN, h => view.frame = NoFrame,
         NEW x, x = [l |-> loader, v |-> Turned(view, f, view.gen, h, view.closing)]
  PROVE  Fine(x) /\ SameWork(loader, x.l) /\ x.v.held = h /\ x.v.frame = view.frame /\ x.v.pixels = view.pixels
<1>1. PICK u : u = Turned(view, f, view.gen, h, view.closing)
  OBVIOUS
<1>2. PICK v, g, c : v = view /\ g = view.gen /\ c = view.closing
  OBVIOUS
<1>3. Good(v) /\ g \in Nat /\ c \in BOOLEAN
  BY <1>2, NowIs DEF View
<1>4. Good(u) /\ u.held = h /\ u.frame = v.frame /\ u.pixels = v.pixels
  BY <1>1, <1>2, <1>3, TurnedIs
<1>5. x = [l |-> x.l, v |-> x.v] /\ x.l = loader /\ x.v = u
  BY <1>1
<1> QED BY <1>2, <1>4, <1>5, NowIs DEF Fine, SameWork

\* The fields a turn names are the ones it changes.
LEMMA TurnedSame ==
  ASSUME NEW v \in View, NEW f, NEW h
  PROVE  /\ [v EXCEPT !.current = f, !.held = h] = Turned(v, f, v.gen, h, v.closing)
         /\ [v EXCEPT !.current = f] = Turned(v, f, v.gen, v.held, v.closing)
         /\ [v EXCEPT !.held = h] = Turned(v, v.current, v.gen, h, v.closing)
         /\ [v EXCEPT !.closing = h] = Turned(v, v.current, v.gen, v.held, h)
         /\ [v EXCEPT !.held = h, !.gen = f] = Turned(v, v.current, f, h, v.closing)
  BY DEF View, Turned

\* Another image is selected, with and without an end of the hold.
LEMMA SelectStep ==
  ASSUME IInv, NEW f \in Files, Select(f) PROVE IInv' /\ Answers(view, view') /\ UNCHANGED scratch
<1>0. PICK h \in BOOLEAN : h = FALSE
  OBVIOUS
<1>1. User /\ Becomes(ShowImage([Now EXCEPT !.v.current = f, !.v.held = h]))
  BY <1>0 DEF Select
<1>2. PICK x : x = [l |-> loader, v |-> Turned(view, f, view.gen, h, view.closing)]
  OBVIOUS
<1>3. [Now EXCEPT !.v.current = f, !.v.held = h] = x
  <2>1. PICK n : n = Now
    OBVIOUS
  <2>2. [n EXCEPT !.v.current = f, !.v.held = h] = [n EXCEPT !.v = [n.v EXCEPT !.current = f, !.held = h]]
    <3>1. n \in [l : {loader}, v : {view}] /\ view \in View
      BY <2>1, NowIs DEF Now
    <3> QED BY <3>1 DEF View
  <2>3. n.v = view /\ n = [l |-> loader, v |-> view]
    BY <2>1 DEF Now
  <2>4. [n.v EXCEPT !.current = f, !.held = h] = Turned(view, f, view.gen, h, view.closing)
    <3>1. PICK v \in View : v = view
      BY NowIs
    <3>2. [v EXCEPT !.current = f, !.held = h] = Turned(v, f, v.gen, h, v.closing)
      BY ONLY DEF Turned, View
    <3> QED BY <2>3, <3>1, <3>2
  <2>5. PICK t : t = [n.v EXCEPT !.current = f, !.held = h]
    OBVIOUS
  <2>6. [n EXCEPT !.v = t] = [l |-> loader, v |-> t]
    BY <2>3
  <2> QED BY <1>2, <2>1, <2>2, <2>4, <2>5, <2>6
<1>4. Fine(x) /\ SameWork(loader, x.l) /\ x.v.held = h /\ x.v.frame = view.frame /\ x.v.pixels = view.pixels
  BY <1>0, <1>2, TurnedNow
<1>5. Becomes(ShowImage(x))
  BY <1>1, <1>3
<1> QED BY <1>0, <1>1, <1>4, <1>5, Unqueued, ShowStep

LEMMA MoveDoneStep ==
  ASSUME IInv, NEW f \in Files, MoveDone(f) PROVE IInv' /\ Answers(view, view') /\ UNCHANGED scratch
<1>1. User /\ view.held /\ Becomes(ShowImage([Now EXCEPT !.v.current = f]))
  BY DEF MoveDone
<1>2. PICK x : x = [l |-> loader, v |-> Turned(view, f, view.gen, view.held, view.closing)]
  OBVIOUS
<1>3. [Now EXCEPT !.v.current = f] = x
  <2>1. [Now EXCEPT !.v.current = f] = [l |-> loader, v |-> [view EXCEPT !.current = f]]
    BY DEF Now
  <2> QED BY <1>2, <2>1, NowIs, TurnedSame
<1>4. Fine(x) /\ SameWork(loader, x.l) /\ x.v.frame = view.frame /\ x.v.pixels = view.pixels
  <2>1. view.held \in BOOLEAN /\ (view.held => view.frame = NoFrame)
    BY NowIs DEF Good, View
  <2>2. PICK h : h = view.held
    OBVIOUS
  <2>3. h \in BOOLEAN /\ (h => view.frame = NoFrame)
    BY <2>1, <2>2
  <2>4. x = [l |-> loader, v |-> Turned(view, f, view.gen, h, view.closing)]
    BY <1>2, <2>2
  <2> QED BY <2>3, <2>4, TurnedNow
<1>5. Becomes(ShowImage(x))
  BY <1>1, <1>3
<1> QED BY <1>1, <1>4, <1>5, Unqueued, ShowStep

\* The window and the loader after the cache was emptied; then another turn of the window.
LEMMA ClearedStep ==
  ASSUME IInv, NEW a, Fine(a), SameWork(loader, a.l), a.v.pixels = view.pixels,
         NEW f \in Files, NEW h \in BOOLEAN, view.held => ~h,
         NEW b, b = ClearCache(a),
         NEW x, x = [l |-> b.l, v |-> Turned(b.v, f, b.v.gen, h, b.v.closing)], Becomes(ShowImage(x)),
         results' \in Seq(Result), showQueued' \in BOOLEAN
  PROVE  IInv' /\ Answers(view, view') /\ UNCHANGED scratch
<1>1. Fine(b) /\ SameWork(a.l, b.l) /\ b.v.frame = NoFrame
  BY ClearCacheIs
<1>2. PICK v, g, c : v = b.v /\ g = b.v.gen /\ c = b.v.closing
  OBVIOUS
<1>3. Good(v) /\ g \in Nat /\ c \in BOOLEAN /\ v.frame = NoFrame
  BY <1>1, <1>2 DEF Fine, Good, View
<1>4. PICK u : u = Turned(v, f, g, h, c)
  OBVIOUS
<1>5. Good(u) /\ u.held = h /\ u.frame = v.frame
  BY <1>3, <1>4, TurnedIs
<1>6. x = [l |-> x.l, v |-> x.v] /\ x.l = b.l /\ x.v = u
  BY <1>2, <1>4
<1>7. Fine(x) /\ SameWork(loader, x.l)
  BY <1>1, <1>5, <1>6 DEF Fine, SameWork
<1>8. x.v.frame.index = 0 /\ ~(view.held /\ x.v.held)
  BY <1>3, <1>5, <1>6 DEF NoFrame
<1> QED BY <1>7, <1>8, ShowStep

\* A listing begins with an image.
LEMMA FirstFile == Min(Files) \in Files
<1>1. \E x \in Files : \A y \in Files : x <= y
  BY LoaderAssumption, LeastNumber
<1> QED BY <1>1 DEF Min

\* load_images.
LEMMA LoadImagesStep == ASSUME IInv, LoadImages PROVE IInv' /\ Answers(view, view') /\ UNCHANGED scratch
<1>1. PICK h \in BOOLEAN : h = FALSE
  OBVIOUS
<1>2. PICK g : g = view.gen + 1
  OBVIOUS
<1>3. PICK a : a = [l |-> ClearTasks(loader, g), v |-> [view EXCEPT !.held = h, !.gen = g]]
  OBVIOUS
<1>4. PICK b : b = ClearCache(a)
  OBVIOUS
<1>5. User /\ Becomes(ShowImage([b EXCEPT !.v.current = Min(Files)]))
  BY <1>1, <1>2, <1>3, <1>4 DEF LoadImages
<1>6. PICK v \in View : v = view /\ Good(v) /\ v.current \in Files /\ v.closing \in BOOLEAN /\ v.gen \in Nat
  BY NowIs DEF View
<1>7. PICK u : u = Turned(v, v.current, g, h, v.closing)
  OBVIOUS
<1>8. Good(u) /\ u.held = h /\ u.pixels = v.pixels
  <2>1. PICK f, c : f = v.current /\ c = v.closing
    OBVIOUS
  <2>2. f \in Files /\ c \in BOOLEAN /\ g \in Nat
    BY <1>2, <1>6, <2>1
  <2> QED BY <1>1, <1>6, <1>7, <2>1, <2>2, TurnedIs
<1>9. [v EXCEPT !.held = h, !.gen = g] = u
  BY ONLY <1>6, <1>7 DEF Turned, View
<1>10. PICK l : l = ClearTasks(loader, g)
  OBVIOUS
<1>11. LoaderOK(l) /\ SameWork(loader, l)
  BY <1>2, <1>6, <1>10, NowIs, ClearTasksIs
<1>12. a = [l |-> a.l, v |-> a.v] /\ a.l = l /\ a.v = u
  BY <1>3, <1>6, <1>9, <1>10
<1>13. Fine(a) /\ SameWork(loader, a.l) /\ a.v.pixels = view.pixels
  BY <1>6, <1>8, <1>11, <1>12 DEF Fine
<1>14. Fine(b) /\ b.v.held = a.v.held
  BY <1>4, <1>13, ClearCacheIs
<1>15. PICK f : f = Min(Files)
  OBVIOUS
<1>16. f \in Files
  BY <1>15, FirstFile
<1>17. PICK x : x = [l |-> b.l, v |-> Turned(b.v, f, b.v.gen, h, b.v.closing)]
  OBVIOUS
<1>18. [b EXCEPT !.v.current = Min(Files)] = x
  <2>1. [b EXCEPT !.v.current = Min(Files)] = [l |-> b.l, v |-> [b.v EXCEPT !.current = f]]
    BY <1>14, <1>15 DEF Fine
  <2>2. PICK y \in View : y = b.v /\ y.held = h
    BY <1>8, <1>12, <1>14 DEF Fine, Good
  <2>3. [y EXCEPT !.current = f] = Turned(y, f, y.gen, y.held, y.closing)
    BY ONLY DEF Turned, View
  <2> QED BY <1>17, <2>1, <2>2, <2>3
<1>19. Becomes(ShowImage(x))
  BY <1>5, <1>18
<1>20. results' \in Seq(Result) /\ showQueued' \in BOOLEAN
  BY <1>5, Unqueued
<1> QED BY <1>1, <1>4, <1>13, <1>16, <1>17, <1>19, <1>20, ClearedStep

\* trigger_file_action of a move that holds the image.
LEMMA HoldMoveStep == ASSUME IInv, HoldMove PROVE IInv' /\ Answers(view, view') /\ UNCHANGED scratch
<1>1. PICK h \in BOOLEAN : h = TRUE
  OBVIOUS
<1>2. PICK a : a = [l |-> ClearTasks(loader, view.gen), v |-> view]
  OBVIOUS
<1>3. PICK b : b = ClearCache(a)
  OBVIOUS
<1>4. User /\ ~view.held /\ Becomes(ShowImage([b EXCEPT !.v.held = h]))
  BY <1>1, <1>2, <1>3 DEF HoldMove
<1>5. PICK l, g : l = ClearTasks(loader, g) /\ g = view.gen
  OBVIOUS
<1>6. g \in Nat /\ Good(view) /\ LoaderOK(loader)
  BY <1>5, NowIs DEF View
<1>7. LoaderOK(l) /\ SameWork(loader, l)
  BY <1>5, <1>6, ClearTasksIs
<1>8. a = [l |-> a.l, v |-> a.v] /\ a.l = l /\ a.v = view
  BY <1>2, <1>5
<1>9. Fine(a) /\ SameWork(loader, a.l) /\ a.v.pixels = view.pixels
  BY <1>6, <1>7, <1>8 DEF Fine
<1>10. Fine(b)
  BY <1>3, <1>9, ClearCacheIs
<1>11. PICK y \in View : y = b.v
  BY <1>10 DEF Fine, Good
<1>12. PICK f \in Files : f = y.current
  BY <1>11 DEF View
<1>13. PICK x : x = [l |-> b.l, v |-> Turned(b.v, f, b.v.gen, h, b.v.closing)]
  OBVIOUS
<1>14. [b EXCEPT !.v.held = h] = x
  <2>1. [b EXCEPT !.v.held = h] = [l |-> b.l, v |-> [b.v EXCEPT !.held = h]]
    BY <1>10 DEF Fine
  <2>2. [y EXCEPT !.held = h] = Turned(y, y.current, y.gen, h, y.closing)
    BY ONLY DEF Turned, View
  <2> QED BY <1>11, <1>12, <1>13, <2>1, <2>2
<1>15. Becomes(ShowImage(x))
  BY <1>4, <1>14
<1>16. results' \in Seq(Result) /\ showQueued' \in BOOLEAN
  BY <1>4, Unqueued
<1> QED BY <1>3, <1>4, <1>9, <1>12, <1>13, <1>15, <1>16, ClearedStep

\* closeEvent.
LEMMA CloseStep == ASSUME IInv, Close PROVE IInv' /\ Answers(view, view') /\ UNCHANGED scratch
<1>1. PICK h \in BOOLEAN : h = TRUE
  OBVIOUS
<1>2. PICK x : x = [l |-> RequestStop(loader), v |-> [view EXCEPT !.closing = h]]
  OBVIOUS
<1>3. User /\ Becomes(x)
  BY <1>1, <1>2 DEF Close
<1>4. PICK v \in View : v = view /\ Good(v) /\ Steady(v) /\ v.current \in Files /\ v.held \in BOOLEAN /\ v.gen \in Nat
  BY NowIs DEF View
<1>5. PICK u : u = Turned(v, v.current, v.gen, v.held, h)
  OBVIOUS
<1>6. [v EXCEPT !.closing = h] = u
  BY ONLY <1>5 DEF Turned, View
<1>7. /\ Good(u) /\ u.held = v.held /\ u.pixels = v.pixels /\ u.frame = v.frame /\ u.screen = v.screen
      /\ u.current = v.current
  <2>1. PICK f, g, k : f = v.current /\ g = v.gen /\ k = v.held
    OBVIOUS
  <2>2. f \in Files /\ g \in Nat /\ k \in BOOLEAN /\ (k => v.frame = NoFrame) /\ u = Turned(v, f, g, k, h) /\ Good(v)
    BY <1>4, <1>5, <2>1 DEF Good
  <2>3. Good(Turned(v, f, g, k, h))
    BY ONLY <1>1, <2>2, TurnedIs
  <2>4. /\ u.current = v.current /\ u.held = v.held /\ u.frame = v.frame /\ u.screen = v.screen
        /\ u.pixels = v.pixels
    BY ONLY <1>4, <1>5 DEF Turned, View
  <2> QED BY <2>2, <2>3, <2>4
<1>8. Steady(u) /\ Answers(v, u)
  BY <1>4, <1>7 DEF Steady, Answers
<1>9. PICK l : l = RequestStop(loader)
  OBVIOUS
<1>10. LoaderOK(l) /\ SameWork(loader, l)
  BY <1>9, NowIs, RequestStopIs
<1>11. x = [l |-> x.l, v |-> x.v] /\ x.l = l /\ x.v = u
  BY <1>2, <1>4, <1>6, <1>9
<1>12. Fine(x) /\ SameWork(loader, x.l) /\ Steady(x.v) /\ Answers(view, x.v)
  BY <1>4, <1>7, <1>8, <1>10, <1>11 DEF Fine
<1> QED BY <1>3, <1>12, Unqueued, WindowStep

\* _seek_frame.
LEMMA SeekStep ==
  ASSUME IInv, NEW n \in Frames, SeekFrame(n)
  PROVE  IInv' /\ Answers(view, view') /\ UNCHANGED scratch
<1>1. PICK w : w = Now
  OBVIOUS
<1>2. Fine(w) /\ DiskOK /\ Steady(w.v) /\ w.l = loader /\ w.v = view /\ Good(view) /\ view \in View
  BY <1>1, NowIs
<1>3. User /\ view.frame.many
  BY DEF SeekFrame
<1>4. ~view.held
  BY <1>2, <1>3 DEF Good, NoFrame
<1>5. results' \in Seq(Result) /\ showQueued' \in BOOLEAN
  BY <1>3, Unqueued
<1>6. PICK f : f = view.frame.base.file
  OBVIOUS
<1>7. f \in Files
  BY <1>2, <1>4, <1>6 DEF Steady, View
<1>8. \/ view.frame.base # Key(f, 0) /\ Becomes(ShowImage(DropFrame(w)))
      \/ view.frame.base = Key(f, 0) /\ CachedFrame(Looked(w, n), Key(f, n)) /\ Becomes(SeekCached(w, n))
      \/ view.frame.base = Key(f, 0) /\ Becomes(SeekAsked(w, n))
  <2> DEFINE x == Seeking(w, n)
             a == AddTask(x, f, n, 0)
             v == [x.v EXCEPT !.cache = Touch(@, Key(f, n))]
  <2>1. \/ view.frame.base # Key(f, 0) /\ Becomes(ShowImage(DropFrame(w)))
        \/ view.frame.base = Key(f, 0) /\ CachedFrame(v, Key(f, n))
           /\ Becomes([x EXCEPT !.v = Present(v, n, Pixels(v, Key(f, n)))])
        \/ view.frame.base = Key(f, 0)
           /\ Becomes([l |-> a.l, v |-> [a.v EXCEPT
                        !.contexts = Context(a.v, a.id), !.frameRequests = @ \cup {a.id},
                        !.frame.request = a.id,
                        !.lost = @ \cup ({a.id} \cap a.v.pending)]])
    BY <1>1, <1>6, Zenon DEF SeekFrame, Seeking
  <2>2. v = Looked(w, n)
    BY <1>2, <1>6, Zenon DEF Looked
  <2>3. SeekCached(w, n) = [x EXCEPT !.v = Present(v, n, Pixels(v, Key(f, n)))]
    BY <1>2, <1>6, <2>2, Zenon DEF SeekCached
  <2>4. SeekAsked(w, n) = [l |-> a.l, v |-> [a.v EXCEPT
                        !.contexts = Context(a.v, a.id), !.frameRequests = @ \cup {a.id},
                        !.frame.request = a.id,
                        !.lost = @ \cup ({a.id} \cap a.v.pending)]]
    BY <1>2, <1>6, Zenon DEF SeekAsked
  <2> HIDE DEF x, a, v
  <2> QED BY <2>1, <2>2, <2>3, <2>4
<1>9. CASE Becomes(ShowImage(DropFrame(w)))
  <2>1. PICK x : x = DropFrame(w)
    OBVIOUS
  <2>2. Fine(x) /\ SameWork(w.l, x.l) /\ Asked(w.v, x.v)
    BY <1>2, <2>1, DropFrameIs
  <2>3. view.frame \in FrameBar
    BY <1>2 DEF View
  <2>4. x.v.frame.index = view.frame.index
    BY <1>2, <2>2, <2>3 DEF Asked, FrameBar
  <2>5. Becomes(ShowImage(x))
    BY <1>9, <2>1
  <2> QED BY <1>2, <1>4, <1>5, <2>2, <2>4, <2>5, ShowStep
<1>10. ASSUME NEW u, Serves(w, u), Becomes(u) PROVE IInv' /\ Answers(view, view') /\ UNCHANGED scratch
  BY <1>2, <1>5, <1>10, WindowStep DEF Serves
<1>11. CASE view.frame.base = Key(f, 0) /\ CachedFrame(Looked(w, n), Key(f, n)) /\ Becomes(SeekCached(w, n))
  <2>1. PICK u : u = SeekCached(w, n)
    OBVIOUS
  <2>2. Serves(w, u)
    BY <1>2, <1>4, <1>6, <1>7, <1>11, <2>1, SeekCachedIs
  <2>3. Becomes(u)
    BY <1>11, <2>1
  <2> QED BY <1>10, <2>2, <2>3
<1>12. CASE view.frame.base = Key(f, 0) /\ Becomes(SeekAsked(w, n))
  <2>1. PICK u : u = SeekAsked(w, n)
    OBVIOUS
  <2>2. Serves(w, u)
    BY <1>2, <1>4, <1>6, <1>7, <1>12, <2>1, SeekAskedIs
  <2>3. Becomes(u)
    BY <1>12, <2>1
  <2> QED BY <1>10, <2>2, <2>3
<1> QED BY <1>8, <1>9, <1>11, <1>12

\* A queued image_ready.
LEMMA DeliverStep == ASSUME IInv, Deliver PROVE IInv' /\ Answers(view, view') /\ UNCHANGED scratch
<1>1. PICK w : w = Now
  OBVIOUS
<1>2. Fine(w) /\ DiskOK /\ Steady(w.v) /\ w.l = loader /\ w.v = view
  BY <1>1, NowIs
<1>3. PICK r : r = Head(results)
  OBVIOUS
<1>4. results # <<>> /\ results' = Tail(results) /\ results \in Seq(Result)
  BY DEF Deliver, Shift, IInv, LoaderTypeOK
<1>5. r \in Result /\ results' \in Seq(Result)
  BY <1>3, <1>4, HeadTailProperties
<1>6. r.id \in Ids /\ r.version \in Nat
  BY <1>5 DEF Result
<1>7. showQueued' \in BOOLEAN
  BY DEF Deliver, IInv
<1>8. PICK u : u = OnImageReady(w, r)
  OBVIOUS
<1>9. Becomes(u)
  BY <1>1, <1>3, <1>8 DEF Deliver
<1>10. Serves(w, u)
  BY <1>2, <1>6, <1>8, OnImageReadyIs
<1> QED BY <1>2, <1>5, <1>7, <1>9, <1>10, WindowStep DEF Serves

\* The decoder thread, the readers and the disk.
LEMMA LoaderStep ==
  ASSUME IInv, LoaderNext PROVE LoaderTypeOK' /\ ThreadOK' /\ (scratch /\ ~scratch' => group = {})
<1>1. /\ LoaderOK(loader) /\ reader \in [stage : Stages, version : Nat] /\ scratch \in BOOLEAN
      /\ group \subseteq Members /\ results \in Seq(Result) /\ disk \in [Files -> Nat \ {0}] /\ ThreadOK
      /\ loader.queue \in Seq(Request)
      /\ loader = [queue |-> loader.queue, active |-> loader.active, gen |-> loader.gen, running |-> loader.running]
  BY DEF IInv, LoaderTypeOK, LoaderOK
<1>2. ASSUME loader.queue # <<>>
      PROVE  /\ Taken \in 1 .. Len(loader.queue) /\ loader.queue[Taken] \in Request
             /\ RemoveAt(loader.queue, Taken) \in Seq(Request)
             /\ Len(RemoveAt(loader.queue, Taken)) = Len(loader.queue) - 1 /\ Len(loader.queue) \in Nat
  <2>1. PICK q, t : q = loader.queue /\ t = Taken
    OBVIOUS
  <2>2. t \in 1 .. Len(q) /\ q \in Seq(Request) /\ Len(q) \in Nat
    BY <1>1, <1>2, <2>1, MostUrgentIs, LenProperties DEF Taken
  <2>3. q[t] \in Request
    BY <2>2, QueueFacts
  <2>4. RemoveAt(q, t) \in Seq(Request) /\ Len(RemoveAt(q, t)) = Len(q) - 1
    BY <2>2, RemoveAtIs
  <2> QED BY <2>1, <2>2, <2>3, <2>4
<1>3. ASSUME NEW r \in Request, NEW v \in Nat, Emit(r, v) PROVE results' \in Seq(Result)
  <2>1. PICK e : e = [id |-> r.id, gen |-> r.gen, version |-> v]
    OBVIOUS
  <2>2. e \in Result
    BY <2>1 DEF Result, Request
  <2> QED BY <1>1, <1>3, <2>1, <2>2, AppendProperties DEF Emit
<1>4. ASSUME loader' = [loader EXCEPT !.active = NoRequest] PROVE LoaderOK(loader')
  BY <1>1, <1>4 DEF LoaderOK
<1>5. CASE End
  BY <1>1, <1>5 DEF End, LoaderTypeOK, LoaderOK, ThreadOK, Stages
<1>6. CASE SkipObsolete
  <2>1. PICK r, q : r = loader.queue[Taken] /\ q = RemoveAt(loader.queue, Taken)
    OBVIOUS
  <2>2. r \in Request /\ q \in Seq(Request) /\ Len(q) <= Capacity
    BY <1>1, <1>2, <1>6, <2>1, LoaderAssumption DEF SkipObsolete, LoaderOK
  <2>3. Emit(r, 0) /\ loader' = [loader EXCEPT !.queue = q]
    BY <1>6, <2>1 DEF SkipObsolete
  <2>4. LoaderOK(loader') /\ results' \in Seq(Result)
    BY <1>1, <1>3, <2>2, <2>3 DEF LoaderOK
  <2> QED BY <1>1, <1>6, <2>4 DEF SkipObsolete, LoaderTypeOK, LoaderOK, ThreadOK, At
<1>7. CASE Start
  <2>1. PICK r, q : r = loader.queue[Taken] /\ q = RemoveAt(loader.queue, Taken)
    OBVIOUS
  <2>2. r \in Request /\ q \in Seq(Request) /\ Len(q) <= Capacity
    BY <1>1, <1>2, <1>7, <2>1, LoaderAssumption DEF Start, LoaderOK
  <2>3. loader' = [loader EXCEPT !.queue = q, !.active = r]
    BY <1>7, <2>1 DEF Start
  <2>4. LoaderOK(loader') /\ loader'.active \in Request
    BY <1>1, <2>2, <2>3 DEF LoaderOK
  <2> QED BY <1>1, <1>7, <2>4 DEF Start, LoaderTypeOK, LoaderOK, ThreadOK, Stages, Members
<1>8. CASE ReadInput
  <2>1. loader.active.id.file \in Files
    BY <1>1, <1>8 DEF ReadInput, ThreadOK, At, Request, Ids
  <2> QED BY <1>1, <1>8, <2>1 DEF ReadInput, LoaderTypeOK, LoaderOK, ThreadOK, At, Stages
<1>9. CASE ReaderAnswers
  BY <1>1, <1>9 DEF ReaderAnswers, Reply, Ended, LoaderTypeOK, LoaderOK, ThreadOK, At, Stages, Members
<1>10. CASE GiveUp
  BY <1>1, <1>10 DEF GiveUp, Ended, LoaderTypeOK, LoaderOK, ThreadOK, At, Stages, Members
<1>11. CASE CleanUp
  <2>1. loader.active \in Request /\ At("killed") /\ reader.version \in Nat
    BY <1>1, <1>11 DEF CleanUp, ThreadOK, At
  <2>2. scratch' \in BOOLEAN /\ group' = {} /\ (scratch' \/ group = {}) /\ disk' = disk
    BY <1>11 DEF CleanUp, GroupStopped
  <2>3. CASE Finish(0)
    BY <1>1, <1>3, <1>4, <2>1, <2>2, <2>3 DEF Finish, Quiet, Stages, LoaderTypeOK, LoaderOK, ThreadOK
  <2>4. CASE reader' = [reader EXCEPT !.stage = "emitting"] /\ UNCHANGED <<loader, results>>
    BY <1>1, <2>1, <2>2, <2>4 DEF Stages, LoaderTypeOK, LoaderOK, ThreadOK
  <2> QED BY <1>11, <2>3, <2>4 DEF CleanUp
<1>12. CASE EmitResult
  <2>1. loader.active \in Request /\ reader.version \in Nat
    BY <1>1, <1>12 DEF EmitResult, ThreadOK, At
  <2> QED BY <1>1, <1>3, <1>4, <1>12, <2>1 DEF EmitResult, Finish, Quiet, Stages, LoaderTypeOK, LoaderOK, ThreadOK
<1>13. ASSUME NEW f \in Volatile, Change(f) PROVE LoaderTypeOK' /\ ThreadOK' /\ (scratch /\ ~scratch' => group = {})
  <2>1. disk' \in [Files -> Nat \ {0}]
    <3>1. f \in Files /\ disk[f] + 1 \in Nat \ {0}
      BY <1>1, LoaderAssumption
    <3> QED BY <1>1, <1>13, <3>1 DEF Change
  <2> QED BY <1>1, <1>13, <2>1 DEF Change, LoaderTypeOK, LoaderOK, ThreadOK
<1> QED BY <1>5, <1>6, <1>7, <1>8, <1>9, <1>10, <1>11, <1>12, <1>13 DEF LoaderNext, Thread

-----------------------------------------------------------------------------
(* The theorems.                                                            *)

\* The window before its first image.
LEMMA BlankIs ==
  ASSUME NEW f \in Files
  PROVE  Good(Blank(f)) /\ Blank(f).held = FALSE
<1> DEFINE b == Blank(f)
<1>1. 0 \in Frames /\ NoFrame \in FrameBar
  BY LoaderAssumption DEF NoFrame, FrameBar
<1>2. PICK c : c = <<>>
  OBVIOUS
<1>3. CacheOK(c) /\ c \in Seq(Entry)
  BY <1>2, ViewAssumption DEF CacheOK
<1>4. b = [current |-> f, gen |-> 1, held |-> FALSE, screen |-> "loading", pixels |-> NoImage,
           pending |-> {}, contexts |-> {}, frameRequests |-> {}, cache |-> c,
           uncached |-> NoEntry, frame |-> NoFrame, closing |-> FALSE,
           sought |-> 0, lost |-> {}]
  BY <1>2 DEF Blank
<1> HIDE DEF b
<1>5. b \in View
  BY <1>1, <1>3, <1>4 DEF View
<1>6. /\ b.held = FALSE /\ b.frame = NoFrame /\ b.contexts = {} /\ b.pending = {} /\ b.cache = c
      /\ b.uncached = NoEntry
  BY <1>4
<1>7. OneContext(b) /\ FrameOK(b)
  BY <1>6 DEF OneContext, FrameOK, NoFrame
<1>8. Good(b)
  BY <1>3, <1>5, <1>6, <1>7, FS_EmptySet DEF Good, NoEntry
<1>9. Good(b) /\ b.held = FALSE
  BY <1>6, <1>8
<1> QED BY <1>9 DEF b

\* The invariant holds when the loader has been started and the first image asked for.
LEMMA InitIs == ASSUME Init PROVE IInv
<1>1. LoaderOK(NewLoader)
  BY LoaderAssumption DEF NewLoader, LoaderOK
<1>2. PICK f \in Files : f = Min(Files)
  BY FirstFile
<1>3. PICK b : b = Blank(f)
  OBVIOUS
<1>4. PICK x : x = [l |-> NewLoader, v |-> b]
  OBVIOUS
<1>5. x = [l |-> x.l, v |-> x.v] /\ x.l = NewLoader /\ x.v = b
  BY <1>4
<1>6. Fine(x)
  BY <1>1, <1>3, <1>5, BlankIs DEF Fine
<1>7. ThreadInit /\ loader = ShowImage(x).l /\ view = ShowImage(x).v /\ showQueued = FALSE
  BY <1>2, <1>3, <1>4 DEF Init
<1>8. /\ reader = Quiet /\ group = {} /\ scratch = FALSE /\ results \in Seq(Result)
      /\ disk \in [Files -> Nat \ {0}]
  BY <1>7 DEF ThreadInit
<1>9. Showed(x, ShowImage(x))
  BY <1>6, <1>8, ShowImageIs DEF DiskOK
<1>10. LoaderOK(loader) /\ Good(view) /\ Steady(view)
  BY <1>7, <1>9 DEF Showed, Fine
<1>11. LoaderTypeOK
  BY <1>8, <1>10 DEF LoaderTypeOK, LoaderOK, Quiet, Stages, Members
<1>12. ThreadOK
  BY <1>8 DEF ThreadOK, Quiet
<1> QED BY <1>7, <1>10, <1>11, <1>12 DEF IInv

\* Every step keeps it, replaces nothing on the screen that it may not replace, and leaves the
\* scratch directory of a living reader.
LEMMA NextIs ==
  ASSUME IInv, [Next]_vars
  PROVE  IInv' /\ [Answers(view, view')]_vars /\ [scratch /\ ~scratch' => group = {}]_scratch
<1>1. CASE Next
  <2>1. CASE Deliver
    BY <2>1, DeliverStep
  <2>2. CASE ShowLater
    BY <2>2, ShowLaterStep
  <2>3. CASE LoadImages
    BY <2>3, LoadImagesStep
  <2>4. CASE Refresh
    BY <2>4, RefreshStep
  <2>5. CASE HoldMove
    BY <2>5, HoldMoveStep
  <2>6. CASE Close
    BY <2>6, CloseStep
  <2>7. ASSUME NEW f \in Files, Select(f) \/ MoveDone(f)
        PROVE  IInv' /\ [Answers(view, view')]_vars /\ [scratch /\ ~scratch' => group = {}]_scratch
    BY <2>7, SelectStep, MoveDoneStep
  <2>8. ASSUME NEW n \in Frames, SeekFrame(n)
        PROVE  IInv' /\ [Answers(view, view')]_vars /\ [scratch /\ ~scratch' => group = {}]_scratch
    BY <2>8, SeekStep
  <2>9. CASE LoaderNext /\ UNCHANGED <<view, showQueued>>
    <3>1. LoaderTypeOK' /\ ThreadOK' /\ (scratch /\ ~scratch' => group = {})
      BY <2>9, LoaderStep
    <3>2. Steady(view) /\ Answers(view, view)
      BY DEF IInv, Answers, Steady
    <3> QED BY <2>9, <3>1, <3>2 DEF IInv
  <2> QED BY <1>1, <2>1, <2>2, <2>3, <2>4, <2>5, <2>6, <2>7, <2>8, <2>9 DEF Next
<1>2. CASE UNCHANGED vars
  BY <1>2 DEF vars, loaderVars, IInv, LoaderTypeOK, ThreadOK
<1> QED BY <1>1, <1>2

\* The invariant holds in every reachable state, for any images, frames, capacities of the
\* queue and the cache, changes of the files and listings.
THEOREM DecodeInvariance == Spec => []IInv
  BY InitIs, NextIs, PTL DEF Spec

\* Cached pixels are what their key says - this file with this content, this frame - however
\* requests, answers, changes of the file and reused requests cross each other
\* (on_image_ready: "A late result may never relabel changed bytes").
THEOREM CacheIsTrue == Spec => []CacheTruth
<1>1. IInv => CacheTruth
  BY DEF IInv, Good, CacheOK, CacheTruth, TypeOK
<1> QED BY <1>1, DecodeInvariance, PTL

\* The picture on the screen is of the selected file, it is the frame the frame bar names, and
\* all frames shown of a file are of the same content.
THEOREM ScreenIsTrue == Spec => []ScreenTruth
<1>1. IInv => ScreenTruth
  BY DEF IInv, Good, Steady, FrameOf, View, ScreenTruth
<1> QED BY <1>1, DecodeInvariance, PTL

\* An answer that comes in late replaces nothing but what it was asked for: a held snapshot
\* stays until its hold ends (trigger_file_action: "a late callback cannot replace"), and a
\* frame is presented only if it is the one sought last.
THEOREM LateAnswersReplaceNothing == Spec => LateAnswers
<1>1. IInv /\ [Next]_vars =>
      [/\ view.held /\ view'.held => view'.screen = "held" /\ view'.pixels = view.pixels
       /\ view'.frame.index \notin {0, view.frame.index} => view'.frame.index = view'.sought]_vars
  BY NextIs DEF Answers
<1> QED BY <1>1, DecodeInvariance, PTL DEF Spec, LateAnswers

\* The scratch directory of a reader goes only when no process of its group lives (run_reader:
\* "A kernel-stalled reader still owns its scratch data; preserve it").
THEOREM ScratchIsOwned == Spec => ScratchOwned
<1>1. IInv /\ [Next]_vars => [scratch /\ ~scratch' => group = {}]_scratch
  BY NextIs
<1> QED BY <1>1, DecodeInvariance, PTL DEF Spec, ScratchOwned
=============================================================================
