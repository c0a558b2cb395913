------------------------ MODULE ReviewSessionProofs ------------------------
(***************************************************************************)
(* What the user of the main window can rely on, for any images, folders,  *)
(* operations, lost receipts, repeated receipts and history length: the    *)
(* queue is true, a held image keeps its place, a token is in one place,   *)
(* an undo stops the tagging, and only a returned image takes the screen.  *)
(*                                                                         *)
(* Between an answer of the service and its delivery the queue is wrong,   *)
(* on purpose.  The invariant therefore says by what it differs from the   *)
(* folder: by the successes on their way to the window, of which there is  *)
(* at most one for an image.  That there is one only follows from the      *)
(* journal: one sort is out for an image, one token can return it, and an  *)
(* undo whose receipt was lost has made its token stale.                   *)
(***************************************************************************)
EXTENDS ReviewSession, FiniteSetTheorems, SequenceTheorems, WellFoundedInduction, TLAPS

(* Lists.                                                                   *)

\* Every set of numbers that is not empty has a least one: the form in which the
\* provers can use induction.
LEMMA LeastNumber ==
  ASSUME NEW T, T \subseteq Nat, T # {}
  PROVE  \E x \in T : \A y \in T : x <= y
<1> DEFINE R == {ss \in Nat \X Nat : ss[1] < ss[2]}
<1>1. IsWellFoundedOn(R, Nat)
  BY NatLessThanWellFounded DEF OpToRel
<1>2. PICK x \in T : \A y \in T : ~ (<<y, x>> \in R)
  <2> HIDE DEF R
  <2> QED BY <1>1, WFMin
<1>3. \A y \in T : ~ (y < x)
  BY <1>2
<1> QED BY <1>3

\* And one that is bounded has a greatest.
LEMMA GreatestNumber ==
  ASSUME NEW T, T \subseteq Nat, T # {}, NEW b \in Nat, \A y \in T : y <= b
  PROVE  \E x \in T : \A y \in T : y <= x
<1> DEFINE D == {b - y : y \in T}
<1>1. D \subseteq Nat /\ D # {}
  <2>1. PICK y \in T : TRUE
    OBVIOUS
  <2>2. b - y \in D
    BY <2>1
  <2>3. \A z \in T : b - z \in Nat
    OBVIOUS
  <2> QED BY <2>2, <2>3
<1>2. PICK d \in D : \A e \in D : d <= e
  <2> HIDE DEF D
  <2> QED BY <1>1, LeastNumber
<1>3. PICK x \in T : d = b - x
  BY <1>2
<1>4. \A y \in T : b - x <= b - y
  BY <1>2, <1>3
<1> QED BY <1>3, <1>4

\* f is the recursion of Dropping, for the first m members of s.
KeptBy(s, D, m, f) ==
  f = [n \in 0 .. m |-> IF n = 0 THEN <<>> ELSE IF s[n] \in D THEN f[n - 1] ELSE Append(f[n - 1], s[n])]

\* The recursion of Dropping has a solution for every list.
LEMMA KeptDefined == ASSUME NEW s, NEW D, NEW l \in Nat PROVE \E f : KeptBy(s, D, l, f)
<1> DEFINE Missing == {m \in Nat : ~\E f : KeptBy(s, D, m, f)}
<1>1. ASSUME NEW m \in Missing, \A y \in Missing : m <= y PROVE FALSE
  <2>1. CASE m = 0
    <3> DEFINE f == [n \in 0 .. 0 |-> <<>>]
    <3>1. f = [n \in 0 .. 0 |-> IF n = 0 THEN <<>> ELSE IF s[n] \in D THEN f[n - 1] ELSE Append(f[n - 1], s[n])]
      OBVIOUS
    <3>2. KeptBy(s, D, m, f)
      BY <2>1, <3>1 DEF KeptBy
    <3> QED BY <3>2
  <2>2. CASE m # 0
    <3>1. m - 1 \in Nat /\ m - 1 \notin Missing
      BY <1>1, <2>2
    <3>2. PICK f : KeptBy(s, D, m - 1, f)
      BY <3>1
    <3> DEFINE last == IF s[m] \in D THEN f[m - 1] ELSE Append(f[m - 1], s[m])
               g == [n \in 0 .. m |-> IF n = m THEN last ELSE f[n]]
               h == [n \in 0 .. m |-> IF n = 0 THEN <<>>
                                      ELSE IF s[n] \in D THEN g[n - 1] ELSE Append(g[n - 1], s[n])]
    <3>3. \A n \in 0 .. m : g[n] = h[n]
      <4> TAKE n \in 0 .. m
      <4>1. CASE n = m
        <5>1. g[m - 1] = f[m - 1] /\ g[n] = last
          BY <4>1, <3>1
        <5> QED BY <2>2, <4>1, <5>1
      <4>2. CASE n # m
        <5>1. n \in 0 .. m - 1 /\ g[n] = f[n]
          BY <4>2
        <5>2. f[n] = IF n = 0 THEN <<>> ELSE IF s[n] \in D THEN f[n - 1] ELSE Append(f[n - 1], s[n])
          BY <3>2, <5>1 DEF KeptBy
        <5>3. n # 0 => g[n - 1] = f[n - 1]
          BY <5>1
        <5> QED BY <5>1, <5>2, <5>3
      <4> QED BY <4>1, <4>2
    <3>4. h = [n \in 0 .. m |-> h[n]] /\ g = [n \in 0 .. m |-> g[n]]
      OBVIOUS
    <3>5. g = h
      <4> HIDE DEF g, h
      <4> QED BY <3>3, <3>4
    <3>6. KeptBy(s, D, m, g)
      <4> HIDE DEF g
      <4> QED BY <3>5 DEF KeptBy
    <3> QED BY <3>6
  <2> QED BY <2>1, <2>2
<1>2. Missing = {}
  <2> HIDE DEF Missing
  <2>1. Missing \subseteq Nat
    BY DEF Missing
  <2> QED BY <1>1, <2>1, LeastNumber
<1> QED BY <1>2

\* r has the members of the first n of s that are not in D, in their order.
Selects(s, D, n, r) ==
  /\ Len(r) <= n
  /\ {r[k] : k \in 1 .. Len(r)} = {s[k] : k \in 1 .. n} \ D
  /\ \E at \in [1 .. Len(r) -> 1 .. n] :
       /\ \A k \in 1 .. Len(r) : r[k] = s[at[k]]
       /\ \A j, k \in 1 .. Len(r) : j < k => at[j] < at[k]

\* One more member of s is kept, or not.
LEMMA SelectsMore ==
  ASSUME NEW S, NEW s \in Seq(S), NEW D, NEW n \in Nat, n + 1 \in DOMAIN s,
         NEW r \in Seq(S), Selects(s, D, n, r)
  PROVE  LET q == IF s[n + 1] \in D THEN r ELSE Append(r, s[n + 1])
         IN q \in Seq(S) /\ Selects(s, D, n + 1, q)
<1> DEFINE x == s[n + 1]
<1>0. x \in S /\ DOMAIN s = 1 .. Len(s) /\ Len(r) \in Nat /\ DOMAIN r = 1 .. Len(r) /\ 1 .. n + 1 = (1 .. n) \cup {n + 1}
  <2>1. x \in S /\ DOMAIN s = 1 .. Len(s) /\ Len(r) \in Nat /\ DOMAIN r = 1 .. Len(r)
    BY ElementOfSeq, LenProperties
  <2> QED BY <2>1
<1>1. PICK at \in [1 .. Len(r) -> 1 .. n] :
       /\ \A k \in 1 .. Len(r) : r[k] = s[at[k]]
       /\ \A j, k \in 1 .. Len(r) : j < k => at[j] < at[k]
  BY DEF Selects
<1>2. Len(r) <= n /\ {r[k] : k \in 1 .. Len(r)} = {s[k] : k \in 1 .. n} \ D
  BY DEF Selects
<1>4. {s[k] : k \in 1 .. n + 1} = {s[k] : k \in 1 .. n} \cup {x}
  BY <1>0
<1>5. CASE x \in D
  <2>1. {r[k] : k \in 1 .. Len(r)} = {s[k] : k \in 1 .. n + 1} \ D
    BY <1>2, <1>4, <1>5
  <2>2. at \in [1 .. Len(r) -> 1 .. n + 1]
    BY <1>0
  <2>3. Len(r) <= n + 1
    BY <1>0, <1>2
  <2>4. Selects(s, D, n + 1, r)
    BY <1>1, <2>1, <2>2, <2>3 DEF Selects
  <2> QED BY <1>5, <2>4
<1>6. CASE x \notin D
  <2> DEFINE q == Append(r, x)
             to == [k \in 1 .. Len(r) + 1 |-> IF k = Len(r) + 1 THEN n + 1 ELSE at[k]]
  <2>1. /\ q \in Seq(S) /\ Len(q) = Len(r) + 1 /\ q[Len(r) + 1] = x
        /\ \A k \in 1 .. Len(r) : q[k] = r[k]
    BY <1>0, AppendProperties
  <2> HIDE DEF q
  <2>2. 1 .. Len(q) = (1 .. Len(r)) \cup {Len(r) + 1}
    BY <1>0, <2>1
  <2>3. {q[k] : k \in 1 .. Len(q)} = {r[k] : k \in 1 .. Len(r)} \cup {x}
    <3>1. {q[k] : k \in 1 .. Len(q)} = {q[k] : k \in 1 .. Len(r)} \cup {q[Len(r) + 1]}
      BY <2>2
    <3>2. {q[k] : k \in 1 .. Len(r)} = {r[k] : k \in 1 .. Len(r)}
      BY <2>1
    <3> QED BY <2>1, <3>1, <3>2
  <2>4. {q[k] : k \in 1 .. Len(q)} = {s[k] : k \in 1 .. n + 1} \ D
    BY <1>2, <1>4, <1>6, <2>3
  <2>5. to \in [1 .. Len(q) -> 1 .. n + 1]
    BY <1>0, <2>1
  <2>6. \A k \in 1 .. Len(q) : q[k] = s[to[k]]
    BY <1>0, <1>1, <2>1, <2>2
  <2>7. \A j, k \in 1 .. Len(q) : j < k => to[j] < to[k]
    <3> SUFFICES ASSUME NEW j \in 1 .. Len(q), NEW k \in 1 .. Len(q), j < k PROVE to[j] < to[k]
      OBVIOUS
    <3>1. j \in 1 .. Len(r) /\ at[j] \in 1 .. n /\ to[j] = at[j]
      BY <1>0, <2>1, <2>2
    <3>2. CASE k \in 1 .. Len(r)
      BY <1>0, <1>1, <3>1, <3>2
    <3>3. CASE k = Len(r) + 1
      BY <1>0, <3>1, <3>3, <2>1
    <3> QED BY <2>2, <3>2, <3>3
  <2>8. Len(q) <= n + 1
    BY <1>0, <1>2, <2>1
  <2> HIDE DEF to
  <2>9. Selects(s, D, n + 1, q)
    BY <2>4, <2>5, <2>6, <2>7, <2>8 DEF Selects
  <2> QED BY <1>6, <2>1, <2>9 DEF q
<1> QED BY <1>5, <1>6

\* Dropping leaves the other members, in their order.
LEMMA DroppingIs ==
  ASSUME NEW S, NEW s \in Seq(S), NEW D
  PROVE  Dropping(s, D) \in Seq(S) /\ Selects(s, D, Len(s), Dropping(s, D))
<1> DEFINE kept == CHOOSE f : f = [n \in 0 .. Len(s) |->
                     IF n = 0 THEN <<>> ELSE IF s[n] \in D THEN f[n - 1] ELSE Append(f[n - 1], s[n])]
<1>1. Dropping(s, D) = kept[Len(s)]
  BY DEF Dropping
<1>2. Len(s) \in Nat /\ DOMAIN s = 1 .. Len(s)
  BY LenProperties
<1>3. KeptBy(s, D, Len(s), kept)
  <2>1. \E f : f = [n \in 0 .. Len(s) |->
                     IF n = 0 THEN <<>> ELSE IF s[n] \in D THEN f[n - 1] ELSE Append(f[n - 1], s[n])]
    <3>1. \E f : KeptBy(s, D, Len(s), f)
      BY <1>2, KeptDefined
    <3> QED BY <3>1 DEF KeptBy
  <2> QED BY <2>1 DEF KeptBy
<1> HIDE DEF kept
<1>4. \A n \in 0 .. Len(s) : kept[n] = IF n = 0 THEN <<>> ELSE IF s[n] \in D THEN kept[n - 1] ELSE Append(kept[n - 1], s[n])
  BY <1>3 DEF KeptBy
<1> DEFINE Good(n) == kept[n] \in Seq(S) /\ Selects(s, D, n, kept[n])
           Bad == {n \in 0 .. Len(s) : ~Good(n)}
<1>5. ASSUME NEW m \in Bad, \A y \in Bad : m <= y PROVE FALSE
  <2>1. CASE m = 0
    <3>1. kept[0] = <<>> /\ <<>> \in Seq(S) /\ Len(<<>>) = 0
      BY <1>2, <1>4, EmptySeq
    <3>2. Selects(s, D, 0, <<>>)
      <4>1. 1 .. 0 = {} /\ {<<>>[k] : k \in 1 .. 0} = {} /\ {s[k] : k \in 1 .. 0} = {}
        OBVIOUS
      <4>2. [k \in 1 .. 0 |-> 1] \in [1 .. 0 -> 1 .. 0]
        BY <4>1
      <4>3. \E at \in [1 .. 0 -> 1 .. 0] : /\ \A k \in 1 .. 0 : <<>>[k] = s[at[k]]
                                           /\ \A j, k \in 1 .. 0 : j < k => at[j] < at[k]
        BY <4>1, <4>2
      <4>4. /\ Len(<<>>) = 0 /\ Len(<<>>) <= 0
            /\ {<<>>[k] : k \in 1 .. 0} = {s[k] : k \in 1 .. 0} \ D
        BY <3>1, <4>1
      <4> QED BY <4>3, <4>4 DEF Selects
    <3> QED BY <1>5, <2>1, <3>1, <3>2
  <2>2. CASE m # 0
    <3>1. m \in 0 .. Len(s) /\ m - 1 \in Nat /\ m \in DOMAIN s /\ m = (m - 1) + 1
      BY <1>2, <1>5, <2>2
    <3>2. m - 1 \notin Bad
      BY <1>5, <3>1
    <3>3. Good(m - 1)
      BY <3>1, <3>2
    <3>4. kept[m] = IF s[m] \in D THEN kept[m - 1] ELSE Append(kept[m - 1], s[m])
      BY <1>4, <2>2, <3>1
    <3>5. Good(m)
      BY <3>1, <3>3, <3>4, SelectsMore
    <3> QED BY <1>5, <3>5
  <2> QED BY <2>1, <2>2
<1>6. Bad = {}
  <2>1. Bad \subseteq Nat
    OBVIOUS
  <2> HIDE DEF Bad
  <2> QED BY <1>5, <2>1, LeastNumber
<1> QED BY <1>1, <1>2, <1>6

\* RemoveAt closes the gap; InsertAt moves what follows one place on.
LEMMA RemoveAtIs ==
  ASSUME NEW S, NEW s \in Seq(S), NEW n \in 1 .. Len(s)
  PROVE  LET r == RemoveAt(s, n) IN
         /\ r \in Seq(S) /\ Len(r) = Len(s) - 1
         /\ \A k \in 1 .. Len(s) - 1 : r[k] = IF k < n THEN s[k] ELSE s[k + 1]
<1>1. Len(s) \in Nat /\ DOMAIN s = 1 .. Len(s)
  BY LenProperties
<1> DEFINE a == SubSeq(s, 1, n - 1)
           b == SubSeq(s, n + 1, Len(s))
<1>2. \A k \in 1 .. Len(s) : s[k] \in S
  BY <1>1, ElementOfSeq
<1>3. a \in Seq(S) /\ Len(a) = n - 1 /\ \A k \in 1 .. n - 1 : a[k] = s[k]
  BY <1>1, <1>2, SubSeqProperties
<1>4. b \in Seq(S) /\ Len(b) = Len(s) - n /\ \A k \in 1 .. Len(s) - n : b[k] = s[n + k]
  <2>1. /\ b \in Seq(S) /\ Len(b) = IF n + 1 <= Len(s) THEN Len(s) - (n + 1) + 1 ELSE 0
        /\ \A k \in 1 .. Len(s) - (n + 1) + 1 : b[k] = s[n + 1 + k - 1]
    BY <1>1, <1>2, SubSeqProperties
  <2> HIDE DEF b
  <2>2. Len(b) = Len(s) - n /\ Len(s) - (n + 1) + 1 = Len(s) - n
    <3>1. CASE n + 1 <= Len(s)
      BY <1>1, <2>1, <3>1
    <3>2. CASE ~(n + 1 <= Len(s))
      <4>0. n \in Int /\ 1 <= n /\ n <= Len(s)
        BY <1>1
      <4>1. n = Len(s)
        <5>1. \A x, y \in Int : x <= y /\ ~(x + 1 <= y) => x = y
          OBVIOUS
        <5>2. Len(s) \in Int
          BY <1>1
        <5> QED BY <3>2, <4>0, <5>1, <5>2
      <4>2. Len(b) = 0
        BY <2>1, <3>2
      <4>3. Len(s) - n = 0 /\ Len(s) - (n + 1) + 1 = 0
        BY <1>1, <4>1
      <4> QED BY <4>2, <4>3
    <3> QED BY <3>1, <3>2
  <2>3. \A k \in 1 .. Len(s) - n : n + 1 + k - 1 = n + k
    OBVIOUS
  <2> QED BY <2>1, <2>2, <2>3
<1> HIDE DEF a, b
<1>5. /\ a \o b \in Seq(S) /\ Len(a \o b) = Len(s) - 1
      /\ \A k \in 1 .. Len(s) - 1 : (a \o b)[k] = IF k <= n - 1 THEN a[k] ELSE b[k - (n - 1)]
  <2>1. /\ a \o b \in Seq(S) /\ Len(a \o b) = Len(a) + Len(b)
        /\ \A k \in 1 .. Len(a) + Len(b) : (a \o b)[k] = IF k <= Len(a) THEN a[k] ELSE b[k - Len(a)]
    BY <1>3, <1>4, ConcatProperties
  <2>2. Len(a) + Len(b) = Len(s) - 1
    BY <1>1, <1>3, <1>4
  <2> QED BY <1>3, <2>1, <2>2
<1>6. \A k \in 1 .. Len(s) - 1 : (a \o b)[k] = IF k < n THEN s[k] ELSE s[k + 1]
  BY <1>1, <1>3, <1>4, <1>5
<1> QED BY <1>5, <1>6 DEF RemoveAt, a, b

LEMMA InsertAtIs ==
  ASSUME NEW S, NEW s \in Seq(S), NEW n \in 1 .. Len(s) + 1, NEW e \in S
  PROVE  LET r == InsertAt(s, n, e) IN
         /\ r \in Seq(S) /\ Len(r) = Len(s) + 1
         /\ \A k \in 1 .. Len(s) + 1 : r[k] = IF k < n THEN s[k] ELSE IF k = n THEN e ELSE s[k - 1]
<1>1. Len(s) \in Nat /\ DOMAIN s = 1 .. Len(s)
  BY LenProperties
<1> DEFINE a == SubSeq(s, 1, n - 1)
           b == SubSeq(s, n, Len(s))
           c == a \o <<e>>
<1>2. \A k \in 1 .. Len(s) : s[k] \in S
  BY <1>1, ElementOfSeq
<1>3. a \in Seq(S) /\ Len(a) = n - 1 /\ \A k \in 1 .. n - 1 : a[k] = s[k]
  BY <1>1, <1>2, SubSeqProperties
<1>4. b \in Seq(S) /\ Len(b) = Len(s) - n + 1 /\ \A k \in 1 .. Len(s) - n + 1 : b[k] = s[n + k - 1]
  BY <1>1, <1>2, SubSeqProperties
<1> HIDE DEF a, b
<1>5. <<e>> \in Seq(S) /\ Len(<<e>>) = 1 /\ <<e>>[1] = e
  OBVIOUS
<1>6. /\ c \in Seq(S) /\ Len(c) = n
      /\ \A k \in 1 .. n : c[k] = IF k < n THEN s[k] ELSE e
  BY <1>1, <1>3, <1>5, ConcatProperties
<1> HIDE DEF c
<1>7. /\ c \o b \in Seq(S) /\ Len(c \o b) = Len(s) + 1
      /\ \A k \in 1 .. Len(s) + 1 : (c \o b)[k] = IF k <= n THEN c[k] ELSE b[k - n]
  <2>1. /\ c \o b \in Seq(S) /\ Len(c \o b) = Len(c) + Len(b)
        /\ \A k \in 1 .. Len(c) + Len(b) : (c \o b)[k] = IF k <= Len(c) THEN c[k] ELSE b[k - Len(c)]
    BY <1>4, <1>6, ConcatProperties
  <2>2. Len(c) + Len(b) = Len(s) + 1
    BY <1>1, <1>4, <1>6
  <2> QED BY <1>6, <2>1, <2>2
<1>8. \A k \in 1 .. Len(s) + 1 : (c \o b)[k] = IF k < n THEN s[k] ELSE IF k = n THEN e ELSE s[k - 1]
  BY <1>1, <1>4, <1>6, <1>7
<1> QED BY <1>7, <1>8 DEF InsertAt, a, b, c

\* A list without repetitions.
Distinct(s) == \A j, k \in DOMAIN s : s[j] = s[k] => j = k

\* A list without repetitions stays one when a member leaves or a new one enters.
LEMMA RemoveAtSet ==
  ASSUME NEW S, NEW s \in Seq(S), Distinct(s), NEW n \in 1 .. Len(s)
  PROVE  Distinct(RemoveAt(s, n)) /\ ToSet(RemoveAt(s, n)) = ToSet(s) \ {s[n]}
<1> DEFINE r == RemoveAt(s, n)
<1>1. Len(s) \in Nat /\ DOMAIN s = 1 .. Len(s)
  BY LenProperties
<1>2. /\ r \in Seq(S) /\ Len(r) = Len(s) - 1
      /\ \A k \in 1 .. Len(s) - 1 : r[k] = IF k < n THEN s[k] ELSE s[k + 1]
  BY RemoveAtIs
<1> HIDE DEF r
<1>3. DOMAIN r = 1 .. Len(s) - 1
  BY <1>2, LenProperties
<1>4. Distinct(r)
  <2> SUFFICES ASSUME NEW j \in DOMAIN r, NEW k \in DOMAIN r, r[j] = r[k] PROVE j = k
    BY DEF Distinct
  <2> DEFINE to(x) == IF x < n THEN x ELSE x + 1
  <2>1. \A x \in DOMAIN r : to(x) \in DOMAIN s /\ r[x] = s[to(x)]
    BY <1>1, <1>2, <1>3
  <2>2. to(j) = to(k)
    BY <2>1 DEF Distinct
  <2> QED BY <1>1, <1>3, <2>2
<1>5. ASSUME NEW x \in ToSet(r) PROVE x \in ToSet(s) /\ x # s[n]
  <2>1. PICK k \in DOMAIN r : x = r[k]
    BY DEF ToSet
  <2>2. CASE k < n
    <3>1. k \in DOMAIN s /\ x = s[k] /\ k # n /\ n \in DOMAIN s
      BY <1>1, <1>2, <1>3, <2>1, <2>2
    <3> QED BY <3>1 DEF ToSet, Distinct
  <2>3. CASE ~(k < n)
    <3>1. k + 1 \in DOMAIN s /\ x = s[k + 1] /\ k + 1 # n /\ n \in DOMAIN s
      BY <1>1, <1>2, <1>3, <2>1, <2>3
    <3> QED BY <3>1 DEF ToSet, Distinct
  <2> QED BY <2>2, <2>3
<1>6. ASSUME NEW x \in ToSet(s), x # s[n] PROVE x \in ToSet(r)
  <2>1. PICK k \in DOMAIN s : x = s[k]
    BY DEF ToSet
  <2>2. CASE k < n
    <3>1. k \in DOMAIN r /\ x = r[k]
      BY <1>1, <1>2, <1>3, <2>1, <2>2
    <3> QED BY <3>1 DEF ToSet
  <2>3. CASE k > n
    <3>1. k - 1 \in DOMAIN r /\ x = r[k - 1]
      BY <1>1, <1>2, <1>3, <2>1, <2>3
    <3> QED BY <3>1 DEF ToSet
  <2> QED BY <1>1, <1>6, <2>1, <2>2, <2>3
<1> QED BY <1>4, <1>5, <1>6 DEF r

LEMMA InsertAtSet ==
  ASSUME NEW S, NEW s \in Seq(S), Distinct(s), NEW n \in 1 .. Len(s) + 1, NEW e \in S, e \notin ToSet(s)
  PROVE  Distinct(InsertAt(s, n, e)) /\ ToSet(InsertAt(s, n, e)) = ToSet(s) \cup {e}
<1> DEFINE r == InsertAt(s, n, e)
<1>1. Len(s) \in Nat /\ DOMAIN s = 1 .. Len(s)
  BY LenProperties
<1>2. /\ r \in Seq(S) /\ Len(r) = Len(s) + 1
      /\ \A k \in 1 .. Len(s) + 1 : r[k] = IF k < n THEN s[k] ELSE IF k = n THEN e ELSE s[k - 1]
  BY InsertAtIs
<1> HIDE DEF r
<1>3. DOMAIN r = 1 .. Len(s) + 1
  BY <1>2, LenProperties
<1>0. \A k \in DOMAIN s : s[k] # e
  BY DEF ToSet
<1>4. Distinct(r)
  <2> SUFFICES ASSUME NEW j \in DOMAIN r, NEW k \in DOMAIN r, r[j] = r[k] PROVE j = k
    BY DEF Distinct
  <2> DEFINE to(x) == IF x < n THEN x ELSE x - 1
  <2>1. \A x \in DOMAIN r : x # n => to(x) \in DOMAIN s /\ r[x] = s[to(x)]
    BY <1>1, <1>2, <1>3
  <2>2. r[n] = e /\ n \in DOMAIN r
    BY <1>1, <1>2, <1>3
  <2>3. j # n /\ k # n => to(j) = to(k)
    BY <2>1 DEF Distinct
  <2>4. j = n <=> k = n
    BY <1>0, <2>1, <2>2
  <2> QED BY <1>1, <1>3, <2>3, <2>4
<1>5. ASSUME NEW x \in ToSet(r) PROVE x \in ToSet(s) \cup {e}
  <2>1. PICK k \in DOMAIN r : x = r[k]
    BY DEF ToSet
  <2>2. CASE k < n
    <3>1. k \in DOMAIN s /\ x = s[k]
      BY <1>1, <1>2, <1>3, <2>1, <2>2
    <3> QED BY <3>1 DEF ToSet
  <2>3. CASE k > n
    <3>1. k - 1 \in DOMAIN s /\ x = s[k - 1]
      BY <1>1, <1>2, <1>3, <2>1, <2>3
    <3> QED BY <3>1 DEF ToSet
  <2>4. CASE k = n
    BY <1>1, <1>2, <2>1, <2>4
  <2> QED BY <1>1, <1>3, <2>2, <2>3, <2>4
<1>6. ASSUME NEW x \in ToSet(s) PROVE x \in ToSet(r)
  <2>1. PICK k \in DOMAIN s : x = s[k]
    BY DEF ToSet
  <2>2. CASE k < n
    <3>1. k \in DOMAIN r /\ x = r[k]
      BY <1>1, <1>2, <1>3, <2>1, <2>2
    <3> QED BY <3>1 DEF ToSet
  <2>3. CASE ~(k < n)
    <3>1. k + 1 \in DOMAIN r /\ x = r[k + 1]
      BY <1>1, <1>2, <1>3, <2>1, <2>3
    <3> QED BY <3>1 DEF ToSet
  <2> QED BY <2>2, <2>3
<1>7. e \in ToSet(r)
  <2>1. n \in DOMAIN r /\ r[n] = e
    BY <1>1, <1>2, <1>3
  <2> QED BY <2>1 DEF ToSet
<1> QED BY <1>4, <1>5, <1>6, <1>7 DEF r

\* A member at the end.
LEMMA AppendSet ==
  ASSUME NEW S, NEW s \in Seq(S), NEW e \in S
  PROVE  /\ Append(s, e) \in Seq(S) /\ Len(Append(s, e)) = Len(s) + 1
         /\ ToSet(Append(s, e)) = ToSet(s) \cup {e}
<1> DEFINE q == Append(s, e)
<1>1. /\ q \in Seq(S) /\ Len(q) = Len(s) + 1 /\ q[Len(s) + 1] = e
      /\ \A k \in 1 .. Len(s) : q[k] = s[k]
  BY AppendProperties
<1>2. Len(s) \in Nat /\ DOMAIN s = 1 .. Len(s)
  BY LenProperties
<1> HIDE DEF q
<1>3. DOMAIN q = 1 .. Len(s) + 1
  BY <1>1, LenProperties
<1>4. 1 .. Len(s) + 1 = (1 .. Len(s)) \cup {Len(s) + 1}
  BY <1>2
<1> QED BY <1>1, <1>2, <1>3, <1>4 DEF ToSet, q

\* A new member at the end is no repetition.
LEMMA AppendDistinct ==
  ASSUME NEW S, NEW s \in Seq(S), Distinct(s), NEW e \in S, e \notin ToSet(s)
  PROVE  Distinct(Append(s, e))
<1> DEFINE q == Append(s, e)
<1>1. /\ q \in Seq(S) /\ Len(q) = Len(s) + 1 /\ q[Len(s) + 1] = e
      /\ \A k \in 1 .. Len(s) : q[k] = s[k]
  BY AppendProperties
<1>2. Len(s) \in Nat /\ DOMAIN s = 1 .. Len(s)
  BY LenProperties
<1> HIDE DEF q
<1>3. DOMAIN q = 1 .. Len(s) + 1
  BY <1>1, LenProperties
<1>4. \A k \in 1 .. Len(s) : s[k] # e
  BY <1>2 DEF ToSet
<1> SUFFICES ASSUME NEW j \in DOMAIN q, NEW k \in DOMAIN q, q[j] = q[k] PROVE j = k
  BY DEF Distinct, q
<1>5. (j \in 1 .. Len(s) \/ j = Len(s) + 1) /\ (k \in 1 .. Len(s) \/ k = Len(s) + 1)
  BY <1>2, <1>3
<1>6. CASE j \in 1 .. Len(s) /\ k \in 1 .. Len(s)
  BY <1>1, <1>2, <1>6 DEF Distinct
<1> QED BY <1>1, <1>4, <1>5, <1>6

\* The list without its first member.
LEMMA TailSet ==
  ASSUME NEW S, NEW s \in Seq(S), s # <<>>
  PROVE  /\ Tail(s) \in Seq(S) /\ Len(Tail(s)) = Len(s) - 1 /\ Len(s) > 0
         /\ \A k \in DOMAIN Tail(s) : k \in 1 .. Len(s) - 1 /\ k + 1 \in DOMAIN s /\ Tail(s)[k] = s[k + 1]
         /\ ToSet(Tail(s)) \subseteq ToSet(s) /\ Head(s) = s[1] /\ Head(s) \in ToSet(s)
<1>1. /\ Tail(s) \in Seq(S) /\ Len(Tail(s)) = Len(s) - 1
      /\ \A i \in 1 .. Len(Tail(s)) : Tail(s)[i] = s[i+1]
  BY HeadTailProperties
<1>2. Len(s) \in Nat /\ DOMAIN s = 1 .. Len(s) /\ Len(s) > 0
  BY LenProperties, EmptySeq
<1>3. DOMAIN Tail(s) = 1 .. Len(s) - 1
  BY <1>1, LenProperties
<1>4. Head(s) = s[1]
  OBVIOUS
<1>5. \A k \in DOMAIN Tail(s) : k \in 1 .. Len(s) - 1 /\ k + 1 \in DOMAIN s /\ Tail(s)[k] = s[k + 1]
  BY <1>1, <1>2, <1>3
<1>6. ToSet(Tail(s)) \subseteq ToSet(s)
  BY <1>5 DEF ToSet
<1>7. Head(s) \in ToSet(s)
  <2>1. 1 \in DOMAIN s
    BY <1>2
  <2> QED BY <1>4, <2>1 DEF ToSet
<1> QED BY <1>1, <1>2, <1>4, <1>5, <1>6, <1>7

\* s lists S in ascending order.
Sorted(s, S) == /\ s \in [1 .. Cardinality(S) -> S]
               /\ ToSet(s) = S /\ \A j, k \in DOMAIN s : j < k => s[j] < s[k]

\* Every finite set of numbers has an ascending listing.
LEMMA ListingExists ==
  ASSUME NEW U, U \subseteq Nat, IsFiniteSet(U)
  PROVE  \E s : Sorted(s, U)
<1> DEFINE Bad == {n \in Nat : \E S \in SUBSET Nat : IsFiniteSet(S) /\ Cardinality(S) = n /\ ~\E s : Sorted(s, S)}
<1>1. ASSUME NEW n \in Bad, \A y \in Bad : n <= y PROVE FALSE
  <2>1. PICK S \in SUBSET Nat : IsFiniteSet(S) /\ Cardinality(S) = n /\ ~\E s : Sorted(s, S)
    OBVIOUS
  <2>2. CASE n = 0
    <3>1. S = {}
      BY <2>1, <2>2, FS_EmptySet
    <3> DEFINE s == [k \in 1 .. 0 |-> k]
    <3>2. 1 .. 0 = {}
      OBVIOUS
    <3>3. s \in [1 .. 0 -> {}] /\ DOMAIN s = {}
      BY <3>2
    <3> HIDE DEF s
    <3>4. Sorted(s, S)
      BY <2>1, <2>2, <3>1, <3>2, <3>3 DEF Sorted, ToSet
    <3> QED BY <2>1, <3>4
  <2>3. CASE n # 0
    <3>1. S # {}
      BY <2>1, <2>3, FS_EmptySet
    <3>2. PICK x \in S : \A y \in S : x <= y
      BY <3>1, LeastNumber
    <3>3. IsFiniteSet(S \ {x}) /\ Cardinality(S \ {x}) = n - 1
      BY <2>1, FS_RemoveElement
    <3>4. n - 1 \in Nat /\ n - 1 \notin Bad
      BY <1>1, <2>3
    <3>5. PICK t : Sorted(t, S \ {x})
      BY <3>3, <3>4
    <3> DEFINE s == [k \in 1 .. n |-> IF k = 1 THEN x ELSE t[k - 1]]
    <3>6. /\ t \in [1 .. n - 1 -> S \ {x}] /\ ToSet(t) = S \ {x}
          /\ \A j, k \in 1 .. n - 1 : j < k => t[j] < t[k]
      <4>1. DOMAIN t = 1 .. n - 1
        BY <3>3, <3>5 DEF Sorted
      <4> QED BY <3>3, <3>5, <4>1 DEF Sorted
    <3>7. \A k \in 1 .. n : k # 1 => k - 1 \in 1 .. n - 1
      BY <3>4
    <3>8. s \in [1 .. n -> S]
      BY <3>6, <3>7
    <3>9. \A k \in 1 .. n - 1 : k + 1 \in 1 .. n /\ s[k + 1] = t[k]
      BY <3>4
    <3>10. s[1] = x /\ 1 \in 1 .. n
      BY <3>4
    <3>11. \A j, k \in 1 .. n : j < k => s[j] < s[k]
      <4> SUFFICES ASSUME NEW j \in 1 .. n, NEW k \in 1 .. n, j < k PROVE s[j] < s[k]
        OBVIOUS
      <4>1. k - 1 \in 1 .. n - 1 /\ s[k] = t[k - 1] /\ t[k - 1] \in S \ {x}
        BY <3>4, <3>6
      <4>2. CASE j = 1
        <5>1. x <= t[k - 1] /\ x # t[k - 1] /\ x \in Nat /\ t[k - 1] \in Nat
          BY <3>2, <4>1
        <5> QED BY <3>10, <4>1, <4>2, <5>1
      <4>3. CASE j # 1
        <5>1. j - 1 \in 1 .. n - 1 /\ s[j] = t[j - 1] /\ j - 1 < k - 1
          BY <3>4, <4>3
        <5> QED BY <3>6, <4>1, <5>1
      <4> QED BY <4>2, <4>3
    <3>12. ToSet(s) = S
      <4>1. DOMAIN s = 1 .. n /\ DOMAIN t = 1 .. n - 1
        BY <3>6
      <4>2. ASSUME NEW y \in S PROVE \E k \in 1 .. n : s[k] = y
        <5>1. CASE y = x
          BY <3>10, <5>1
        <5>2. CASE y # x
          <6>1. PICK k \in 1 .. n - 1 : t[k] = y
            BY <3>6, <4>1, <5>2 DEF ToSet
          <6> QED BY <3>9, <6>1
        <5> QED BY <5>1, <5>2
      <4> HIDE DEF s
      <4> QED BY <3>8, <4>1, <4>2 DEF ToSet
    <3> HIDE DEF s
    <3>13. Sorted(s, S)
      <4>1. DOMAIN s = 1 .. n
        BY <3>8
      <4> QED BY <2>1, <3>8, <3>11, <3>12, <4>1 DEF Sorted
    <3> QED BY <2>1, <3>13
  <2> QED BY <2>2, <2>3
<1>2. Bad = {}
  <2>1. Bad \subseteq Nat
    OBVIOUS
  <2> HIDE DEF Bad
  <2> QED BY <1>1, <2>1, LeastNumber
<1>3. Cardinality(U) \in Nat
  BY FS_CardinalityType
<1> QED BY <1>2, <1>3

\* What Ascending returns: every member once.
LEMMA AscendingIs ==
  ASSUME NEW U, U \subseteq Nat, IsFiniteSet(U)
  PROVE  /\ Ascending(U) \in Seq(U) /\ ToSet(Ascending(U)) = U /\ Distinct(Ascending(U))
         /\ Len(Ascending(U)) = Cardinality(U)
<1> DEFINE a == Ascending(U)
<1>1. PICK s : Sorted(s, U)
  BY ListingExists
<1>2. a \in [1 .. Cardinality(U) -> U] /\ ToSet(a) = U /\ \A j, k \in DOMAIN a : j < k => a[j] < a[k]
  BY <1>1 DEF Sorted, Ascending
<1>3. Cardinality(U) \in Nat
  BY FS_CardinalityType
<1> HIDE DEF a
<1>4. a \in Seq(U) /\ Len(a) = Cardinality(U)
  BY <1>2, <1>3, SeqDef, LenProperties
<1>5. Distinct(a)
  <2> SUFFICES ASSUME NEW j \in DOMAIN a, NEW k \in DOMAIN a, j # k PROVE a[j] # a[k]
    BY DEF Distinct
  <2>0. DOMAIN a = 1 .. Cardinality(U)
    BY <1>2
  <2>1. a[j] \in Nat /\ a[k] \in Nat
    BY <1>2, <2>0
  <2>2. j \in Nat /\ k \in Nat /\ (j < k \/ k < j)
    BY <1>3, <2>0
  <2> QED BY <1>2, <2>1, <2>2
<1> QED BY <1>2, <1>4, <1>5 DEF a

\* A list without repetitions is as long as its set is large.
LEMMA DistinctLength ==
  ASSUME NEW S, NEW s \in Seq(S), Distinct(s)
  PROVE  IsFiniteSet(ToSet(s)) /\ Cardinality(ToSet(s)) = Len(s)
<1>1. Len(s) \in Nat /\ DOMAIN s = 1 .. Len(s)
  BY LenProperties
<1>2. s \in Bijection(1 .. Len(s), ToSet(s))
  <2>1. s \in [1 .. Len(s) -> ToSet(s)]
    BY <1>1, LenProperties DEF ToSet
  <2>2. IsInjective(s)
    BY DEF Distinct, IsInjective
  <2>3. \A x \in ToSet(s) : \E k \in 1 .. Len(s) : s[k] = x
    BY <1>1 DEF ToSet
  <2> QED BY <2>1, <2>2, <2>3 DEF Bijection, Injection, Surjection
<1>3. IsFiniteSet(1 .. Len(s)) /\ Cardinality(1 .. Len(s)) = Len(s)
  BY <1>1, FS_Interval
<1> QED BY <1>2, <1>3, FS_Bijection DEF ExistsBijection
-----------------------------------------------------------------------------
(* The view: where it shows, what leaves it and what comes back.            *)

\* The folds Min and Max on the pairs the window takes them of.
LEMMA MinPair == \A a, b \in Int : Min({a, b}) = IF a <= b THEN a ELSE b
<1> SUFFICES ASSUME NEW a \in Int, NEW b \in Int PROVE Min({a, b}) = IF a <= b THEN a ELSE b
  OBVIOUS
<1>1. \E x \in {a, b} : \A y \in {a, b} : x <= y
  OBVIOUS
<1>2. Min({a, b}) \in {a, b} /\ \A y \in {a, b} : Min({a, b}) <= y
  BY <1>1 DEF Min
<1> QED BY <1>2

LEMMA MaxPair == \A a, b \in Int : Max({a, b}) = IF a >= b THEN a ELSE b
<1> SUFFICES ASSUME NEW a \in Int, NEW b \in Int PROVE Max({a, b}) = IF a >= b THEN a ELSE b
  OBVIOUS
<1>1. \E x \in {a, b} : \A y \in {a, b} : x >= y
  OBVIOUS
<1>2. Max({a, b}) \in {a, b} /\ \A y \in {a, b} : Max({a, b}) >= y
  BY <1>1 DEF Max
<1> QED BY <1>2

\* _find_next_non_pending_index finds a position in the queue that is not pending, or none;
\* the position it starts at, if that is free.
LEMMA FindFreeIs ==
  ASSUME NEW S, NEW s \in Seq(S), NEW P, NEW start \in Int, NEW d \in {1, -1}
  PROVE  LET f == FindFree(s, P, start, d) IN
         /\ f \in Int /\ f < Len(s) /\ (f # -1 => f \in Positions(s) /\ At(s, f) \notin P)
         /\ start \in Positions(s) /\ At(s, start) \notin P => f = start
<1>0. Len(s) \in Nat
  BY LenProperties
<1> DEFINE free  == {k \in Positions(s) : At(s, k) \notin P}
           found == {k \in free : IF d > 0 THEN k >= start ELSE k <= start}
<1>1. found \subseteq Nat /\ \A k \in found : k <= Len(s)
  BY <1>0 DEF Positions
<1>2. FindFree(s, P, start, d) = IF found = {} THEN -1 ELSE IF d > 0 THEN Min(found) ELSE Max(found)
  BY DEF FindFree
<1>3. ASSUME found # {} PROVE /\ Min(found) \in found /\ \A k \in found : Min(found) <= k
                              /\ Max(found) \in found /\ \A k \in found : Max(found) >= k
  <2> HIDE DEF found
  <2>1. \E x \in found : \A y \in found : x <= y
    BY <1>1, <1>3, LeastNumber
  <2>2. \E x \in found : \A y \in found : y <= x
    BY <1>0, <1>1, <1>3, GreatestNumber
  <2>3. \E x \in found : \A y \in found : x >= y
    <3>1. PICK x \in found : \A y \in found : y <= x
      BY <2>2
    <3>2. \A y \in found : x >= y
      BY <1>1, <3>1
    <3> QED BY <3>2
  <2> QED BY <2>1, <2>3 DEF Min, Max
<1>4. CASE found = {}
  <2>1. start \in Positions(s) /\ At(s, start) \notin P => start \in found
    OBVIOUS
  <2> QED BY <1>0, <1>2, <1>4, <2>1
<1>5. CASE found # {}
  <2> DEFINE f == FindFree(s, P, start, d)
  <2>1. f \in found /\ (d > 0 => \A k \in found : f <= k) /\ (~(d > 0) => \A k \in found : f >= k)
    BY <1>2, <1>3, <1>5
  <2>2. f \in Positions(s) /\ At(s, f) \notin P /\ (d > 0 => f >= start) /\ (~(d > 0) => f <= start)
    BY <2>1
  <2>3. f \in Int /\ f < Len(s) /\ f # -1
    BY <1>0, <2>2 DEF Positions
  <2>4. ASSUME start \in Positions(s), At(s, start) \notin P PROVE f = start
    <3>1. start \in found
      BY <2>4
    <3> HIDE DEF f, found
    <3> QED BY <2>1, <2>2, <2>3, <3>1
  <2> HIDE DEF f
  <2> QED BY <2>2, <2>3, <2>4 DEF f
<1> QED BY <1>4, <1>5

\* What the window shows, and a view whose position is not past the end of the queue.
View == [images : Seq(Images), current : Int, complete : BOOLEAN, held : Hold \cup {NoHold}]
Good(v) == v \in View /\ v.current <= Len(v.images)

\* show_image moves the position only, and not off a held or a free image.
LEMMA ShowImageIs ==
  ASSUME NEW v, Good(v), NEW P
  PROVE  LET w == ShowImage(v, P) IN
         /\ Good(w) /\ w.images = v.images /\ w.held = v.held /\ w.complete = v.complete
         /\ v.held # NoHold => w = v
         /\ v.current \in Positions(v.images) /\ At(v.images, v.current) \notin P => w = v
<1> DEFINE next == FindFree(v.images, P, v.current, 1)
           prev == FindFree(v.images, P, v.current, -1)
<1>1. v.images \in Seq(Images) /\ v.current \in Int /\ Len(v.images) \in Nat
  BY LenProperties DEF Good, View
<1>2. /\ next \in Int /\ next < Len(v.images)
      /\ v.current \in Positions(v.images) /\ At(v.images, v.current) \notin P => next = v.current
  BY <1>1, FindFreeIs
<1>3. prev \in Int /\ prev < Len(v.images)
  BY <1>1, FindFreeIs
<1>4. ShowImage(v, P) = IF v.held # NoHold \/ v.complete \/ (next = -1 /\ prev = -1) THEN v
                        ELSE [v EXCEPT !.current = IF next # -1 THEN next ELSE prev]
  BY DEF ShowImage
<1> HIDE DEF next, prev
<1>5. CASE v.held # NoHold \/ v.complete \/ (next = -1 /\ prev = -1)
  BY <1>4, <1>5
<1>6. CASE ~(v.held # NoHold \/ v.complete \/ (next = -1 /\ prev = -1))
  <2> DEFINE w == ShowImage(v, P)
             c == IF next # -1 THEN next ELSE prev
  <2>1. w = [v EXCEPT !.current = c] /\ c \in Int /\ c <= Len(v.images)
    BY <1>1, <1>2, <1>3, <1>4, <1>6
  <2> HIDE DEF w
  <2>2. Good(w) /\ w.images = v.images /\ w.held = v.held /\ w.complete = v.complete
    <3> HIDE DEF c
    <3> QED BY <2>1 DEF Good, View
  <2>3. ASSUME v.current \in Positions(v.images), At(v.images, v.current) \notin P PROVE w = v
    <3>1. c = v.current
      BY <1>1, <1>2, <2>3 DEF Positions
    <3> HIDE DEF c
    <3> QED BY <2>1, <3>1 DEF Good, View
  <2> QED BY <1>6, <2>2, <2>3 DEF w
<1> QED BY <1>5, <1>6

\* A hold survives a change of its index and of its completion.
LEMMA IndexOfQueue ==
  ASSUME NEW s \in Seq(Images), NEW i
  PROVE  LET k == IndexOf(s, i) IN
         /\ k \in Int /\ -1 <= k /\ k < Len(s)
         /\ k = -1 <=> i \notin ToSet(s)
         /\ k # -1 => k \in Positions(s) /\ At(s, k) = i /\ k + 1 \in 1 .. Len(s)
<1> DEFINE I == {n \in 1 .. Len(s) : s[n] = i}
<1>1. Len(s) \in Nat /\ DOMAIN s = 1 .. Len(s)
  BY LenProperties
<1>2. IndexOf(s, i) = (IF I # {} THEN Min(I) ELSE 0) - 1
  BY DEF IndexOf, SelectInSeq
<1>3. CASE I = {}
  <2>1. i \notin ToSet(s)
    BY <1>1, <1>3 DEF ToSet
  <2> QED BY <1>1, <1>2, <1>3, <2>1
<1>4. CASE I # {}
  <2>1. I \subseteq Nat
    BY <1>1
  <2> HIDE DEF I
  <2>2. Min(I) \in I
    BY <1>4, <2>1, LeastNumber DEF Min
  <2> USE DEF I
  <2>3. i \in ToSet(s)
    BY <1>1, <2>2 DEF ToSet
  <2>4. Min(I) \in 1 .. Len(s) /\ s[Min(I)] = i
    BY <2>2
  <2> HIDE DEF I
  <2>5. IndexOf(s, i) = Min(I) - 1
    BY <1>2, <1>4
  <2>6. Min(I) - 1 + 1 = Min(I)
    BY <1>1, <2>4
  <2> QED BY <1>1, <2>3, <2>4, <2>5, <2>6 DEF Positions, At
<1> QED BY <1>3, <1>4

\* The hold h after its gap moved to index x.
LEMMA HoldMoves ==
  ASSUME NEW v, Good(v), NEW x \in Int, v.held = NoHold => x = v.held.index
  PROVE  LET h == [v.held EXCEPT !.index = x] IN
         /\ h \in Hold \cup {NoHold} /\ (h = NoHold <=> v.held = NoHold)
         /\ h.op = v.held.op /\ h.image = v.held.image /\ h.completed = v.held.completed /\ h.index = x
<1>1. v.held \in Hold \cup {NoHold}
  BY DEF Good, View
<1>2. CASE v.held = NoHold
  <2>1. [v.held EXCEPT !.index = x] = NoHold
    BY <1>2 DEF NoHold
  <2> QED BY <1>2, <2>1 DEF NoHold
<1>3. CASE v.held # NoHold
  <2>1. v.held \in Hold
    BY <1>1, <1>3
  <2>2. v.held.op # 0
    BY <2>1 DEF Hold, OpIds
  <2> DEFINE h == [v.held EXCEPT !.index = x]
  <2>3. h \in Hold /\ h.op = v.held.op /\ h.image = v.held.image /\ h.completed = v.held.completed /\ h.index = x
    BY <2>1 DEF Hold
  <2>4. h # NoHold
    BY <2>2, <2>3 DEF NoHold
  <2> QED BY <1>3, <2>3, <2>4
<1> QED BY <1>2, <1>3

\* What is left of the queue s after position k is gone.
LEMMA QueueWithout ==
  ASSUME NEW s \in Seq(Images), Distinct(s), NEW k \in Positions(s)
  PROVE  LET r == RemoveAt(s, k + 1) IN
         /\ r \in Seq(Images) /\ Len(r) = Len(s) - 1 /\ Distinct(r) /\ ToSet(r) = ToSet(s) \ {At(s, k)}
         /\ \A j \in Positions(r) : At(r, j) = IF j < k THEN At(s, j) ELSE At(s, j + 1)
<1> DEFINE r == RemoveAt(s, k + 1)
<1>1. Len(s) \in Nat /\ k + 1 \in 1 .. Len(s) /\ k \in Nat
  BY LenProperties DEF Positions
<1>2. /\ r \in Seq(Images) /\ Len(r) = Len(s) - 1
      /\ \A n \in 1 .. Len(s) - 1 : r[n] = IF n < k + 1 THEN s[n] ELSE s[n + 1]
  BY <1>1, RemoveAtIs
<1>3. Distinct(r) /\ ToSet(r) = ToSet(s) \ {s[k + 1]}
  BY <1>1, RemoveAtSet
<1> HIDE DEF r
<1>4. ASSUME NEW j \in Positions(r) PROVE At(r, j) = IF j < k THEN At(s, j) ELSE At(s, j + 1)
  <2>1. j + 1 \in 1 .. Len(s) - 1 /\ (j + 1 < k + 1 <=> j < k)
    BY <1>1, <1>2 DEF Positions
  <2> QED BY <1>2, <2>1 DEF At
<1> QED BY <1>2, <1>3, <1>4 DEF At, r

\* remove_image_from_queue takes the image out, moves the gap of the held image with it, and
\* leaves a free image on the screen when another one leaves the queue.
LEMMA RemoveImageIs ==
  ASSUME NEW v, Good(v), Distinct(v.images), NEW i, NEW P
  PROVE  LET w == RemoveImage(v, i, P) IN
         /\ Good(w) /\ Distinct(w.images) /\ ToSet(w.images) = ToSet(v.images) \ {i}
         /\ w.complete = v.complete
         /\ w.held.op = v.held.op /\ w.held.image = v.held.image /\ w.held.completed = v.held.completed
         /\ w.held = NoHold <=> v.held = NoHold
         /\ i \notin ToSet(v.images) => w = v
         /\ i \in ToSet(v.images) =>
              \E k \in Positions(v.images) :
                /\ At(v.images, k) = i /\ Len(w.images) = Len(v.images) - 1
                /\ \A j \in Positions(w.images) : At(w.images, j) = IF j < k THEN At(v.images, j) ELSE At(v.images, j + 1)
                /\ w.held.index = GapAfter(v, k)
                /\ v.held = NoHold /\ v.current \in Positions(v.images) /\ k # v.current
                     /\ At(v.images, v.current) \notin P
                   => w.current \in Positions(w.images) /\ At(w.images, w.current) = At(v.images, v.current)
<1> DEFINE k == IndexOf(v.images, i)
<1>1. v.images \in Seq(Images) /\ v.current \in Int /\ v.held \in Hold \cup {NoHold} /\ Len(v.images) \in Nat
      /\ v.current <= Len(v.images) /\ v.held.index \in Int
  BY LenProperties DEF Good, View, Hold, NoHold
<1>2. /\ k \in Int /\ -1 <= k /\ k < Len(v.images) /\ (k = -1 <=> i \notin ToSet(v.images))
      /\ (k # -1 => k \in Positions(v.images) /\ At(v.images, k) = i)
  BY <1>1, IndexOfQueue
<1>3. CASE k = -1
  <2>1. RemoveImage(v, i, P) = v
    BY <1>3 DEF RemoveImage
  <2>2. ToSet(v.images) = ToSet(v.images) \ {i}
    BY <1>2, <1>3
  <2> QED BY <1>2, <1>3, <2>1, <2>2
<1>4. CASE k # -1
  <2> DEFINE r == RemoveAt(v.images, k + 1)
             c == CurrentAfter(v, k)
             g == GapAfter(v, k)
             h == [v.held EXCEPT !.index = g]
             u == [v EXCEPT !.images = r, !.current = c, !.held.index = g]
             w == RemoveImage(v, i, P)
  <2>1. w = ShowImage(u, P)
    BY <1>4 DEF RemoveImage
  <2>2. /\ r \in Seq(Images) /\ Len(r) = Len(v.images) - 1 /\ Distinct(r)
        /\ ToSet(r) = ToSet(v.images) \ {i}
        /\ \A j \in Positions(r) : At(r, j) = IF j < k THEN At(v.images, j) ELSE At(v.images, j + 1)
    BY <1>1, <1>2, <1>4, QueueWithout
  <2>3. k \in Nat /\ k < Len(v.images)
    BY <1>2, <1>4
  <2>4. c \in Int /\ c <= Len(v.images) - 1
    <3>1. Min({k, Len(v.images) - 2}) = (IF k <= Len(v.images) - 2 THEN k ELSE Len(v.images) - 2)
      BY <1>1, <1>2, MinPair
    <3>2. Min({v.current, Len(v.images) - 2}) = (IF v.current <= Len(v.images) - 2 THEN v.current ELSE Len(v.images) - 2)
      BY <1>1, MinPair
    <3>3. CASE v.current = k
      BY <1>1, <2>3, <3>1, <3>3 DEF CurrentAfter
    <3>4. CASE v.current # k /\ v.current \in Positions(v.images)
      <4>1. c = IF v.current < k THEN v.current ELSE v.current - 1
        BY <3>4 DEF CurrentAfter
      <4>2. v.current < Len(v.images)
        BY <1>1, <3>4 DEF Positions
      <4> QED BY <1>1, <2>3, <4>1, <4>2, <3>4
    <3>5. CASE v.current # k /\ v.current \notin Positions(v.images)
      <4>1. c = Min({v.current, Len(v.images) - 2})
        BY <3>5 DEF CurrentAfter
      <4> QED BY <1>1, <3>2, <4>1
    <3> QED BY <3>3, <3>4, <3>5
  <2>5. g \in Int /\ (v.held = NoHold => g = v.held.index)
    BY <1>1 DEF GapAfter
  <2>6. /\ h \in Hold \cup {NoHold} /\ (h = NoHold <=> v.held = NoHold)
        /\ h.op = v.held.op /\ h.image = v.held.image /\ h.completed = v.held.completed /\ h.index = g
    <3> HIDE DEF g
    <3> QED BY <2>5, HoldMoves
  <2>7. u = [v EXCEPT !.images = r, !.current = c, !.held = h]
    OBVIOUS
  <2> HIDE DEF u, h, g, c, r, k
  <2>8. Good(u) /\ u.images = r /\ u.current = c /\ u.held = h /\ u.complete = v.complete
    BY <1>1, <2>2, <2>4, <2>6, <2>7 DEF Good, View
  <2>9. /\ Good(w) /\ w.images = u.images /\ w.held = u.held /\ w.complete = u.complete
        /\ u.current \in Positions(u.images) /\ At(u.images, u.current) \notin P => w = u
    BY <2>1, <2>8, ShowImageIs
  <2>10. ASSUME v.held = NoHold, v.current \in Positions(v.images), k # v.current,
                At(v.images, v.current) \notin P
         PROVE  w.current \in Positions(w.images) /\ At(w.images, w.current) = At(v.images, v.current)
    <3>1. c = IF v.current < k THEN v.current ELSE v.current - 1
      BY <2>10 DEF CurrentAfter, c
    <3>2. c \in Positions(r) /\ (v.current < k => c < k) /\ (~(v.current < k) => ~(c < k) /\ c + 1 = v.current)
      <4>1. v.current \in Nat /\ v.current < Len(v.images)
        BY <1>1, <2>10 DEF Positions
      <4> QED BY <1>1, <2>2, <2>3, <2>10, <3>1, <4>1 DEF Positions
    <3>3. At(r, c) = At(v.images, v.current)
      BY <2>2, <3>1, <3>2
    <3> QED BY <2>8, <2>9, <2>10, <3>2, <3>3
  <2> HIDE DEF w
  <2>11. k \in Positions(v.images) /\ At(v.images, k) = i
    BY <1>2, <1>4
  <2>12. /\ Len(w.images) = Len(v.images) - 1 /\ w.held.index = g
         /\ \A j \in Positions(w.images) : At(w.images, j) = IF j < k THEN At(v.images, j) ELSE At(v.images, j + 1)
    BY <2>2, <2>6, <2>8, <2>9
  <2>13. i \in ToSet(v.images)
    BY <1>2, <1>4
  <2>14. /\ Good(w) /\ Distinct(w.images) /\ ToSet(w.images) = ToSet(v.images) \ {i}
         /\ w.complete = v.complete
         /\ w.held.op = v.held.op /\ w.held.image = v.held.image /\ w.held.completed = v.held.completed
         /\ w.held = NoHold <=> v.held = NoHold
    BY <2>2, <2>6, <2>8, <2>9
  <2> QED BY <2>10, <2>11, <2>12, <2>13, <2>14 DEF w, g
<1> QED BY <1>3, <1>4

\* The queue contains an image when it is one of its members.
LEMMA ContainsIs == ASSUME NEW S, NEW s \in Seq(S), NEW i PROVE Contains(s, i) <=> i \in ToSet(s)
<1>1. DOMAIN s = 1 .. Len(s)
  BY LenProperties
<1> QED BY <1>1 DEF Contains, ToSet

\* An image is put back once.
LEMMA ReinsertIs ==
  ASSUME NEW v, Good(v), Distinct(v.images), NEW i \in Images, NEW index \in Int, NEW P
  PROVE  LET w == Reinsert(v, i, index, P) IN
         /\ Good(w) /\ Distinct(w.images) /\ ToSet(w.images) = ToSet(v.images) \cup {i}
         /\ i \in ToSet(v.images) => w = v
         /\ w.held = NoHold <=> v.held = NoHold
<1> DEFINE k == Clamp(index, 0, Len(v.images))
           w == Reinsert(v, i, index, P)
<1>1. v.images \in Seq(Images) /\ v.current \in Int /\ v.held \in Hold \cup {NoHold} /\ Len(v.images) \in Nat
      /\ v.current <= Len(v.images) /\ v.held.index \in Int
  BY LenProperties DEF Good, View, Hold, NoHold
<1>2. Queued(v, i) <=> i \in ToSet(v.images)
  BY <1>1, ContainsIs DEF Queued
<1>3. CASE Queued(v, i)
  <2>1. w = v
    BY <1>3 DEF Reinsert
  <2>2. ToSet(v.images) = ToSet(v.images) \cup {i}
    BY <1>2, <1>3
  <2> QED BY <1>2, <1>3, <2>1, <2>2
<1>4. CASE ~Queued(v, i)
  <2> DEFINE r == InsertAt(v.images, k + 1, i)
             c == IF v.current >= k THEN v.current + 1 ELSE v.current
             g == IF v.held # NoHold /\ k <= v.held.index THEN v.held.index + 1 ELSE v.held.index
             h == [v.held EXCEPT !.index = g]
             u == [v EXCEPT !.images = InsertAt(@, k + 1, i),
                           !.current = IF @ >= k THEN @ + 1 ELSE @,
                           !.held.index = IF v.held # NoHold /\ k <= @ THEN @ + 1 ELSE @]
  <2>1. w = ShowImage(u, P)
    BY <1>4 DEF Reinsert
  <2>2. k \in Int /\ 0 <= k /\ k <= Len(v.images)
    <3>1. Min({index, Len(v.images)}) = IF index <= Len(v.images) THEN index ELSE Len(v.images)
      BY <1>1, MinPair
    <3>2. Min({index, Len(v.images)}) \in Int
      BY <1>1, <3>1
    <3>3. k = IF 0 >= Min({index, Len(v.images)}) THEN 0 ELSE Min({index, Len(v.images)})
      <4>1. Max({0, Min({index, Len(v.images)})}) = 
                  IF 0 >= Min({index, Len(v.images)}) THEN 0 ELSE Min({index, Len(v.images)})
        <5> DEFINE m == Min({index, Len(v.images)})
        <5>1. m \in Int /\ 0 \in Int
          BY <3>2
        <5> HIDE DEF m, k
        <5>2. Max({0, m}) = IF 0 >= m THEN 0 ELSE m
          BY <5>1, MaxPair
        <5> QED BY <5>2 DEF m
      <4> QED BY <4>1 DEF Clamp
    <3> DEFINE m == Min({index, Len(v.images)})
    <3>4. m \in Int /\ m <= Len(v.images) /\ k = IF 0 >= m THEN 0 ELSE m
      BY <1>1, <3>1, <3>2, <3>3
    <3> HIDE DEF m, k
    <3> QED BY <1>1, <3>4
  <2> HIDE DEF k
  <2>3. /\ r \in Seq(Images) /\ Len(r) = Len(v.images) + 1 /\ Distinct(r)
        /\ ToSet(r) = ToSet(v.images) \cup {i}
    <3>1. k + 1 \in 1 .. Len(v.images) + 1
      BY <1>1, <2>2
    <3>0. v.images \in Seq(Images) /\ i \in Images
      BY <1>1
    <3>2. r \in Seq(Images) /\ Len(r) = Len(v.images) + 1
      BY ONLY <3>0, <3>1, InsertAtIs, SMTT(30)
    <3>3. Distinct(r) /\ ToSet(r) = ToSet(v.images) \cup {i}
      BY <1>1, <1>2, <1>4, <3>1, InsertAtSet
    <3> QED BY <3>2, <3>3
  <2>4. c \in Int /\ c <= Len(v.images) + 1
    BY <1>1, <2>2
  <2>5. g \in Int /\ (v.held = NoHold => g = v.held.index)
    BY <1>1
  <2>6. h \in Hold \cup {NoHold} /\ (h = NoHold <=> v.held = NoHold)
    <3> HIDE DEF g
    <3> QED BY <2>5, HoldMoves
  <2>7. u = [v EXCEPT !.images = r, !.current = c, !.held = h]
    OBVIOUS
  <2> HIDE DEF u, h, g, c, r
  <2>8. Good(u) /\ u.images = r /\ u.held = h /\ u.complete = v.complete
    BY <1>1, <2>3, <2>4, <2>6, <2>7 DEF Good, View
  <2>9. Good(w) /\ w.images = u.images /\ w.held = u.held /\ w.complete = u.complete
    BY <2>1, <2>8, ShowImageIs
  <2> HIDE DEF w
  <2> QED BY <1>2, <1>4, <2>3, <2>6, <2>8, <2>9 DEF w
<1> QED BY <1>3, <1>4

\* A failed or undone image is back in the queue, where it was if it never left.
LEMMA BringBackIs ==
  ASSUME NEW v, Good(v), Distinct(v.images), NEW i \in Images, NEW index \in Int, NEW P
  PROVE  LET w == BringBack(v, i, index, P) IN
         /\ Good(w) /\ Distinct(w.images) /\ ToSet(w.images) = ToSet(v.images) \cup {i}
         /\ w.held = NoHold <=> v.held = NoHold
         /\ i \in ToSet(v.images) => w.images = v.images /\ w.held = v.held
<1> DEFINE a == [v EXCEPT !.complete = FALSE]
           back == Reinsert(a, i, index, P)
           u == [back EXCEPT !.current = IndexOf(back.images, i)]
           w == BringBack(v, i, index, P)
<1>1. Good(a) /\ a.images = v.images /\ a.held = v.held /\ v.images \in Seq(Images)
  BY DEF Good, View
<1> HIDE DEF a
<1>2. /\ Good(back) /\ Distinct(back.images) /\ ToSet(back.images) = ToSet(v.images) \cup {i}
      /\ i \in ToSet(v.images) => back = a
      /\ back.held = NoHold <=> v.held = NoHold
  BY <1>1, ReinsertIs
<1>3. w = ShowImage(u, P)
  BY DEF BringBack, a
<1> HIDE DEF back, w
<1>4. back.images \in Seq(Images) /\ Len(back.images) \in Nat
  BY <1>2, LenProperties DEF Good, View
<1>5. IndexOf(back.images, i) \in Int /\ IndexOf(back.images, i) <= Len(back.images)
  <2>1. IndexOf(back.images, i) \in Int /\ IndexOf(back.images, i) < Len(back.images)
    BY <1>4, IndexOfQueue
  <2> QED BY <1>4, <2>1
<1>6. Good(u) /\ u.images = back.images /\ u.held = back.held
  BY <1>2, <1>5 DEF Good, View
<1> HIDE DEF u
<1>7. Good(w) /\ w.images = u.images /\ w.held = u.held
  BY <1>3, <1>6, ShowImageIs
<1> QED BY <1>1, <1>2, <1>6, <1>7 DEF w

\* Next and Previous keep the queue, and may give up the held image.
LEMMA NavigatedIs ==
  ASSUME NEW v, Good(v), NEW d \in {1, -1}, NEW P
  PROVE  LET w == Navigated(v, d, P) IN
         Good(w) /\ w.images = v.images /\ w.held \in {v.held, NoHold}
<1> DEFINE at    == IndexOf(v.images, v.held.image)
           start == IF v.held = NoHold THEN v.current + d
                    ELSE IF at # -1 THEN at + d
                    ELSE IF d > 0 THEN v.held.index ELSE v.held.index - 1
           found == FindFree(v.images, P, start, d)
           w == Navigated(v, d, P)
<1>1. v.images \in Seq(Images) /\ v.current \in Int /\ Len(v.images) \in Nat /\ v.held.index \in Int
      /\ v.held \in Hold \cup {NoHold}
  BY LenProperties DEF Good, View, Hold, NoHold
<1>2. at \in Int
  BY <1>1, IndexOfQueue
<1>3. start \in Int
  <2> HIDE DEF at
  <2> QED BY <1>1, <1>2
<1>4. found \in Int /\ found <= Len(v.images)
  <2> HIDE DEF start
  <2>1. found \in Int /\ found < Len(v.images)
    BY <1>1, <1>3, FindFreeIs
  <2> QED BY <1>1, <2>1
<1>5. w = IF found # -1 THEN [v EXCEPT !.held = NoHold, !.complete = FALSE, !.current = found]
     ELSE IF d > 0 THEN [v EXCEPT !.held = NoHold, !.complete = TRUE, !.current = Len(v.images)]
     ELSE v
  BY DEF Navigated
<1> HIDE DEF w, found, start, at
<1>6. CASE found # -1
  <2>1. w = [v EXCEPT !.held = NoHold, !.complete = FALSE, !.current = found]
    BY <1>5, <1>6
  <2> QED BY <1>1, <1>4, <2>1 DEF Good, View, w
<1>7. CASE found = -1 /\ d > 0
  <2>1. w = [v EXCEPT !.held = NoHold, !.complete = TRUE, !.current = Len(v.images)]
    BY <1>5, <1>7
  <2>0. w = [images |-> v.images, current |-> Len(v.images), complete |-> TRUE, held |-> NoHold]
    BY <2>1 DEF Good, View
  <2>1a. w \in View
    BY <1>1, <2>0 DEF View
  <2>2. w \in View /\ w.images = v.images /\ w.held = NoHold
    BY <2>0, <2>1a
  <2>3. w.current = Len(v.images)
    BY <2>0
  <2>4. w.current <= Len(w.images)
    BY <1>1, <2>2, <2>3
  <2> QED BY <2>2, <2>4 DEF Good, w
<1>8. CASE found = -1 /\ ~(d > 0)
  BY <1>5, <1>8 DEF w
<1> QED BY <1>6, <1>7, <1>8
-----------------------------------------------------------------------------
(* The undo history.                                                        *)

\* The undo history: an offered token and its revision.
Entry == [id : OpIds, rev : Nat \ {0}]
IdsOf(h) == {e.id : e \in ToSet(h)}
\* One entry for each token.
OncePerToken(h) == \A j, k \in DOMAIN h : h[j].id = h[k].id => j = k
HistoryOK(h) == h \in Seq(Entry) /\ Len(h) <= MaxHistory /\ OncePerToken(h)
\* Every entry carries the newest revision.
Newest(h, f) == \A e \in ToSet(h) : e.rev = f[e.id]

\* A member of a list is in its set.
LEMMA InSet == ASSUME NEW s, NEW k \in DOMAIN s PROVE s[k] \in ToSet(s)
  BY DEF ToSet

\* No entry of token t is left.
LEMMA WithoutIs ==
  ASSUME NEW k, HistoryOK(k.history), NEW t
  PROVE  LET w == Without(k, t) IN
         HistoryOK(w) /\ ToSet(w) \subseteq ToSet(k.history) /\ IdsOf(w) = IdsOf(k.history) \ {t}
<1> DEFINE h == k.history
           D == {e \in ToSet(h) : e.id = t}
           w == Without(k, t)
<1>1. w = Dropping(h, D)
  BY DEF Without
<1>2. h \in Seq(Entry) /\ Len(h) <= MaxHistory /\ OncePerToken(h) /\ Len(h) \in Nat /\ DOMAIN h = 1 .. Len(h)
  BY LenProperties DEF HistoryOK
<1>3. w \in Seq(Entry) /\ Selects(h, D, Len(h), w)
  BY <1>1, <1>2, DroppingIs
<1> HIDE DEF w
<1>4. Len(w) \in Nat /\ DOMAIN w = 1 .. Len(w)
  BY <1>3, LenProperties
<1>5. ToSet(w) = ToSet(h) \ D
  BY <1>2, <1>3, <1>4 DEF ToSet, Selects
<1>6. IdsOf(w) = IdsOf(h) \ {t}
  BY <1>5 DEF IdsOf
<1>7. OncePerToken(w)
  <2>1. PICK at \in [1 .. Len(w) -> 1 .. Len(h)] :
          /\ \A i \in 1 .. Len(w) : w[i] = h[at[i]]
          /\ \A i, j \in 1 .. Len(w) : i < j => at[i] < at[j]
    BY <1>3 DEF Selects
  <2> SUFFICES ASSUME NEW i \in 1 .. Len(w), NEW j \in 1 .. Len(w), w[i].id = w[j].id, i # j PROVE FALSE
    BY <1>4 DEF OncePerToken
  <2>2. at[i] = at[j] /\ at[i] \in Int
    BY <1>2, <2>1 DEF OncePerToken
  <2>3. i < j \/ j < i
    BY <1>4
  <2>4. at[i] < at[j] \/ at[j] < at[i]
    BY <2>1, <2>3
  <2> QED BY <2>2, <2>4
<1>8. MaxHistory \in Nat /\ Len(w) <= Len(h)
  BY <1>3, ViewAssumption DEF Selects
<1>9. Len(w) <= MaxHistory
  BY <1>2, <1>4, <1>8
<1> QED BY <1>3, <1>5, <1>6, <1>7, <1>9 DEF HistoryOK, w

\* The newest entry is always kept.
LEMMA RecentAppendIs ==
  ASSUME NEW h, HistoryOK(h), NEW e \in Entry, e.id \notin IdsOf(h)
  PROVE  LET q == Recent(Append(h, e)) IN
         HistoryOK(q) /\ ToSet(q) \subseteq ToSet(h) \cup {e} /\ e \in ToSet(q)
<1> DEFINE a == Append(h, e)
           n == Len(a)
           b == Max({1, n - MaxHistory + 1})
           q == Recent(a)
<1>0. MaxHistory \in Nat \ {0}
  BY ViewAssumption
<1>1. h \in Seq(Entry) /\ Len(h) <= MaxHistory /\ OncePerToken(h) /\ Len(h) \in Nat /\ DOMAIN h = 1 .. Len(h)
  BY LenProperties DEF HistoryOK
<1>2. a \in Seq(Entry) /\ n = Len(h) + 1 /\ a[n] = e /\ \A k \in 1 .. Len(h) : a[k] = h[k]
  BY <1>1, AppendProperties
<1>3. ToSet(a) = ToSet(h) \cup {e}
  BY <1>1, AppendSet
<1> HIDE DEF a
<1>4. DOMAIN a = 1 .. n /\ n \in Nat
  BY <1>2, LenProperties
<1>5. OncePerToken(a)
  <2>1. ASSUME NEW j \in 1 .. Len(h) PROVE h[j].id # e.id
    BY <1>1 DEF IdsOf, ToSet
  <2> SUFFICES ASSUME NEW j \in 1 .. n, NEW k \in 1 .. n, a[j].id = a[k].id PROVE j = k
    BY <1>4 DEF OncePerToken
  <2>2. (j = n \/ j \in 1 .. Len(h)) /\ (k = n \/ k \in 1 .. Len(h))
    BY <1>1, <1>2
  <2> QED BY <1>1, <1>2, <2>1, <2>2 DEF OncePerToken
<1>6. b \in Int /\ 1 <= b /\ b <= n /\ n - b + 1 <= MaxHistory
  <2> DEFINE m == n - MaxHistory + 1
  <2>1. m \in Int /\ 1 \in Int /\ b = Max({1, m})
    BY <1>0, <1>4
  <2> HIDE DEF m, b
  <2>2. b = IF 1 >= m THEN 1 ELSE m
    BY <2>1, MaxPair
  <2>3. m <= n /\ 1 <= n /\ n - m + 1 <= MaxHistory
    BY <1>0, <1>1, <1>2, <1>4 DEF m
  <2>4. CASE 1 >= m
    <3>1. n - 1 + 1 <= MaxHistory
      BY <1>0, <1>4, <2>4 DEF m
    <3> QED BY <2>2, <2>3, <2>4, <3>1
  <2>5. CASE ~(1 >= m)
    BY <2>1, <2>2, <2>3, <2>5
  <2> QED BY <2>4, <2>5
<1>7. q = SubSeq(a, b, n)
  BY DEF Recent
<1> HIDE DEF b, n, q
<1>8. q \in Seq(Entry) /\ Len(q) = n - b + 1 /\ \A i \in 1 .. n - b + 1 : q[i] = a[b + i - 1]
  <2>1. \A i \in b .. n : a[i] \in Entry
    <3>1. \A i \in b .. n : i \in DOMAIN a
      BY <1>4, <1>6
    <3>2. \A i \in DOMAIN a : a[i] \in Entry
      BY <1>2, <1>4, ElementOfSeq DEF n
    <3> QED BY <3>1, <3>2
  <2>2. n \in Int
    BY <1>4
  <2> QED BY <1>6, <1>7, <2>1, <2>2, SubSeqProperties
<1>9. DOMAIN q = 1 .. n - b + 1
  BY <1>8, LenProperties
<1>10. \A i \in DOMAIN q : b + i - 1 \in DOMAIN a /\ q[i] = a[b + i - 1]
  BY <1>4, <1>6, <1>8, <1>9
<1>11. ToSet(q) \subseteq ToSet(a)
  BY <1>10 DEF ToSet
<1>12. e \in ToSet(q)
  <2>1. n - b + 1 \in DOMAIN q /\ b + (n - b + 1) - 1 = n
    BY <1>4, <1>6, <1>9
  <2>2. q[n - b + 1] = e
    BY <1>2, <1>10, <2>1
  <2> QED BY <2>1, <2>2, InSet
<1>13. OncePerToken(q)
  <2> SUFFICES ASSUME NEW i \in DOMAIN q, NEW j \in DOMAIN q, q[i].id = q[j].id PROVE i = j
    BY DEF OncePerToken
  <2>1. b + i - 1 = b + j - 1
    BY <1>5, <1>10 DEF OncePerToken
  <2> QED BY <1>6, <1>9, <2>1
<1> QED BY <1>3, <1>6, <1>8, <1>11, <1>12, <1>13 DEF HistoryOK, q, a

\* An entry takes a newer revision in its place.
LEMMA ReplaceAtIs ==
  ASSUME NEW h, HistoryOK(h), NEW at \in DOMAIN h, NEW e \in Entry, h[at].id = e.id
  PROVE  LET q == ReplaceAt(h, at, e) IN
         /\ HistoryOK(q) /\ IdsOf(q) = IdsOf(h)
         /\ \A x \in ToSet(q) : x = e \/ (x \in ToSet(h) /\ x.id # e.id)
<1> DEFINE q == ReplaceAt(h, at, e)
<1>1. h \in Seq(Entry) /\ Len(h) <= MaxHistory /\ OncePerToken(h) /\ Len(h) \in Nat /\ DOMAIN h = 1 .. Len(h)
      /\ h \in [1 .. Len(h) -> Entry]
  BY LenProperties DEF HistoryOK
<1>2. q = [k \in 1 .. Len(h) |-> IF k = at THEN e ELSE h[k]]
  BY <1>1 DEF ReplaceAt
<1>3. q \in [1 .. Len(h) -> Entry]
  BY <1>1, <1>2
<1>4. q \in Seq(Entry) /\ Len(q) = Len(h) /\ DOMAIN q = 1 .. Len(h)
  BY <1>1, <1>2, <1>3, SeqDef, LenProperties
<1>5. \A k \in DOMAIN q : q[k].id = h[k].id /\ q[k] = IF k = at THEN e ELSE h[k]
  BY <1>2, <1>4
<1> HIDE DEF q
<1>6. IdsOf(q) = IdsOf(h)
  BY <1>1, <1>4, <1>5 DEF IdsOf, ToSet
<1>7. OncePerToken(q)
  BY <1>1, <1>4, <1>5 DEF OncePerToken
<1>8. ASSUME NEW x \in ToSet(q) PROVE x = e \/ (x \in ToSet(h) /\ x.id # e.id)
  <2>1. PICK k \in DOMAIN q : x = q[k]
    BY DEF ToSet
  <2>2. CASE k = at
    <3>1. q[k] = e
      BY <1>5, <2>2
    <3> QED BY <2>1, <3>1
  <2>3. CASE k # at
    BY <1>1, <1>4, <1>5, <2>1, <2>3 DEF OncePerToken, ToSet
  <2> QED BY <2>2, <2>3
<1> QED BY <1>1, <1>4, <1>6, <1>7, <1>8 DEF HistoryOK, q

\* What the window holds of the tokens, typed, each offered once in its newest revision.
TokensOK(k) ==
  /\ k \in [history : Seq(Entry), latest : [OpIds -> Nat], inflight : SUBSET OpIds, consumed : SUBSET OpIds]
  /\ HistoryOK(k.history) /\ Newest(k.history, k.latest)

\* _remember_undo keeps a token that is submitted or spent out of the history, offers a
\* new one if it is to be added, and never keeps two entries of one token.
LEMMA RememberIs ==
  ASSUME NEW k, TokensOK(k), NEW t \in OpIds, NEW rev \in Nat, NEW add \in BOOLEAN,
         rev > 0 \/ k.latest[t] > 0,
         t \in k.consumed \cup k.inflight => t \notin HistoryIds(k)
  PROVE  LET r == Remember(k, t, rev, add) IN
         /\ TokensOK(r) /\ r.inflight = k.inflight /\ r.consumed = k.consumed
         /\ r.latest = [k.latest EXCEPT ![t] = IF rev >= k.latest[t] THEN rev ELSE k.latest[t]]
         /\ t \in k.consumed \cup k.inflight => HistoryIds(r) = HistoryIds(k)
         /\ t \in HistoryIds(k) => HistoryIds(r) = HistoryIds(k)
         /\ ~add => HistoryIds(r) = HistoryIds(k)
         /\ t \notin k.consumed \cup k.inflight /\ add =>
              t \in HistoryIds(r) /\ HistoryIds(r) \subseteq HistoryIds(k) \cup {t}
<1> DEFINE h == k.history
           n == IF rev >= k.latest[t] THEN rev ELSE k.latest[t]
           newest == [id |-> t, rev |-> n]
           I  == {j \in 1 .. Len(h) : h[j].id = t}
           at == IF I # {} THEN Min(I) ELSE 0
           g  == IF t \in k.consumed \cup k.inflight THEN h
                 ELSE IF at # 0 THEN ReplaceAt(h, at, newest)
                 ELSE IF add THEN Recent(Append(h, newest)) ELSE h
           r  == Remember(k, t, rev, add)
           latest == [k.latest EXCEPT ![t] = n]
<1>1. k.latest \in [OpIds -> Nat] /\ HistoryOK(h) /\ Newest(h, k.latest) /\ h \in Seq(Entry)
  BY DEF TokensOK
<1>2. Len(h) \in Nat /\ DOMAIN h = 1 .. Len(h)
  BY <1>1, LenProperties
<1>3. n \in Nat \ {0} /\ NewestRevision(k, t, rev) = n
  <2>1. k.latest[t] \in Nat
    BY <1>1
  <2> QED BY <2>1, MaxPair DEF NewestRevision
<1>4. newest \in Entry /\ newest.id = t /\ newest.rev = n
  <2> HIDE DEF n
  <2> QED BY <1>3 DEF Entry
<1>5. r = [k EXCEPT !.latest = latest, !.history = g]
  <2> HIDE DEF n
  <2>1. r = [k EXCEPT !.latest[t] = n, !.history = g]
    BY <1>3 DEF Remember, SelectInSeq
  <2> HIDE DEF g
  <2> QED BY <2>1
<1>6. (at = 0 <=> t \notin IdsOf(h)) /\ (at # 0 => at \in DOMAIN h /\ h[at].id = t)
  <2>1. CASE I = {}
    <3>1. t \notin IdsOf(h)
      BY <1>2, <2>1 DEF IdsOf, ToSet
    <3> QED BY <2>1, <3>1
  <2>2. CASE I # {}
    <3>1. I \subseteq Nat
      BY <1>2
    <3> HIDE DEF I
    <3>2. Min(I) \in I
      BY <2>2, <3>1, LeastNumber DEF Min
    <3>3. at \in 1 .. Len(h) /\ h[at].id = t
      BY <2>2, <3>2 DEF I
    <3>4. t \in IdsOf(h)
      BY <1>2, <3>3 DEF IdsOf, ToSet
    <3> HIDE DEF at
    <3> QED BY <1>2, <3>3, <3>4
  <2> QED BY <2>1, <2>2
<1>7. latest \in [OpIds -> Nat] /\ latest[t] = n /\ \A s \in OpIds : s # t => latest[s] = k.latest[s]
  <2> HIDE DEF n
  <2> QED BY <1>1, <1>3
<1>8. \A e \in ToSet(h) : e.id \in IdsOf(h) /\ e \in Entry
  <2>1. ToSet(h) \subseteq Entry
    BY <1>1, <1>2, ElementOfSeq DEF ToSet
  <2> QED BY <2>1 DEF IdsOf
<1> HIDE DEF I, at, newest, n, latest
<1>9. CASE t \in k.consumed \cup k.inflight
  <2>1. g = h /\ t \notin IdsOf(h)
    BY <1>9 DEF HistoryIds, IdsOf
  <2>2. Newest(h, latest)
    BY <1>1, <1>7, <1>8, <2>1 DEF Newest, Entry
  <2>3. r.history = h /\ r.latest = latest /\ r.inflight = k.inflight /\ r.consumed = k.consumed
    BY <1>5, <2>1 DEF TokensOK
  <2>4. TokensOK(r)
    BY <1>1, <1>5, <1>7, <2>1, <2>2, <2>3 DEF TokensOK
  <2> HIDE DEF r, g
  <2> QED BY <1>9, <2>3, <2>4 DEF HistoryIds, r, latest, n
<1>10. CASE t \notin k.consumed \cup k.inflight /\ at # 0
  <2>1. g = ReplaceAt(h, at, newest)
    BY <1>10
  <2>2. HistoryOK(g) /\ IdsOf(g) = IdsOf(h) /\ \A x \in ToSet(g) : x = newest \/ (x \in ToSet(h) /\ x.id # t)
    BY <1>1, <1>4, <1>6, <1>10, <2>1, ReplaceAtIs
  <2> HIDE DEF g
  <2>3. Newest(g, latest)
    BY <1>1, <1>4, <1>7, <1>8, <2>2 DEF Newest, Entry
  <2>4. r.history = g /\ r.latest = latest /\ r.inflight = k.inflight /\ r.consumed = k.consumed
    BY <1>5 DEF TokensOK
  <2>5. TokensOK(r)
    BY <1>1, <1>5, <1>7, <2>2, <2>3, <2>4 DEF TokensOK, HistoryOK
  <2> HIDE DEF r
  <2>6. HistoryIds(r) = HistoryIds(k) /\ t \in HistoryIds(k)
    BY <1>6, <1>10, <2>2, <2>4 DEF HistoryIds, IdsOf
  <2> QED BY <2>4, <2>5, <2>6 DEF r, latest, n
<1>11. CASE t \notin k.consumed \cup k.inflight /\ at = 0 /\ add
  <2>1. g = Recent(Append(h, newest))
    BY <1>11
  <2>2. HistoryOK(g) /\ ToSet(g) \subseteq ToSet(h) \cup {newest} /\ newest \in ToSet(g)
    BY <1>1, <1>4, <1>6, <1>11, <2>1, RecentAppendIs
  <2> HIDE DEF g
  <2>3. Newest(g, latest)
    BY <1>1, <1>4, <1>6, <1>7, <1>8, <1>11, <2>2 DEF Newest, Entry
  <2>4. r.history = g /\ r.latest = latest /\ r.inflight = k.inflight /\ r.consumed = k.consumed
    BY <1>5 DEF TokensOK
  <2>5. TokensOK(r)
    BY <1>1, <1>5, <1>7, <2>2, <2>3, <2>4 DEF TokensOK, HistoryOK
  <2> HIDE DEF r
  <2>6. t \in HistoryIds(r) /\ HistoryIds(r) \subseteq HistoryIds(k) \cup {t} /\ t \notin HistoryIds(k)
    BY <1>4, <1>6, <1>11, <2>2, <2>4 DEF HistoryIds, IdsOf
  <2> QED BY <1>11, <2>4, <2>5, <2>6 DEF r, latest, n
<1>12. CASE t \notin k.consumed \cup k.inflight /\ at = 0 /\ ~add
  <2>1. g = h /\ t \notin IdsOf(h)
    BY <1>6, <1>12
  <2>2. Newest(h, latest)
    BY <1>1, <1>7, <1>8, <2>1 DEF Newest, Entry
  <2>3. r.history = h /\ r.latest = latest /\ r.inflight = k.inflight /\ r.consumed = k.consumed
    BY <1>5, <2>1 DEF TokensOK
  <2>4. TokensOK(r)
    BY <1>1, <1>5, <1>7, <2>1, <2>2, <2>3 DEF TokensOK
  <2> HIDE DEF r, g
  <2> QED BY <1>12, <2>3, <2>4 DEF HistoryIds, r, latest, n
<1> QED BY <1>9, <1>10, <1>11, <1>12
-----------------------------------------------------------------------------
(* The inductive invariant.                                                 *)

\* Words of the invariant: the sorts that take an image out of the folder, an operation
\* that is out or done, a success on its way to the window, a token whose image is away
\* with an artifact that can still be undone.
Takes      == {"move", "trash"}
Known      == DOMAIN ops
Pending(o) == ops[o].state = "pending"
Done(o)    == ops[o].state \in {"earlier", "finished"}
Refers(o)  == ops[o].action \in Undos \cup {"metadata"}
Landed(o)  == Pending(o) /\ \E m \in inbox : m.op = o /\ m.ok
Away(t)    == revision[t] > 0 /\ t \notin spent \cup stale /\ ops[t].action \in Takes
Queue      == ToSet(view.images)

\* What the window submitted: undos and metadata name an earlier sort of the same image
\* that is done, with a revision the window was told.
RequestOf(o) ==
    /\ ops[o].gen <= generation
    /\ ops[o].state = "earlier" => ops[o].action = "move"
    /\ Refers(o) => LET t == ops[o].token IN
         /\ t \in Known /\ t < o /\ ops[t].action \in Sorts /\ ops[t].image = ops[o].image
         /\ Done(t) /\ ops[o].state # "earlier"
    /\ ops[o].action \in Undos =>
         /\ ops[o].action = "undo_copy" <=> ops[ops[o].token].action = "copy"
         /\ ops[o].rev > 0 /\ ops[o].rev <= told[ops[o].token]
    /\ ops[o].action = "metadata" =>
         ops[ops[o].token].state = "finished" /\ ops[ops[o].token].action \in {"move", "copy"}
Requests == \A o \in Known : RequestOf(o)

\* An operation that is out is with the service or its message is on the way, not both.
Waiting ==
  /\ Distinct(accepted)
  /\ \A o \in ToSet(accepted) : o \in Known /\ Pending(o) /\ row[o] = "open" /\ \A m \in inbox : m.op # o
  /\ \A o \in Known : Pending(o) => o \in ToSet(accepted) \/ \E m \in inbox : m.op = o

\* What a message says is in the journal; of an operation the journal could not settle
\* there is one message only.
MessageOf(m) ==
  /\ m.rev > 0 => m.ok /\ row[m.op] = "ok" /\ ops[m.op].action \notin Undos /\ revision[TokenOf(m.op)] > 0
  /\ row[m.op] # "open" => (m.ok <=> row[m.op] = "ok")
  /\ row[m.op] = "ok" /\ Pending(m.op) /\ ops[m.op].action \in Sorts => m.rev = revision[m.op]
  /\ m.ok /\ ops[m.op].action \in Undos /\ lost = 0 => ops[m.op].token \in spent
Messages ==
  /\ \A m \in inbox : MessageOf(m)
  /\ \A m, n \in inbox : m.op = n.op /\ row[m.op] = "open" => m = n

\* What the journal says of an operation agrees with the window: tokens belong to sorts
\* that are done, and are told of before they are used.
JournalOf(o) ==
  /\ row[o] # "open" => o \in Known
  /\ row[o] = "ok" => ops[o].state # "error"
  /\ row[o] = "ok" /\ ops[o].action \in Undos => ops[o].token \in spent
  /\ revision[o] > 0 => o \in Known /\ ops[o].action \in Sorts /\ row[o] = "ok"
  /\ revision[o] > 0 /\ ops[o].state = "finished" => told[o] > 0
  /\ o \in spent \cup stale => o \in Known /\ ops[o].action \in Sorts /\ Done(o)
  /\ told[o] > 0 => /\ o \in Known /\ ops[o].action \in Sorts /\ Done(o)
                    /\ ops[o].state = "finished" /\ ops[o].action # "trash" => o \in parents
Journal == \A o \in OpIds : JournalOf(o)

\* An image is away because of one sort only: the one whose token can bring it back.
Presence ==
  /\ \A t \in OpIds : Away(t) => ops[t].image \notin present
  /\ \A t, u \in OpIds : Away(t) /\ Away(u) /\ ops[t].image = ops[u].image => t = u
  /\ \A o \in Known : Landed(o) /\ ops[o].action \in Takes =>
       /\ ops[o].image \notin present
       /\ \A t \in OpIds : Away(t) /\ ops[t].image = ops[o].image => t = o

\* The queue has no repetitions, only images of the folder, the images that sorts are out
\* for, and no image that two sorts are out for.
Queueing ==
  /\ Distinct(view.images)
  /\ \A i \in Queue : Library[i] = folder
  /\ \A o \in Known : Pending(o) /\ ops[o].action \in Takes /\ ops[o].gen = generation => ops[o].image \in Queue
  /\ \A o, p \in Known : Pending(o) /\ Pending(p) /\ ops[o].action \in Sorts /\ ops[p].action \in Sorts
                         /\ ops[o].image = ops[p].image => o = p

\* The queue and the folder differ only by the successes on their way: one sort takes an
\* image that is still in the queue, or one undo returns one that is not yet.
Viewed(i)       == Library[i] = folder /\ i \notin unsure
Moving(o, i)    == Landed(o) /\ ops[o].image = i /\ ops[o].action \in Takes
Returning(o, i) == Landed(o) /\ ops[o].image = i /\ ops[o].action = "undo_move"
TruthOf(i) ==
  /\ \A o \in Known : Pending(o) /\ ops[o].image = i => ops[o].gen = generation
  /\ \A o \in Known : Moving(o, i) => i \in Queue
  /\ \A o \in Known : Returning(o, i) => i \notin Queue /\ i \in present
  /\ \A o, p \in Known : Returning(o, i) /\ Returning(p, i) => o = p
  /\ (\A o \in Known : ~Moving(o, i) /\ ~Returning(o, i)) => (i \in Queue <=> i \in present)
Truth == \A i \in Images : Viewed(i) => TruthOf(i)

\* The held image is at its index until its sort succeeded; then the index is its gap.
Holding ==
  view.held # NoHold =>
    LET h == view.held IN
    /\ h.op \in Known /\ ops[h.op].action = "move" /\ ops[h.op].image = h.image
    /\ ops[h.op].gen = generation
    /\ ~h.completed => Pending(h.op) /\ h.index \in Positions(view.images) /\ At(view.images, h.index) = h.image
    /\ h.completed => ~Pending(h.op) /\ h.image \notin Queue
    /\ \A k \in Positions(view.images) :
         /\ At(view.images, k) \in beside.left  => k < h.index
         /\ At(view.images, k) \in beside.right => k >= h.index

\* The places of the tokens, and the undos that are out.
Ids == HistoryIds(tokens)
Tokens ==
  /\ told = tokens.latest
  /\ OncePerToken(tokens.history) /\ Newest(tokens.history, told)
  /\ \A t \in OpIds : told[t] > 0 <=> t \in Ids \cup tokens.inflight \cup tokens.consumed \cup dropped
  /\ \A t \in OpIds :
       /\ t \in Ids => t \notin tokens.inflight \cup tokens.consumed \cup dropped
       /\ t \in tokens.inflight => t \notin tokens.consumed \cup dropped
       /\ t \in tokens.consumed => t \notin dropped
  /\ tokens.inflight = {ops[u].token : u \in {o \in Known : Pending(o) /\ ops[o].action \in Undos}}
  /\ \A u, w \in Known : Pending(u) /\ Pending(w) /\ ops[u].action \in Undos /\ ops[w].action \in Undos
                         /\ ops[u].token = ops[w].token => u = w
  /\ lost = 0 => tokens.consumed \subseteq spent

\* Readers and metadata belong to finished sorts; an undo has cancelled its sort's tagging.
Taggings ==
  /\ DOMAIN reader = OpIds /\ parents \subseteq OpIds
  /\ \A o \in OpIds : reader[o] # "none" \/ o \in ToSet(backlog) =>
       o \in Known /\ ops[o].state = "finished" /\ ops[o].action \in {"move", "copy"}
  /\ \A u \in Known : ops[u].action \in Undos /\ ops[ops[u].token].state = "finished"
                      /\ ops[ops[u].token].action # "trash" => ops[u].token \in cancelled
  /\ TaggingStops

IInv == /\ TypeOK /\ Requests /\ Waiting /\ Messages /\ Journal /\ Presence
        /\ Queueing /\ Truth /\ Holding /\ Tokens /\ Taggings

\* What the type invariant says about the list of operations.
LEMMA OpsFacts ==
  ASSUME TypeOK
  PROVE  /\ Known = 1 .. Len(ops) /\ Len(ops) \in Nat /\ Known \subseteq OpIds
         /\ \A o \in Known : /\ ops[o] \in Op /\ ops[o].image \in Images /\ ops[o].token \in 0 .. MaxOps
                             /\ ops[o].state \in {"earlier", "pending", "finished", "error"}
                             /\ ops[o].action \in Sorts \cup Undos \cup {"metadata"}
                             /\ ops[o].gen \in Nat /\ ops[o].rev \in Nat /\ ops[o].index \in Int
         /\ \A m \in inbox : m.op \in Known /\ m.ok \in BOOLEAN /\ m.rev \in Nat
         /\ \A o \in ToSet(accepted) : o \in Known
         /\ accepted \in Seq(OpIds)
<1>1. ops \in Seq(Op) /\ Len(ops) <= MaxOps /\ inbox \subseteq [op : DOMAIN ops, ok : BOOLEAN, rev : Nat]
      /\ accepted \in Seq(DOMAIN ops)
  BY DEF TypeOK, ViewTypeOK
<1>2. Len(ops) \in Nat /\ DOMAIN ops = 1 .. Len(ops) /\ MaxOps \in Nat
  BY <1>1, LenProperties, ViewAssumption
<1>3. \A o \in Known : ops[o] \in Op
  BY <1>1, <1>2, ElementOfSeq DEF Known
<1>5. \A o \in ToSet(accepted) : o \in Known
  <2>1. accepted \in [1 .. Len(accepted) -> DOMAIN ops] /\ DOMAIN accepted = 1 .. Len(accepted)
    BY <1>1, LenProperties
  <2> QED BY <2>1 DEF ToSet, Known
<1>4. Known \subseteq OpIds
  BY <1>1, <1>2 DEF Known, OpIds
<1>6. accepted \in Seq(OpIds)
  BY <1>1, <1>4, SeqMonotonic DEF Known
<1> QED BY <1>1, <1>2, <1>3, <1>4, <1>5, <1>6 DEF Known, Op

\* One more request.
LEMMA Grown ==
  ASSUME TypeOK, Room, NEW req \in Op, ops' = Append(ops, req)
  PROVE  /\ Known' = Known \cup {NextOp} /\ NextOp \notin Known /\ NextOp \in OpIds
         /\ \A o \in Known : o < NextOp /\ o \in Int
         /\ ops'[NextOp] = req /\ \A o \in Known : ops'[o] = ops[o]
         /\ ops' \in Seq(Op) /\ Len(ops') = NextOp /\ Len(ops') <= MaxOps
<1>1. ops \in Seq(Op) /\ Len(ops) \in Nat /\ Known = 1 .. Len(ops) /\ MaxOps \in Nat /\ Len(ops) < MaxOps
  BY OpsFacts, ViewAssumption DEF TypeOK, ViewTypeOK, Room
<1>2. /\ ops' \in Seq(Op) /\ Len(ops') = Len(ops) + 1 /\ ops'[Len(ops) + 1] = req
      /\ \A k \in 1 .. Len(ops) : ops'[k] = ops[k]
  BY <1>1, AppendProperties
<1>3. Known' = 1 .. Len(ops) + 1
  BY <1>2, LenProperties DEF Known
<1> QED BY <1>1, <1>2, <1>3 DEF NextOp, OpIds

\* IInv implies the properties.
LEMMA InvGivesGap == ASSUME IInv PROVE HeldGap
<1> SUFFICES ASSUME view.held # NoHold
             PROVE  LET at  == IndexOf(view.images, view.held.image)
                        gap == IF at # -1 THEN at ELSE view.held.index
                    IN \A k \in Positions(view.images) :
                         /\ At(view.images, k) \in beside.left  => k < gap
                         /\ At(view.images, k) \in beside.right => k >= gap
  BY DEF HeldGap
<1> DEFINE h == view.held
           at == IndexOf(view.images, h.image)
<1>1. view.images \in Seq(Images) /\ h \in Hold /\ Distinct(view.images)
  BY DEF IInv, TypeOK, ViewTypeOK, Queueing
<1>2. /\ ~h.completed => h.index \in Positions(view.images) /\ At(view.images, h.index) = h.image
      /\ h.completed => h.image \notin Queue
      /\ \A k \in Positions(view.images) :
         /\ At(view.images, k) \in beside.left  => k < h.index
         /\ At(view.images, k) \in beside.right => k >= h.index
  BY DEF IInv, Holding
<1>3. /\ at = -1 <=> h.image \notin Queue
      /\ at # -1 => at \in Positions(view.images) /\ At(view.images, at) = h.image
  BY <1>1, IndexOfQueue DEF Queue
<1>4. \A j, k \in Positions(view.images) : At(view.images, j) = At(view.images, k) => j = k
  <2>1. DOMAIN view.images = 1 .. Len(view.images) /\ Len(view.images) \in Nat
    BY <1>1, LenProperties
  <2>2. \A j \in Positions(view.images) : j \in Int /\ j + 1 \in DOMAIN view.images
    BY <2>1 DEF Positions
  <2> QED BY <1>1, <2>2 DEF Distinct, At
<1>5. at # -1 => at = h.index
  <2>1. h.completed \in BOOLEAN
    BY <1>1 DEF Hold
  <2> QED BY <1>2, <1>3, <1>4, <2>1
<1>6. (IF at # -1 THEN at ELSE h.index) = h.index
  BY <1>5
<1> HIDE DEF at
<1> QED BY <1>2, <1>6 DEF at

\* A token that was told is in one place.
LEMMA InvGivesPlaces == ASSUME IInv PROVE TokenPlaces
<1> DEFINE h == tokens.history
<1>1. h \in Seq(Entry) /\ told = tokens.latest /\ OncePerToken(h) /\ Newest(h, told)
  BY DEF IInv, TypeOK, ViewTypeOK, Tokens, Entry
<1>2. Cardinality(HistoryIds(tokens)) = Len(tokens.history)
  <2>1. Len(h) \in Nat /\ DOMAIN h = 1 .. Len(h)
    BY <1>1, LenProperties
  <2> DEFINE s == [k \in 1 .. Len(h) |-> h[k].id]
  <2>2. \A k \in 1 .. Len(h) : h[k].id \in OpIds
    <3>1. h \in [1 .. Len(h) -> Entry]
      BY <1>1, LenProperties
    <3> QED BY <3>1 DEF Entry
  <2>3. s \in Seq(OpIds) /\ Len(s) = Len(h)
    BY <2>1, <2>2, IsASeq, SeqDef, LenProperties
  <2>4. Distinct(s)
    BY <1>1, <2>1 DEF Distinct, OncePerToken
  <2>5. ToSet(s) = HistoryIds(tokens)
    BY <2>1 DEF ToSet, HistoryIds
  <2> HIDE DEF s
  <2> QED BY <2>3, <2>4, <2>5, DistinctLength
<1>3. \A e \in ToSet(tokens.history) : e.rev = told[e.id]
  BY <1>1 DEF Newest
<1>4. ASSUME NEW t \in OpIds, told[t] > 0
      PROVE \E place \in DOMAIN Places : \A other \in DOMAIN Places : t \in Places[other] <=> other = place
  <2>1. /\ DOMAIN Places = 1 .. 4 /\ Places[1] = Ids /\ Places[2] = tokens.inflight
        /\ Places[3] = tokens.consumed /\ Places[4] = dropped
    BY DEF Places, Ids
  <2>2. /\ t \in Places[1] \cup Places[2] \cup Places[3] \cup Places[4]
        /\ t \in Places[1] => t \notin Places[2] \cup Places[3] \cup Places[4]
        /\ t \in Places[2] => t \notin Places[3] \cup Places[4]
        /\ t \in Places[3] => t \notin Places[4]
    BY <1>4, <2>1 DEF IInv, Tokens
  <2>3. 1 .. 4 = {1, 2, 3, 4}
    OBVIOUS
  <2> HIDE DEF Places
  <2>4. CASE t \in Places[1]
    BY <2>1, <2>2, <2>3, <2>4
  <2>5. CASE t \in Places[2]
    BY <2>1, <2>2, <2>3, <2>5
  <2>6. CASE t \in Places[3]
    BY <2>1, <2>2, <2>3, <2>6
  <2>7. CASE t \in Places[4]
    BY <2>1, <2>2, <2>3, <2>7
  <2> QED BY <2>2, <2>4, <2>5, <2>6, <2>7
<1>5. lost = 0 => tokens.consumed \subseteq spent
  BY DEF IInv, Tokens
<1> QED BY <1>2, <1>3, <1>4, <1>5 DEF TokenPlaces

\* Where no operation is out for an image, none is moving or returning.
LEMMA InvGivesTruth == ASSUME IInv PROVE ViewTruth
<1>1. TypeOK /\ Distinct(view.images) /\ view.images \in Seq(Images)
  BY DEF IInv, Queueing, TypeOK, ViewTypeOK
<1>2. ASSUME NEW i \in Images, Library[i] = folder, ~Out(i), i \notin unsure
      PROVE  Contains(view.images, i) <=> i \in present
  <2>1. TruthOf(i)
    BY <1>2 DEF IInv, Truth, Viewed
  <2>2. \A o \in Known : ~Moving(o, i) /\ ~Returning(o, i)
    BY <1>2 DEF Out, Moving, Returning, Landed, Pending, Known
  <2> QED BY <1>1, <2>1, <2>2, ContainsIs DEF TruthOf, Queue
<1> QED BY <1>1, <1>2 DEF ViewTruth, Distinct
-----------------------------------------------------------------------------
(* The user.                                                                *)

\* What a new request may be, in the present state.
Proper(req) ==
  /\ req \in Op /\ req.state = "pending" /\ req.gen = generation
  /\ req.action \in Sorts =>
       \A o \in Known : ops[o].image = req.image /\ ops[o].action \in Sorts => ~Pending(o)
  /\ req.action \in Takes => req.image \in Queue
  /\ req.action \notin Sorts =>
       /\ req.token \in Known /\ ops[req.token].action \in Sorts
       /\ ops[req.token].image = req.image /\ Done(req.token)
  /\ req.action \in Undos =>
       /\ req.action = "undo_copy" <=> ops[req.token].action = "copy"
       /\ req.rev > 0 /\ req.rev <= told[req.token]
  /\ req.action = "metadata" =>
       ops[req.token].state = "finished" /\ ops[req.token].action \in {"move", "copy"}

\* A proper request at the end of the list disturbs nothing.
LEMMA Appended ==
  ASSUME IInv, Room, NEW req, Proper(req), ops' = Append(ops, req), accepted' = Append(accepted, NextOp),
         UNCHANGED <<folder, generation, present, row, revision, spent, stale, inbox, lost, unsure, told, parents>>,
         view'.images = view.images
  PROVE  Requests' /\ Waiting' /\ Messages' /\ Journal' /\ Presence' /\ Queueing' /\ Truth'
<1>0. PICK n : n = NextOp
  OBVIOUS
<1>1. TypeOK /\ req \in Op /\ req.state = "pending" /\ req.gen = generation
  BY DEF IInv, Proper
<1>2. /\ Known' = Known \cup {n} /\ n \notin Known /\ n \in OpIds /\ \A o \in Known : o < n /\ o \in Int
      /\ ops'[n] = req /\ \A o \in Known : ops'[o] = ops[o]
  BY <1>0, <1>1, Grown
<1>3. /\ Known \subseteq OpIds /\ OpIds \subseteq Int
      /\ \A m \in inbox : m.op \in Known /\ m.ok \in BOOLEAN /\ m.rev \in Nat
      /\ \A o \in ToSet(accepted) : o \in Known
      /\ \A o \in Known : ops[o].gen \in Nat /\ ops[o].action \in Sorts \cup Undos \cup {"metadata"}
  BY <1>1, OpsFacts DEF OpIds
<1>4. req.action \in Sorts \cup Undos \cup {"metadata"} /\ generation \in Int
  BY <1>1 DEF Op, TypeOK, ViewTypeOK
<1>5. \A o \in Known : /\ Pending(o)' <=> Pending(o)
                       /\ Done(o)' <=> Done(o)
                       /\ Refers(o)' <=> Refers(o)
  BY <1>2 DEF Pending, Done, Refers
<1>6. \A o \in Known : Landed(o)' <=> Landed(o)
  BY <1>2 DEF Landed, Pending
<1>7. ~Landed(n)'
  BY <1>2, <1>3 DEF Landed
<1>8. /\ \A m \in inbox : TokenOf(m.op)' = TokenOf(m.op)
      /\ Queue' = Queue
  BY <1>2, <1>3 DEF TokenOf, Queue
<1>9. \A t \in OpIds : revision[t] > 0 \/ told[t] > 0 \/ t \in spent \cup stale \/ row[t] # "open" => t \in Known
  BY DEF IInv, Journal, JournalOf
<1>10. \A t \in OpIds : Away(t)' <=> Away(t)
  <2> SUFFICES ASSUME NEW t \in OpIds PROVE Away(t)' <=> Away(t)
    OBVIOUS
  <2>1. CASE revision[t] > 0
    BY <1>2, <1>9, <2>1 DEF Away
  <2>2. CASE ~(revision[t] > 0)
    BY <2>2 DEF Away
  <2> QED BY <2>1, <2>2
<1>11. \A t \in OpIds : Away(t) => t \in Known
  BY <1>9 DEF Away
<1>12. Requests'
  <2>1. ASSUME NEW o \in Known PROVE RequestOf(o)'
    <3>1. ops'[o] = ops[o] /\ (Refers(o)' <=> Refers(o)) /\ RequestOf(o)
      BY <1>2, <1>5 DEF IInv, Requests
    <3>2. CASE Refers(o)
      <4> DEFINE t == ops[o].token
      <4>1. t \in Known
        BY <3>1, <3>2 DEF RequestOf
      <4>2. ops'[t] = ops[t] /\ t \in Known'
        BY <1>2, <4>1
      <4> QED BY <3>1, <3>2, <4>2 DEF RequestOf, Done
    <3>3. CASE ~Refers(o)
      BY <3>1, <3>3 DEF RequestOf, Refers
    <3> QED BY <3>2, <3>3
  <2>2. RequestOf(n)'
    <3>1. req.gen <= generation /\ req.state # "earlier"
      BY <1>1, <1>4
    <3>2. req.action \in Undos \cup {"metadata"} => req.action \notin Sorts
      BY DEF Undos, Sorts
    <3>3. Refers(n)' <=> req.action \in Undos \cup {"metadata"}
      BY <1>2 DEF Refers
    <3>4. CASE req.action \in Sorts
      BY <1>2, <3>1, <3>2, <3>3, <3>4 DEF RequestOf
    <3>5. CASE req.action \notin Sorts
      <4>1. /\ req.token \in Known /\ ops[req.token].action \in Sorts
            /\ ops[req.token].image = req.image /\ Done(req.token)
        BY <3>5 DEF Proper
      <4>2. ops'[req.token] = ops[req.token] /\ req.token \in Known' /\ req.token < n
        BY <1>2, <4>1
      <4> QED BY <1>2, <3>1, <4>1, <4>2 DEF Proper, RequestOf, Done
    <3> QED BY <3>4, <3>5
  <2> QED BY <1>2, <2>1, <2>2 DEF Requests
<1>13. Waiting'
  <2>1. ToSet(accepted') = ToSet(accepted) \cup {n} /\ Distinct(accepted')
    <3>1. accepted \in Seq(OpIds) /\ Distinct(accepted)
      BY <1>1, OpsFacts DEF IInv, Waiting
    <3>2. n \notin ToSet(accepted)
      BY <1>2, <1>3
    <3> QED BY <1>2, <3>1, <3>2, AppendSet, AppendDistinct, <1>0
  <2>2. row[n] = "open" /\ \A m \in inbox : m.op # n
    BY <1>2, <1>3, <1>9
  <2>3. Pending(n)'
    BY <1>1, <1>2 DEF Pending
  <2>4. ASSUME NEW o \in ToSet(accepted')
        PROVE  o \in Known' /\ Pending(o)' /\ row[o] = "open" /\ \A m \in inbox : m.op # o
    <3>1. CASE o = n
      BY <1>2, <2>2, <2>3, <3>1
    <3>2. CASE o \in ToSet(accepted)
      <4>1. o \in Known /\ Pending(o) /\ row[o] = "open" /\ \A m \in inbox : m.op # o
        BY <3>2 DEF IInv, Waiting
      <4> QED BY <1>2, <1>5, <4>1
    <3> QED BY <2>1, <3>1, <3>2
  <2>5. ASSUME NEW o \in Known', Pending(o)' PROVE o \in ToSet(accepted') \/ \E m \in inbox : m.op = o
    <3>1. CASE o = n
      BY <2>1, <3>1
    <3>2. CASE o \in Known
      BY <1>5, <2>1, <2>5, <3>2 DEF IInv, Waiting
    <3> QED BY <1>2, <3>1, <3>2
  <2> QED BY <2>1, <2>4, <2>5 DEF Waiting
<1>14. Messages'
  <2>1. ASSUME NEW m \in inbox PROVE MessageOf(m)'
    <3>1. ops'[m.op] = ops[m.op] /\ TokenOf(m.op)' = TokenOf(m.op) /\ (Pending(m.op)' <=> Pending(m.op))
      BY <1>2, <1>3, <1>5, <1>8
    <3>2. MessageOf(m)
      BY DEF IInv, Messages
    <3> QED BY <3>1, <3>2 DEF MessageOf
  <2>2. \A m, k \in inbox : m.op = k.op /\ row[m.op] = "open" => m = k
    BY DEF IInv, Messages
  <2> QED BY <2>1, <2>2 DEF Messages
<1>15. Journal'
  <2> SUFFICES ASSUME NEW o \in OpIds PROVE JournalOf(o)'
    BY DEF Journal
  <2>1. CASE o \in Known
    <3>1. ops'[o] = ops[o] /\ (Done(o)' <=> Done(o)) /\ o \in Known'
      BY <1>2, <1>5, <2>1
    <3>2. JournalOf(o)
      BY DEF IInv, Journal
    <3> QED BY <3>1, <3>2 DEF JournalOf
  <2>2. CASE o \notin Known
    <3>1. ~(revision[o] > 0) /\ ~(told[o] > 0) /\ o \notin spent \cup stale /\ row[o] = "open"
      BY <1>9, <2>2
    <3> QED BY <3>1 DEF JournalOf
  <2> QED BY <2>1, <2>2
<1>16. Presence'
  <2>1. \A t \in OpIds : Away(t)' => ops'[t].image \notin present
    BY <1>2, <1>10, <1>11 DEF IInv, Presence
  <2>2. \A t, u \in OpIds : Away(t)' /\ Away(u)' /\ ops'[t].image = ops'[u].image => t = u
    BY <1>2, <1>10, <1>11 DEF IInv, Presence
  <2>3. ASSUME NEW o \in Known', Landed(o)', ops'[o].action \in Takes
        PROVE  /\ ops'[o].image \notin present
               /\ \A t \in OpIds : Away(t)' /\ ops'[t].image = ops'[o].image => t = o
    <3>1. o \in Known /\ Landed(o) /\ ops'[o] = ops[o]
      BY <1>2, <1>6, <1>7, <2>3
    <3>2. /\ ops[o].image \notin present
          /\ \A t \in OpIds : Away(t) /\ ops[t].image = ops[o].image => t = o
      BY <2>3, <3>1 DEF IInv, Presence
    <3> QED BY <1>2, <1>10, <1>11, <3>1, <3>2
  <2> QED BY <2>1, <2>2, <2>3 DEF Presence
<1>17. Queueing'
  <2>1. Distinct(view'.images) /\ \A i \in Queue' : Library[i] = folder
    BY <1>8 DEF IInv, Queueing
  <2>2. ASSUME NEW o \in Known', Pending(o)', ops'[o].action \in Takes, ops'[o].gen = generation
        PROVE  ops'[o].image \in Queue'
    <3>1. CASE o = n
      BY <1>2, <1>8, <2>2, <3>1 DEF Proper
    <3>2. CASE o \in Known
      BY <1>2, <1>5, <1>8, <2>2, <3>2 DEF IInv, Queueing
    <3> QED BY <1>2, <3>1, <3>2
  <2>3. ASSUME NEW o \in Known', NEW p \in Known', Pending(o)', Pending(p)', ops'[o].action \in Sorts,
               ops'[p].action \in Sorts, ops'[o].image = ops'[p].image
        PROVE  o = p
    <3>1. CASE o \in Known /\ p \in Known
      <4>1. ops'[o] = ops[o] /\ ops'[p] = ops[p] /\ Pending(o) /\ Pending(p)
        BY <1>2, <1>5, <2>3, <3>1
      <4> QED BY <2>3, <3>1, <4>1 DEF IInv, Queueing
    <3>2. CASE o = n /\ p \in Known
      BY <1>2, <1>5, <2>3, <3>2 DEF Proper
    <3>3. CASE o \in Known /\ p = n
      BY <1>2, <1>5, <2>3, <3>3 DEF Proper
    <3> QED BY <1>2, <3>1, <3>2, <3>3
  <2> QED BY <2>1, <2>2, <2>3 DEF Queueing
<1>18. Truth'
  <2> SUFFICES ASSUME NEW i \in Images, Viewed(i)' PROVE TruthOf(i)'
    BY DEF Truth
  <2>1. TruthOf(i)
    BY DEF IInv, Truth, Viewed
  <2>2. \A o \in Known : /\ Moving(o, i)' <=> Moving(o, i)
                         /\ Returning(o, i)' <=> Returning(o, i)
    BY <1>2, <1>6 DEF Moving, Returning
  <2>3. ~Moving(n, i)' /\ ~Returning(n, i)'
    BY <1>7 DEF Moving, Returning
  <2>4. \A o \in Known' : Pending(o)' /\ ops'[o].image = i => ops'[o].gen = generation
    BY <1>1, <1>2, <1>5, <2>1 DEF TruthOf
  <2> QED BY <1>2, <1>8, <2>1, <2>2, <2>3, <2>4 DEF TruthOf
<1> QED BY <1>12, <1>13, <1>14, <1>15, <1>16, <1>17, <1>18

\* Each part of the invariant depends on some variables only.
LEMMA RequestsStay == ASSUME Requests, UNCHANGED <<ops, generation, told>> PROVE Requests'
  BY DEF Requests, RequestOf, Refers, Done, Known
LEMMA WaitingStays == ASSUME Waiting, UNCHANGED <<ops, accepted, row, inbox>> PROVE Waiting'
  BY DEF Waiting, Known, Pending
LEMMA MessagesStay ==
  ASSUME Messages, UNCHANGED <<ops, row, revision, inbox, lost, spent>> PROVE Messages'
  BY DEF Messages, MessageOf, TokenOf, Pending
LEMMA JournalStays ==
  ASSUME Journal, UNCHANGED <<ops, row, revision, spent, stale, told, parents>> PROVE Journal'
  BY DEF Journal, JournalOf, Known, Done
LEMMA PresenceStays ==
  ASSUME Presence, UNCHANGED <<ops, revision, spent, stale, present, inbox>> PROVE Presence'
  BY DEF Presence, Away, Landed, Pending, Known
LEMMA QueueingStays ==
  ASSUME Queueing, UNCHANGED <<ops, generation, folder>>, view'.images = view.images PROVE Queueing'
  BY DEF Queueing, Queue, Known, Pending
LEMMA TruthStays ==
  ASSUME Truth, UNCHANGED <<ops, generation, folder, unsure, inbox, present>>, view'.images = view.images
  PROVE  Truth'
  BY DEF Truth, TruthOf, Viewed, Moving, Returning, Landed, Pending, Known, Queue
LEMMA HoldingStays ==
  ASSUME Holding, UNCHANGED <<ops, generation, beside>>, view'.images = view.images,
         view'.held \in {view.held, NoHold}
  PROVE  Holding'
<1>1. CASE view'.held = NoHold
  BY <1>1 DEF Holding
<1>2. CASE view'.held = view.held
  BY <1>2 DEF Holding, Known, Pending, Queue
<1> QED BY <1>1, <1>2
LEMMA TokensStay ==
  ASSUME Tokens, UNCHANGED <<ops, told, tokens, dropped, lost, spent>> PROVE Tokens'
  BY DEF Tokens, Ids, HistoryIds, Known, Pending
LEMMA TaggingsStay ==
  ASSUME Taggings, UNCHANGED <<ops, reader, backlog, parents, cancelled>> PROVE Taggings'
  BY DEF Taggings, TaggingStops, Known
LEMMA TaggingTypeStays == ASSUME EnrichmentTypeOK, UNCHANGED enrichment PROVE EnrichmentTypeOK'
  BY DEF EnrichmentTypeOK, enrichment, Active
LEMMA ViewTypeStays == ASSUME ViewTypeOK, UNCHANGED window PROVE ViewTypeOK'
  BY DEF ViewTypeOK, window

\* What TypeOK says of what is outside the window and the tagging.
RestTypeOK ==
  /\ accepted \in Seq(DOMAIN ops) /\ present \subseteq Images
  /\ row \in [OpIds -> {"open", "ok", "failed"}] /\ revision \in [OpIds -> Nat]
  /\ {spent, stale, dropped} \subseteq SUBSET OpIds /\ told \in [OpIds -> Nat] /\ unsure \subseteq Images
  /\ inbox \subseteq [op : DOMAIN ops, ok : BOOLEAN, rev : Nat]
  /\ lost \in 0 .. MaxLost /\ replays \in 0 .. MaxReplays
\* The type invariant, by the component whose variables it types.
LEMMA TypeParts == TypeOK <=> ViewTypeOK /\ EnrichmentTypeOK /\ RestTypeOK
  BY DEF TypeOK, RestTypeOK

\* Next and Previous.
LEMMA MoveKeeps == ASSUME IInv, NEW d \in {1, -1}, Move(d) PROVE IInv'
<1>1. /\ view' = Navigated(view, d, PendingImages(ops)) /\ UNCHANGED <<folder, generation, ops, tokens>>
      /\ UNCHANGED <<enrichment, service, inbox, notes>>
  BY DEF Move, Navigate
<1>2. Good(view)
  BY DEF IInv, TypeOK, ViewTypeOK, Good, View
<1>3. Good(view') /\ view'.images = view.images /\ view'.held \in {view.held, NoHold}
  BY <1>1, <1>2, NavigatedIs
<1>4. UNCHANGED <<folder, generation, ops, tokens, reader, interrupted, backlog, parents,
             cancelled, closing, accepted, present, row, revision, spent, stale, inbox, lost,
             replays, unsure, beside, told, dropped>>
  BY <1>1 DEF enrichment, service, notes
<1>5. ViewTypeOK'
  BY <1>3, <1>4 DEF IInv, TypeOK, ViewTypeOK, Good, View
<1>6. EnrichmentTypeOK'
  BY <1>4, TaggingTypeStays DEF IInv, TypeOK, enrichment
<1>7. TypeOK'
  BY <1>4, <1>5, <1>6 DEF IInv, TypeOK
<1>8. Requests' /\ Waiting' /\ Messages' /\ Journal' /\ Presence'
  BY <1>4, RequestsStay, WaitingStays, MessagesStay, JournalStays, PresenceStays DEF IInv
<1>9. Queueing' /\ Truth' /\ Holding'
  BY <1>3, <1>4, QueueingStays, TruthStays, HoldingStays DEF IInv
<1>10. Tokens' /\ Taggings'
  BY <1>4, TokensStay, TaggingsStay DEF IInv
<1> QED BY <1>7, <1>8, <1>9, <1>10 DEF IInv

\* A step of the tagging alone.
LEMMA TaggingStepKeeps ==
  ASSUME IInv, UNCHANGED <<window, service, inbox, notes, parents, cancelled>>,
         EnrichmentTypeOK', DOMAIN reader' = OpIds,
         \A o \in OpIds : reader'[o] # "none" \/ o \in ToSet(backlog') => reader[o] # "none" \/ o \in ToSet(backlog)
  PROVE  IInv'
<1>1. UNCHANGED <<view, folder, generation, ops, tokens, parents,
             cancelled, accepted, present, row, revision, spent, stale, inbox, lost,
             replays, unsure, beside, told, dropped>>
  BY DEF window, service, notes
<1>2. ViewTypeOK'
  BY ViewTypeStays DEF IInv, TypeOK
<1>3. TypeOK'
  BY <1>1, <1>2 DEF IInv, TypeOK
<1>4. Requests' /\ Waiting' /\ Messages' /\ Journal' /\ Presence'
  BY <1>1, RequestsStay, WaitingStays, MessagesStay, JournalStays, PresenceStays DEF IInv
<1>5. Queueing' /\ Truth' /\ Holding'
  BY <1>1, QueueingStays, TruthStays, HoldingStays DEF IInv
<1>6. Tokens'
  BY <1>1, TokensStay DEF IInv
<1>7. Taggings'
  BY <1>1 DEF IInv, Taggings, TaggingStops, Known
<1> QED BY <1>3, <1>4, <1>5, <1>6, <1>7 DEF IInv

\* The window closes.
LEMMA CloseKeeps == ASSUME IInv, Close PROVE IInv'
<1>1. /\ closing' = TRUE /\ backlog' = <<>> /\ interrupted' = Active /\ UNCHANGED <<reader, parents, cancelled>>
      /\ UNCHANGED <<window, service, inbox, notes>>
  BY DEF Close, Shutdown
<1>2. EnrichmentTypeOK
  BY DEF IInv, TypeOK
<1>3. ToSet(<<>>) = {} /\ Len(<<>>) = 0 /\ <<>> \in Seq(DOMAIN reader)
  BY EmptySeq DEF ToSet
<1>4. EnrichmentTypeOK'
  <2>1. interrupted' \subseteq Active'
    BY <1>1 DEF Active
  <2>2. Len(backlog') <= MaxBacklog
    BY <1>1, <1>3, EnrichmentAssumption
  <2> QED BY <1>1, <1>2, <1>3, <2>1, <2>2 DEF EnrichmentTypeOK
<1>5. DOMAIN reader' = OpIds
  BY <1>1 DEF IInv, Taggings
<1>6. \A o \in OpIds : reader'[o] # "none" \/ o \in ToSet(backlog') => reader[o] # "none" \/ o \in ToSet(backlog)
  BY <1>1, <1>3
<1>7. UNCHANGED <<window, service, inbox, notes, parents, cancelled>>
  BY <1>1
<1> QED BY <1>4, <1>5, <1>6, <1>7, TaggingStepKeeps

\* A reader starts the inference, or its answer came: steps of the tagging alone.
LEMMA InferKeeps == ASSUME IInv, NEW o \in OpIds, Infer(o) PROVE IInv'
<1>1. /\ reader[o] = "reading" /\ reader' = [reader EXCEPT ![o] = IF o \in interrupted THEN "ending" ELSE "posted"]
      /\ UNCHANGED <<interrupted, backlog, parents, cancelled, closing>>
      /\ UNCHANGED <<window, service, inbox, notes>>
  BY DEF Infer, Read
<1>2. EnrichmentTypeOK /\ DOMAIN reader = OpIds
  BY DEF IInv, TypeOK, Taggings
<1>3. DOMAIN reader' = OpIds /\ \A p \in OpIds : (reader'[p] # "none" <=> reader[p] # "none")
      /\ reader'[p] \in {"none", "reading", "posted", "ending"}
  BY <1>1, <1>2 DEF EnrichmentTypeOK
<1>4. Active' = Active
  BY <1>2, <1>3 DEF Active
<1>5. EnrichmentTypeOK'
  BY <1>1, <1>2, <1>3, <1>4 DEF EnrichmentTypeOK
<1>6. UNCHANGED <<window, service, inbox, notes, parents, cancelled>>
  BY <1>1
<1> QED BY <1>1, <1>3, <1>5, <1>6, TaggingStepKeeps

\* A reader is gone and the backlog goes on.
LEMMA FinishReaderKeeps == ASSUME IInv, NEW o \in OpIds, FinishReader(o) PROVE IInv'
<1>1. /\ reader[o] = "ending"
      /\ reader' = [p \in DOMAIN reader |-> IF p = o THEN "none"
                                            ELSE IF p \in NextTagging THEN "reading" ELSE reader[p]]
      /\ backlog' = IF NextTagging = {} THEN backlog ELSE Tail(backlog)
      /\ interrupted' = interrupted \ {o}
      /\ UNCHANGED <<parents, cancelled, closing>>
      /\ UNCHANGED <<window, service, inbox, notes>>
  BY DEF FinishReader, ReaderFinished
<1>2. EnrichmentTypeOK /\ DOMAIN reader = OpIds /\ backlog \in Seq(OpIds)
  BY DEF IInv, TypeOK, Taggings, EnrichmentTypeOK
<1>3. NextTagging \subseteq ToSet(backlog) /\ backlog' \in Seq(OpIds) /\ ToSet(backlog') \subseteq ToSet(backlog)
      /\ Len(backlog') <= MaxBacklog
  <2>1. CASE backlog = <<>> \/ closing
    <3>1. NextTagging = {}
      BY <2>1 DEF NextTagging
    <3> QED BY <1>1, <1>2, <3>1 DEF EnrichmentTypeOK
  <2>2. CASE ~(backlog = <<>> \/ closing)
    <3>1. NextTagging = {Head(backlog)}
      BY <2>2 DEF NextTagging
    <3>2. backlog' = Tail(backlog)
      BY <1>1, <3>1
    <3>3. /\ Tail(backlog) \in Seq(OpIds) /\ Len(Tail(backlog)) = Len(backlog) - 1
          /\ ToSet(Tail(backlog)) \subseteq ToSet(backlog) /\ Head(backlog) \in ToSet(backlog)
      BY <1>2, <2>2, TailSet
    <3>4. Len(backlog) \in Nat /\ Len(backlog) <= MaxBacklog /\ MaxBacklog \in Nat
      BY <1>2, LenProperties, EnrichmentAssumption DEF EnrichmentTypeOK
    <3> QED BY <3>1, <3>2, <3>3, <3>4
  <2> QED BY <2>1, <2>2
<1>4. DOMAIN reader' = OpIds /\ \A p \in OpIds :
        /\ reader'[p] \in {"none", "reading", "posted", "ending"}
        /\ reader'[p] # "none" => reader[p] # "none" \/ p \in ToSet(backlog)
        /\ p # o /\ reader[p] # "none" => reader'[p] # "none"
  BY <1>1, <1>2, <1>3 DEF EnrichmentTypeOK
<1>5. interrupted' \subseteq Active'
  BY <1>1, <1>2, <1>4 DEF EnrichmentTypeOK, Active
<1>6. EnrichmentTypeOK'
  BY <1>1, <1>2, <1>3, <1>4, <1>5 DEF EnrichmentTypeOK
<1>7. \A p \in OpIds : reader'[p] # "none" \/ p \in ToSet(backlog') => reader[p] # "none" \/ p \in ToSet(backlog)
  BY <1>3, <1>4
<1>8. UNCHANGED <<window, service, inbox, notes, parents, cancelled>>
  BY <1>1
<1> QED BY <1>4, <1>6, <1>7, <1>8, TaggingStepKeeps

\* A folder listing is a view of its images.
LEMMA ListedIs ==
  ASSUME NEW S, S \subseteq Images
  PROVE  LET v == Listed(S) IN
         Good(v) /\ ToSet(v.images) = S /\ Distinct(v.images) /\ v.held = NoHold
<1>1. S \subseteq Nat /\ IsFiniteSet(S)
  BY ViewAssumption, FS_Subset
<1> DEFINE a == Ascending(S)
<1>2. a \in Seq(S) /\ ToSet(a) = S /\ Distinct(a) /\ Len(a) = Cardinality(S)
  BY <1>1, AscendingIs
<1> HIDE DEF a
<1>3. a \in Seq(Images) /\ Len(a) \in Nat
  BY <1>2, SeqMonotonic, LenProperties
<1>4. S # {} => Len(a) # 0
  BY <1>1, <1>2, FS_EmptySet
<1> DEFINE c == IF S = {} THEN -1 ELSE 0
<1>5. c \in Int /\ c <= Len(a)
  BY <1>3, <1>4
<1> HIDE DEF c
<1>6. Listed(S) = [images |-> a, current |-> c, complete |-> FALSE, held |-> NoHold]
  BY DEF Listed, a, c
<1> QED BY <1>2, <1>3, <1>5, <1>6 DEF Good, View

\* load_images: what is out becomes unsure, what is away is not listed.
LEMMA ReloadKeeps == ASSUME IInv, NEW f \in Folders, Reload(f) PROVE IInv'
<1> DEFINE S == {i \in present : Library[i] = f}
<1>1. /\ generation < MaxLoads /\ generation' = generation + 1 /\ folder' = f /\ view' = Listed(S)
      /\ unsure' = {ops[o].image : o \in {p \in DOMAIN ops : ops[p].state = "pending"}}
      /\ UNCHANGED <<ops, tokens, enrichment, service, inbox, beside, told, dropped>>
  BY DEF Reload, LoadImages
<1>2. UNCHANGED <<ops, tokens, reader, interrupted, backlog, parents, cancelled, closing, accepted,
             present, row, revision, spent, stale, inbox, lost, replays, beside, told, dropped>>
  BY <1>1 DEF enrichment, service
<1>3. TypeOK /\ S \subseteq Images /\ generation \in Nat /\ MaxLoads \in Nat
  <2>1. TypeOK /\ present \subseteq Images /\ generation \in 1 .. MaxLoads
    BY DEF IInv, TypeOK, ViewTypeOK
  <2>2. MaxLoads \in Nat
    BY ViewAssumption
  <2> QED BY <2>1, <2>2
<1>4. Good(view') /\ Queue' = S /\ Distinct(view'.images) /\ view'.held = NoHold
  BY <1>1, <1>3, ListedIs DEF Queue
<1>5. \A o \in Known : ops[o].image \in Images /\ ops[o].gen \in Int
  BY <1>3, OpsFacts
<1>6. ViewTypeOK'
  BY <1>1, <1>2, <1>3, <1>4 DEF TypeOK, ViewTypeOK, Good, View
<1>7. EnrichmentTypeOK'
  BY <1>2, <1>3, TaggingTypeStays DEF TypeOK, enrichment
<1>8. unsure' \subseteq Images
  BY <1>1, <1>5 DEF Known
<1>9. TypeOK'
  BY <1>2, <1>3, <1>6, <1>7, <1>8 DEF TypeOK
<1>10. Requests'
  <2> SUFFICES ASSUME NEW o \in Known PROVE RequestOf(o)'
    BY <1>2 DEF Requests, Known
  <2>1. RequestOf(o)
    BY DEF IInv, Requests
  <2>2. ops[o].gen <= generation'
    BY <1>1, <1>3, <1>5, <2>1 DEF RequestOf
  <2> QED BY <1>2, <2>1, <2>2 DEF RequestOf, Refers, Done, Known
<1>11. Waiting' /\ Messages' /\ Journal' /\ Presence'
  BY <1>2, WaitingStays, MessagesStay, JournalStays, PresenceStays DEF IInv
<1>12. Queueing'
  <2>1. \A i \in Queue' : Library[i] = folder'
    BY <1>1, <1>4
  <2>2. \A o \in Known : ops[o].gen # generation'
    <3>1. \A o \in Known : ops[o].gen <= generation
      BY DEF IInv, Requests, RequestOf
    <3> QED BY <1>1, <1>3, <1>5, <3>1
  <2>3. \A o, p \in Known : Pending(o) /\ Pending(p) /\ ops[o].action \in Sorts /\ ops[p].action \in Sorts
                         /\ ops[o].image = ops[p].image => o = p
    BY DEF IInv, Queueing
  <2> QED BY <1>2, <1>4, <2>1, <2>2, <2>3 DEF Queueing, Known, Pending
<1>13. Truth'
  <2> SUFFICES ASSUME NEW i \in Images, Viewed(i)' PROVE TruthOf(i)'
    BY DEF Truth
  <2>1. \A o \in Known' : Pending(o)' => ops'[o].image # i
    BY <1>1, <1>2 DEF Viewed, Known, Pending
  <2>2. \A o \in Known' : ~Moving(o, i)' /\ ~Returning(o, i)'
    BY <2>1 DEF Moving, Returning, Landed
  <2>3. i \in Queue' <=> i \in present'
    BY <1>1, <1>2, <1>4 DEF Viewed
  <2> QED BY <2>1, <2>2, <2>3 DEF TruthOf
<1>14. Holding'
  BY <1>4 DEF Holding
<1>15. Tokens' /\ Taggings'
  BY <1>2, TokensStay, TaggingsStay DEF IInv
<1> QED BY <1>9, <1>10, <1>11, <1>12, <1>13, <1>14, <1>15 DEF IInv

\* A message that only says again what is known of a settled operation.
LEMMA ReplayKeeps == ASSUME IInv, Replay PROVE IInv'
<1>1. /\ UNCHANGED <<window, enrichment, accepted, present, row, revision, spent, stale, lost, notes>>
      /\ \E o \in DOMAIN ops :
           /\ row[o] # "open"
           /\ inbox' = inbox \cup {Message(o, row[o] = "ok",
                          IF ops[o].action \notin Undos /\ row[o] = "ok" /\ Live(TokenOf(o))
                          THEN revision[TokenOf(o)] ELSE 0)}
  BY DEF Replay
<1>2. UNCHANGED <<view, folder, generation, ops, tokens, reader, interrupted, backlog, parents,
             cancelled, closing, accepted, present, row, revision, spent, stale, lost,
             unsure, beside, told, dropped>>
  BY <1>1 DEF window, enrichment, notes
<1>3. PICK o \in Known :
           /\ row[o] # "open"
           /\ inbox' = inbox \cup {Message(o, row[o] = "ok",
                          IF ops[o].action \notin Undos /\ row[o] = "ok" /\ Live(TokenOf(o))
                          THEN revision[TokenOf(o)] ELSE 0)}
  BY <1>1 DEF Known
<1> DEFINE r == IF ops[o].action \notin Undos /\ row[o] = "ok" /\ Live(TokenOf(o))
                THEN revision[TokenOf(o)] ELSE 0
<1>4. PICK m : m = Message(o, row[o] = "ok", r)
  OBVIOUS
<1>5. inbox' = inbox \cup {m} /\ m.op = o /\ m.ok = (row[o] = "ok") /\ m.rev = r
  BY <1>3, <1>4 DEF Message
<1>6. /\ TypeOK /\ o \in OpIds /\ ops[o].action \in Sorts \cup Undos \cup {"metadata"}
      /\ row \in [OpIds -> {"open", "ok", "failed"}] /\ revision \in [OpIds -> Nat]
      /\ Known \subseteq OpIds /\ RequestOf(o) /\ JournalOf(o)
      /\ \A p \in ToSet(accepted) : p \in Known
      /\ \A p \in inbox : p.op \in Known
  BY OpsFacts DEF IInv, TypeOK, Requests, Journal
<1>7. TokenOf(o) \in OpIds
  BY <1>6 DEF TokenOf, RequestOf, Refers
<1>8. r \in Nat /\ (r > 0 => ops[o].action \notin Undos /\ row[o] = "ok" /\ r = revision[TokenOf(o)])
  BY <1>6, <1>7
<1>9. m \in [op : DOMAIN ops, ok : BOOLEAN, rev : Nat]
  <2> HIDE DEF r
  <2> QED BY <1>4, <1>8 DEF Message, Known
<1>10. TypeOK'
  <2>1. inbox' \subseteq [op : DOMAIN ops, ok : BOOLEAN, rev : Nat]
    BY <1>5, <1>6, <1>9 DEF TypeOK
  <2>2. ViewTypeOK'
    BY <1>1, <1>6, ViewTypeStays DEF TypeOK
  <2>3. EnrichmentTypeOK'
    BY <1>1, <1>6, TaggingTypeStays DEF TypeOK
  <2>4. lost' \in 0 .. MaxLost /\ replays' \in 0 .. MaxReplays
    <3>1. lost \in 0 .. MaxLost /\ replays \in 0 .. MaxReplays
      BY <1>6 DEF TypeOK
    <3>2. MaxReplays \in Nat /\ replays < MaxReplays /\ replays' = replays + 1
      BY SessionAssumption DEF Replay
    <3> QED BY <1>2, <3>1, <3>2
  <2> QED BY <1>2, <1>6, <2>1, <2>2, <2>3, <2>4 DEF TypeOK
\* If o is still pending, its message is on its way already.
<1>11. Pending(o) => \E p \in inbox : p.op = o /\ (p.ok <=> row[o] = "ok")
  <2>1. o \notin ToSet(accepted)
    BY <1>3 DEF IInv, Waiting
  <2>2. Pending(o) => \E p \in inbox : p.op = o
    BY <2>1 DEF IInv, Waiting
  <2>3. \A p \in inbox : p.op = o => (p.ok <=> row[o] = "ok")
    BY <1>3 DEF IInv, Messages, MessageOf
  <2> QED BY <2>2, <2>3
<1>12. \A p \in Known : Landed(p)' <=> Landed(p)
  <2> SUFFICES ASSUME NEW p \in Known PROVE Landed(p)' <=> Landed(p)
    OBVIOUS
  <2>1. Pending(p)' <=> Pending(p)
    BY <1>2 DEF Pending
  <2>2. CASE p # o
    BY <1>5, <2>1, <2>2 DEF Landed
  <2>3. CASE p = o
    <3>1. m.ok <=> row[o] = "ok"
      BY <1>5
    <3>2. Pending(o) => ((\E q \in inbox' : q.op = o /\ q.ok) <=> (\E q \in inbox : q.op = o /\ q.ok))
      BY <1>5, <1>11, <3>1
    <3> QED BY <2>1, <2>3, <3>2 DEF Landed
  <2> QED BY <2>2, <2>3
<1>13. Waiting'
  <2>1. \A p \in ToSet(accepted) : p # o
    BY <1>3 DEF IInv, Waiting
  <2> QED BY <1>2, <1>5, <2>1 DEF IInv, Waiting, Known, Pending
<1>14. Messages'
  <2>1. MessageOf(m)'
    <3>1. m.rev > 0 => m.ok /\ row[m.op] = "ok" /\ ops[m.op].action \notin Undos /\ revision[TokenOf(o)] > 0
      <4> HIDE DEF r
      <4> QED BY <1>5, <1>8
    <3>2. row[m.op] # "open" => (m.ok <=> row[m.op] = "ok")
      BY <1>5
    <3>3. row[m.op] = "ok" /\ Pending(m.op) /\ ops[m.op].action \in Sorts => m.rev = revision[m.op]
      <4> SUFFICES ASSUME row[o] = "ok", Pending(o), ops[o].action \in Sorts PROVE r = revision[o]
        BY <1>5
      <4>1. o \notin spent /\ TokenOf(o) = o /\ ops[o].action \notin Undos
        BY <1>6 DEF JournalOf, Done, Pending, TokenOf, Sorts, Undos
      <4>2. revision[o] \in Nat
        BY <1>6
      <4> QED BY <4>1, <4>2 DEF Live
    <3>4. m.ok /\ ops[m.op].action \in Undos /\ lost = 0 => ops[m.op].token \in spent
      BY <1>5, <1>6 DEF JournalOf
    <3> QED BY <1>2, <1>5, <3>1, <3>2, <3>3, <3>4 DEF MessageOf, TokenOf, Pending
  <2>2. \A p \in inbox : MessageOf(p)'
    BY <1>2 DEF IInv, Messages, MessageOf, TokenOf, Pending
  <2>3. \A p, q \in inbox' : p.op = q.op /\ row[p.op] = "open" => p = q
    BY <1>3, <1>5 DEF IInv, Messages
  <2> QED BY <1>2, <1>5, <2>1, <2>2, <2>3 DEF Messages
<1>15. Presence'
  BY <1>2, <1>12 DEF IInv, Presence, Away, Known
<1>16. Truth'
  <2> SUFFICES ASSUME NEW i \in Images, Viewed(i)' PROVE TruthOf(i)'
    BY DEF Truth
  <2>1. TruthOf(i)
    BY <1>2 DEF IInv, Truth, Viewed
  <2>2. \A p \in Known : (Moving(p, i)' <=> Moving(p, i)) /\ (Returning(p, i)' <=> Returning(p, i))
    BY <1>2, <1>12 DEF Moving, Returning
  <2> QED BY <1>2, <2>1, <2>2 DEF TruthOf, Known, Queue, Pending
<1>17. Requests' /\ Journal' /\ Queueing' /\ Holding' /\ Tokens' /\ Taggings'
  BY <1>2, RequestsStay, JournalStays, QueueingStays, HoldingStays, TokensStay, TaggingsStay DEF IInv
<1> QED BY <1>10, <1>13, <1>14, <1>15, <1>16, <1>17 DEF IInv

\* What a new request leaves as it was, of the parts that only some requests disturb.
LEMMA AppendedRest ==
  ASSUME IInv, Room, NEW req, Proper(req), ops' = Append(ops, req), accepted' = Append(accepted, NextOp),
         UNCHANGED <<generation, present, row, revision, spent, stale, inbox, lost, replays, unsure, told, dropped>>
  PROVE  /\ RestTypeOK' /\ ops' \in Seq(Op) /\ Len(ops') <= MaxOps
         /\ Holding /\ UNCHANGED <<view, beside>> => Holding'
         /\ req.action \notin Undos /\ UNCHANGED tokens => Tokens'
<1>0. PICK n : n = NextOp
  OBVIOUS
<1>1. TypeOK /\ req \in Op
  BY DEF IInv, Proper
<1>2. /\ Known' = Known \cup {n} /\ n \notin Known /\ n \in OpIds /\ \A o \in Known : o < n /\ o \in Int
      /\ ops'[n] = req /\ (\A o \in Known : ops'[o] = ops[o]) /\ ops' \in Seq(Op) /\ Len(ops') <= MaxOps
  BY <1>0, <1>1, Grown
<1>3. accepted' \in Seq(DOMAIN ops')
  <2>1. accepted \in Seq(DOMAIN ops') /\ n \in DOMAIN ops'
    BY <1>1, <1>2, SeqMonotonic DEF TypeOK, Known
  <2> QED BY <1>0, <2>1, AppendSet
<1>4. inbox' \subseteq [op : DOMAIN ops', ok : BOOLEAN, rev : Nat]
  BY <1>1, <1>2 DEF TypeOK, Known
<1>5. RestTypeOK'
  BY <1>1, <1>3, <1>4 DEF TypeOK, RestTypeOK
<1>6. ASSUME Holding, UNCHANGED <<view, beside>> PROVE Holding'
  BY <1>2, <1>6 DEF Holding, Known, Pending, Queue
<1>7. ASSUME req.action \notin Undos, UNCHANGED tokens PROVE Tokens'
  <2>1. \A o \in Known : Pending(o)' <=> Pending(o)
    BY <1>2 DEF Pending
  <2>2. {o \in Known' : Pending(o)' /\ ops'[o].action \in Undos} = {o \in Known : Pending(o) /\ ops[o].action \in Undos}
    BY <1>2, <1>7, <2>1
  <2> DEFINE U == {o \in Known : Pending(o) /\ ops[o].action \in Undos}
  <2>3. {ops'[u].token : u \in U} = {ops[u].token : u \in U}
    BY <1>2
  <2>4. tokens'.inflight = {ops'[u].token : u \in {o \in Known' : Pending(o)' /\ ops'[o].action \in Undos}}
    <3>1. tokens.inflight = {ops[u].token : u \in U}
      BY DEF IInv, Tokens
    <3> QED BY <1>7, <2>2, <2>3, <3>1
  <2>5. ASSUME NEW u \in Known', NEW w \in Known', Pending(u)', Pending(w)', ops'[u].action \in Undos,
               ops'[w].action \in Undos, ops'[u].token = ops'[w].token
        PROVE  u = w
    <3>1. u \in Known /\ w \in Known /\ ops'[u] = ops[u] /\ ops'[w] = ops[w] /\ Pending(u) /\ Pending(w)
      BY <1>2, <1>7, <2>1, <2>5
    <3> QED BY <2>5, <3>1 DEF IInv, Tokens
  <2>6. /\ told' = tokens'.latest /\ OncePerToken(tokens'.history) /\ Newest(tokens'.history, told')
        /\ \A t \in OpIds : told'[t] > 0 <=> t \in Ids' \cup tokens'.inflight \cup tokens'.consumed \cup dropped'
        /\ \A t \in OpIds :
             /\ t \in Ids' => t \notin tokens'.inflight \cup tokens'.consumed \cup dropped'
             /\ t \in tokens'.inflight => t \notin tokens'.consumed \cup dropped'
             /\ t \in tokens'.consumed => t \notin dropped'
        /\ lost' = 0 => tokens'.consumed \subseteq spent'
    BY <1>7 DEF IInv, Tokens, Ids, HistoryIds
  <2> HIDE DEF U
  <2> QED BY <2>4, <2>5, <2>6 DEF Tokens
<1> QED BY <1>2, <1>5, <1>6, <1>7

\* The record of a new request.
LEMMA RequestIs ==
  ASSUME TypeOK, NEW a \in Sorts \cup Undos \cup {"metadata"}, NEW i \in Images, NEW k \in Int,
         NEW t \in 0 .. MaxOps, NEW r \in Nat
  PROVE  LET q == Request(a, i, k, t, r) IN
         /\ q \in Op /\ q.action = a /\ q.image = i /\ q.index = k /\ q.gen = generation
         /\ q.state = "pending" /\ q.token = t /\ q.rev = r
<1>1. generation \in Nat
  BY DEF TypeOK, ViewTypeOK
<1> QED BY <1>1 DEF Request, Op

\* trigger_file_action: the image is in the queue and no other sort is out for it.
LEMMA SortKeeps == ASSUME IInv, NEW a \in Actions, NEW advance \in BOOLEAN, Sort(a, advance) PROVE IInv'
<1> DEFINE i == At(view.images, view.current)
           holds == a = "move" /\ ~advance
           hold == [op |-> NextOp, image |-> i, index |-> view.current, completed |-> FALSE]
           req  == Request(a, i, view.current, 0, 0)
           u    == IF holds THEN [view EXCEPT !.held = hold] ELSE view
<1>1. /\ Room /\ view.held = NoHold /\ view.current \in Positions(view.images) /\ FreeToSort(i)
      /\ ops' = Append(ops, req) /\ accepted' = Append(accepted, NextOp)
      /\ view' = IF a = "copy"
                 THEN IF advance THEN Navigated(view, 1, PendingImages(ops)) ELSE view
                 ELSE ShowImage(u, PendingImages(ops'))
      /\ beside' = IF view'.held = NoHold THEN Nobody
                   ELSE [left  |-> {At(view.images, k) : k \in 0 .. view.current - 1},
                         right |-> {At(view.images, k) : k \in view.current + 1 .. Len(view.images) - 1}]
      /\ UNCHANGED <<folder, generation, tokens, enrichment, present, row, revision, spent, stale, inbox, lost,
                     replays, unsure, told, dropped>>
  BY DEF Sort, TriggerFileAction, Submitted
<1>2. UNCHANGED <<folder, generation, tokens, reader, interrupted, backlog, parents, cancelled, closing, present,
                  row, revision, spent, stale, inbox, lost, replays, unsure, told, dropped>>
  BY <1>1 DEF enrichment
<1>3. a \in Sorts /\ a \notin Undos /\ a # "metadata"
  BY SessionAssumption DEF Sorts, Undos
<1>4. /\ TypeOK /\ Good(view) /\ view.images \in Seq(Images) /\ view.current \in Int /\ Distinct(view.images)
  BY DEF IInv, TypeOK, ViewTypeOK, Good, View, Queueing
<1>5. DOMAIN view.images = 1 .. Len(view.images) /\ Len(view.images) \in Nat
  BY <1>4, LenProperties
<1>6. i \in Images /\ i \in Queue
  <2>1. view.current + 1 \in DOMAIN view.images
    BY <1>1, <1>4, <1>5 DEF Positions
  <2>2. view.images \in [1 .. Len(view.images) -> Images]
    BY <1>4, LenProperties
  <2> QED BY <1>5, <2>1, <2>2 DEF At, Queue, ToSet
<1>7. /\ req \in Op /\ req.action = a /\ req.image = i /\ req.gen = generation
      /\ req.state = "pending"
  <2>1. 0 \in 0 .. MaxOps /\ a \in Sorts \cup Undos \cup {"metadata"}
    BY <1>3, ViewAssumption
  <2> HIDE DEF i
  <2> QED BY <1>4, <1>6, <2>1, RequestIs
<1> HIDE DEF req
<1>8. Proper(req)
  BY <1>1, <1>3, <1>6, <1>7 DEF Proper, FreeToSort, Known, Pending, Sorts
<1>9. /\ Known' = Known \cup {NextOp} /\ NextOp \notin Known /\ NextOp \in OpIds
      /\ ops'[NextOp] = req /\ \A o \in Known : ops'[o] = ops[o]
  BY <1>1, <1>4, <1>7, Grown
<1>10. hold \in Hold /\ hold # NoHold
  <2>1. NextOp # 0
    BY <1>9 DEF OpIds
  <2> HIDE DEF i
  <2> QED BY <1>4, <1>6, <1>9, <2>1 DEF Hold, NoHold
<1>11. Good(view') /\ view'.images = view.images
       /\ view'.held = IF holds THEN hold ELSE NoHold
  <2>1. CASE a = "copy"
    <3>1. Good(view') /\ view'.images = view.images /\ view'.held \in {view.held, NoHold}
      BY <1>1, <1>4, <2>1, NavigatedIs
    <3> QED BY <1>1, <2>1, <3>1
  <2>2. CASE a # "copy"
    <3>1. Good(u) /\ u.images = view.images /\ u.held = IF holds THEN hold ELSE NoHold
      <4> HIDE DEF hold
      <4>1. CASE holds
        BY <1>4, <1>10, <4>1 DEF Good, View
      <4>2. CASE ~holds
        BY <1>1, <1>4, <4>2
      <4> QED BY <4>1, <4>2
    <3>2. view' = ShowImage(u, PendingImages(ops'))
      BY <1>1, <2>2
    <3> HIDE DEF u, hold, holds
    <3>3. Good(view') /\ view'.images = u.images /\ view'.held = u.held
      BY <3>1, <3>2, ShowImageIs
    <3> QED BY <3>1, <3>3
  <2> QED BY <2>1, <2>2
<1>12. Requests' /\ Waiting' /\ Messages' /\ Journal' /\ Presence' /\ Queueing' /\ Truth'
  BY <1>1, <1>2, <1>8, <1>11, Appended
<1>13. RestTypeOK' /\ ops' \in Seq(Op) /\ Len(ops') <= MaxOps /\ Tokens'
  <2>1. req.action \notin Undos
    BY <1>3, <1>7
  <2> QED BY <1>1, <1>2, <1>8, <2>1, AppendedRest
<1>14. TypeOK'
  <2>1. ViewTypeOK'
    BY <1>2, <1>4, <1>11, <1>13 DEF TypeOK, ViewTypeOK, Good, View
  <2>2. EnrichmentTypeOK'
    BY <1>1, <1>4, TaggingTypeStays DEF TypeOK
  <2> QED BY <1>13, <2>1, <2>2 DEF TypeOK, RestTypeOK
<1>15. Holding'
  <2>1. CASE ~holds
    BY <1>11, <2>1 DEF Holding
  <2>2. CASE holds
    <3>1. view'.held = hold
      BY <1>11, <2>2
    <3>2. PICK n : n = NextOp
      OBVIOUS
    <3>3. /\ view'.held.op = n /\ view'.held.image = i /\ view'.held.index = view.current
          /\ view'.held.completed = FALSE
      BY <3>1, <3>2
    <3>4. /\ beside'.left  = {At(view.images, k) : k \in 0 .. view.current - 1}
          /\ beside'.right = {At(view.images, k) : k \in view.current + 1 .. Len(view.images) - 1}
      BY <1>1, <1>10, <3>1
    <3>5. \A j, k \in Positions(view.images) : At(view.images, j) = At(view.images, k) => j = k
      <4>1. \A j \in Positions(view.images) : j \in Int /\ j + 1 \in DOMAIN view.images
        BY <1>5 DEF Positions
      <4> QED BY <1>4, <4>1 DEF Distinct, At
    <3>6. ASSUME NEW k \in Positions(view.images)
          PROVE  /\ At(view.images, k) \in beside'.left => k < view.current
                 /\ At(view.images, k) \in beside'.right => k >= view.current
      <4>1. ASSUME At(view.images, k) \in beside'.left PROVE k < view.current
        <5>1. PICK j \in 0 .. view.current - 1 : At(view.images, k) = At(view.images, j)
          BY <3>4, <4>1
        <5>2. j \in Positions(view.images)
          BY <1>1, <1>4, <1>5 DEF Positions
        <5> QED BY <1>4, <3>5, <5>1, <5>2
      <4>2. ASSUME At(view.images, k) \in beside'.right PROVE k >= view.current
        <5>1. PICK j \in view.current + 1 .. Len(view.images) - 1 : At(view.images, k) = At(view.images, j)
          BY <3>4, <4>2
        <5>2. j \in Positions(view.images)
          BY <1>1, <1>4, <1>5 DEF Positions
        <5> QED BY <1>4, <3>5, <5>1, <5>2
      <4> QED BY <4>1, <4>2
    <3>7. n \in Known' /\ ops'[n].action = "move" /\ ops'[n].image = i /\ ops'[n].gen = generation' /\ Pending(n)'
      BY <1>2, <1>7, <1>9, <2>2, <3>2 DEF Pending
    <3> HIDE DEF hold, i
    <3> QED BY <1>1, <1>11, <3>3, <3>6, <3>7 DEF Holding, i
  <2> QED BY <2>1, <2>2
<1>16. Taggings'
  <2>1. \A o \in OpIds : reader[o] # "none" \/ o \in ToSet(backlog) =>
          o \in Known' /\ ops'[o].state = "finished" /\ ops'[o].action \in {"move", "copy"}
    BY <1>9 DEF IInv, Taggings
  <2>2. \A o \in Known' : ops'[o].action \in Undos \cup {"metadata"} =>
          o \in Known /\ ops'[o] = ops[o] /\ ops[o].token \in Known /\ ops'[ops[o].token] = ops[ops[o].token]
    BY <1>3, <1>7, <1>9 DEF IInv, Requests, RequestOf, Refers
  <2>3. \A w \in Known' : ops'[w].action \in Undos /\ ops'[ops'[w].token].state = "finished"
          /\ ops'[ops'[w].token].action # "trash" => ops'[w].token \in cancelled
    BY <2>2 DEF IInv, Taggings
  <2>4. TaggingStops'
    BY <2>2 DEF IInv, Taggings, TaggingStops, Known
  <2> QED BY <1>2, <2>1, <2>3, <2>4 DEF Taggings, IInv
<1> QED BY <1>12, <1>13, <1>14, <1>15, <1>16 DEF IInv

\* undo_last_action: the token leaves the history and its sort's tagging is cancelled.
LEMMA UndoKeeps == ASSUME IInv, Undo PROVE IInv'
<1> DEFINE h == tokens.history
           t == Last(h)
           i == ops[t.id].image
           mine == {o \in DOMAIN ops : ops[o].image = i /\ ops[o].action \in Sorts /\ ops[o].state # "earlier"}
           a == IF ops[t.id].action = "copy" THEN "undo_copy" ELSE "undo_move"
           k == IF mine = {} THEN 0 ELSE ops[Min(mine)].index
           req == Request(a, i, k, t.id, t.rev)
<1>1. /\ Room /\ h # <<>> /\ ops' = Append(ops, req) /\ accepted' = Append(accepted, NextOp)
      /\ tokens' = [tokens EXCEPT !.history = Without(tokens, t.id), !.inflight = @ \cup {t.id}]
      /\ AddUndo(ops'[NextOp].token)
      /\ UNCHANGED <<view, folder, generation, present, row, revision, spent, stale, inbox, lost, replays, notes>>
  BY DEF Undo, UndoLastAction, Submitted
<1>2. UNCHANGED <<view, folder, generation, present, row, revision, spent, stale, inbox, lost, replays,
                  unsure, beside, told, dropped>>
  BY <1>1 DEF notes
<1>3. TypeOK /\ HistoryOK(h) /\ TokensOK(tokens) /\ h \in Seq(Entry) /\ Tokens
      /\ tokens.inflight \subseteq OpIds /\ tokens.consumed \subseteq OpIds
  BY DEF IInv, TypeOK, ViewTypeOK, Tokens, TokensOK, HistoryOK, Entry
<1>4. t \in ToSet(h) /\ t \in Entry
  <2>1. Len(h) \in Nat /\ Len(h) # 0 /\ DOMAIN h = 1 .. Len(h) /\ h \in [1 .. Len(h) -> Entry]
    BY <1>1, <1>3, LenProperties, EmptySeq
  <2>2. Len(h) \in DOMAIN h /\ t = h[Len(h)]
    BY <2>1 DEF Last
  <2> QED BY <2>1, <2>2 DEF ToSet
<1>5. t.id \in OpIds /\ t.id \in Ids /\ t.rev \in Nat /\ t.rev > 0 /\ t.rev = told[t.id]
  BY <1>3, <1>4 DEF Entry, Ids, HistoryIds, Tokens, Newest
<1> HIDE DEF t
<1>6. /\ JournalOf(t.id) /\ told[t.id] > 0
      /\ t.id \in Known /\ ops[t.id].action \in Sorts /\ Done(t.id)
      /\ ops[t.id].state = "finished" /\ ops[t.id].action # "trash" => t.id \in parents
  <2>1. JournalOf(t.id) /\ told[t.id] > 0
    BY <1>5 DEF IInv, Journal
  <2> QED BY <2>1 DEF JournalOf
<1>7. k \in Int /\ i \in Images /\ t.id \in 0 .. MaxOps /\ a \in Undos
  <2>1. /\ Known \subseteq OpIds /\ OpIds \subseteq Nat
        /\ \A o \in Known : ops[o].image \in Images /\ ops[o].index \in Int
    BY <1>3, OpsFacts DEF OpIds
  <2>2. mine # {} => Min(mine) \in Known
    <3>1. mine \subseteq Known
      BY DEF Known
    <3> HIDE DEF mine
    <3>2. mine # {} => \E x \in mine : \A y \in mine : x <= y
      BY <2>1, <3>1, LeastNumber
    <3> QED BY <3>1, <3>2 DEF Min
  <2>3. t.id \in 0 .. MaxOps
    BY <1>5 DEF OpIds
  <2> HIDE DEF mine
  <2>4. k \in Int
    <3>1. CASE mine = {}
      BY <3>1
    <3>2. CASE mine # {}
      BY <2>1, <2>2, <3>2
    <3> QED BY <3>1, <3>2
  <2>5. i \in Images /\ a \in Undos
    BY <1>6, <2>1 DEF Undos
  <2> QED BY <2>3, <2>4, <2>5
<1> HIDE DEF k
<1>8. /\ req \in Op /\ req.action = a /\ req.image = i /\ req.gen = generation
      /\ req.state = "pending" /\ req.token = t.id /\ req.rev = t.rev
  <2> HIDE DEF a, i
  <2> QED BY <1>3, <1>5, <1>7, RequestIs
<1>9. a = "undo_copy" <=> ops[t.id].action = "copy"
  OBVIOUS
<1> HIDE DEF req, a
<1>10. Proper(req)
  <2>1. req.action \notin Sorts /\ req.action \notin Takes /\ req.action # "metadata"
    BY <1>7, <1>8 DEF Undos, Sorts, Takes
  <2>2. req.rev > 0 /\ req.rev <= told[req.token]
    BY <1>5, <1>8
  <2> QED BY <1>6, <1>8, <1>9, <2>1, <2>2 DEF Proper
<1>11. PICK n : n = NextOp
  OBVIOUS
<1>12. /\ Known' = Known \cup {n} /\ n \notin Known /\ n \in OpIds /\ \A o \in Known : o < n /\ o \in Int
       /\ ops'[n] = req /\ \A o \in Known : ops'[o] = ops[o]
  BY <1>1, <1>3, <1>8, <1>11, Grown
<1>13. /\ interrupted' = interrupted \cup ({t.id} \cap Active)
       /\ cancelled' = cancelled \cup ({t.id} \cap parents)
       /\ backlog' = IF t.id \in parents THEN Dropping(backlog, {t.id}) ELSE backlog
       /\ UNCHANGED <<reader, parents, closing>>
  BY <1>1, <1>8, <1>11, <1>12 DEF AddUndo, CancelTagging
<1>14. Requests' /\ Waiting' /\ Messages' /\ Journal' /\ Presence' /\ Queueing' /\ Truth'
  BY <1>1, <1>2, <1>10, <1>13, Appended
<1>15. RestTypeOK' /\ ops' \in Seq(Op) /\ Len(ops') <= MaxOps /\ Holding'
  <2>1. Holding
    BY DEF IInv
  <2> QED BY <1>1, <1>2, <1>10, <2>1, AppendedRest
<1> DEFINE w == Without(tokens, t.id)
<1>16. HistoryOK(w) /\ ToSet(w) \subseteq ToSet(h) /\ IdsOf(w) = IdsOf(h) \ {t.id}
  BY <1>3, WithoutIs
<1> HIDE DEF w
<1>17. tokens' = [tokens EXCEPT !.history = w, !.inflight = tokens.inflight \cup {t.id}]
  BY <1>1 DEF w
<1>18. /\ tokens' \in [history : Seq(Entry), latest : [OpIds -> Nat], inflight : SUBSET OpIds, consumed : SUBSET OpIds]
       /\ tokens'.history = w /\ tokens'.latest = tokens.latest /\ tokens'.consumed = tokens.consumed
       /\ tokens'.inflight = tokens.inflight \cup {t.id}
  BY <1>3, <1>5, <1>16, <1>17 DEF TokensOK, HistoryOK
<1>19. backlog' \in Seq(OpIds) /\ ToSet(backlog') \subseteq ToSet(backlog) /\ Len(backlog') <= MaxBacklog
  <2>1. backlog \in Seq(OpIds) /\ Len(backlog) <= MaxBacklog /\ MaxBacklog \in Nat /\ Len(backlog) \in Nat
    BY <1>3, LenProperties, EnrichmentAssumption DEF TypeOK, EnrichmentTypeOK, IInv, Taggings
  <2> DEFINE b == Dropping(backlog, {t.id})
  <2>2. b \in Seq(OpIds) /\ Selects(backlog, {t.id}, Len(backlog), b)
    BY <2>1, DroppingIs
  <2> HIDE DEF b
  <2>3. ToSet(b) \subseteq ToSet(backlog) /\ Len(b) <= Len(backlog) /\ Len(b) \in Nat
    <3>1. DOMAIN b = 1 .. Len(b) /\ DOMAIN backlog = 1 .. Len(backlog) /\ Len(b) \in Nat
      BY <2>1, <2>2, LenProperties
    <3> QED BY <2>2, <3>1 DEF Selects, ToSet
  <2>4. backlog' = b \/ backlog' = backlog
    BY <1>13 DEF b
  <2> QED BY <2>1, <2>2, <2>3, <2>4
<1>20. TypeOK'
  <2>1. ViewTypeOK'
    BY <1>2, <1>3, <1>15, <1>16, <1>18 DEF TypeOK, ViewTypeOK, HistoryOK, Entry
  <2>2. EnrichmentTypeOK'
    BY <1>3, <1>13, <1>19 DEF TypeOK, EnrichmentTypeOK, Active, IInv, Taggings
  <2> QED BY <1>15, <2>1, <2>2 DEF TypeOK, RestTypeOK
<1>21. Tokens'
  <2>1. told' = tokens'.latest /\ OncePerToken(tokens'.history) /\ Newest(tokens'.history, told')
    BY <1>2, <1>3, <1>16, <1>18 DEF Tokens, HistoryOK, Newest
  <2>2. Ids' = Ids \ {t.id}
    BY <1>16, <1>18 DEF Ids, HistoryIds, IdsOf
  <2>3. t.id \notin tokens.inflight /\ t.id \notin tokens.consumed \cup dropped
    BY <1>3, <1>5 DEF Tokens
  <2>4. \A s \in OpIds : told'[s] > 0 <=> s \in Ids' \cup tokens'.inflight \cup tokens'.consumed \cup dropped'
    BY <1>2, <1>3, <1>5, <1>18, <2>2 DEF Tokens
  <2>5. \A s \in OpIds :
             /\ s \in Ids' => s \notin tokens'.inflight \cup tokens'.consumed \cup dropped'
             /\ s \in tokens'.inflight => s \notin tokens'.consumed \cup dropped'
             /\ s \in tokens'.consumed => s \notin dropped'
    BY <1>2, <1>3, <1>18, <2>2, <2>3 DEF Tokens
  <2>6. \A o \in Known : Pending(o)' <=> Pending(o)
    BY <1>12 DEF Pending
  <2>7. Pending(n)' /\ ops'[n].action \in Undos /\ ops'[n].token = t.id
    BY <1>7, <1>8, <1>12 DEF Pending
  <2> DEFINE U == {o \in Known : Pending(o) /\ ops[o].action \in Undos}
  <2>8. {o \in Known' : Pending(o)' /\ ops'[o].action \in Undos} = U \cup {n}
    BY <1>12, <2>6, <2>7
  <2>9. {ops'[u].token : u \in U \cup {n}} = {ops[u].token : u \in U} \cup {t.id}
    BY <1>12, <2>7
  <2>10. tokens.inflight = {ops[u].token : u \in U}
    BY <1>3 DEF Tokens
  <2>11. tokens'.inflight = {ops'[u].token : u \in {o \in Known' : Pending(o)' /\ ops'[o].action \in Undos}}
    <3> HIDE DEF U
    <3> QED BY <1>18, <2>8, <2>9, <2>10
  <2>12. \A u \in U : ops[u].token # t.id
    BY <2>3, <2>10
  <2>13. ASSUME NEW u \in Known', NEW x \in Known', Pending(u)', Pending(x)', ops'[u].action \in Undos,
               ops'[x].action \in Undos, ops'[u].token = ops'[x].token
        PROVE  u = x
    <3>1. CASE u \in Known /\ x \in Known
      <4>1. ops'[u] = ops[u] /\ ops'[x] = ops[x] /\ Pending(u) /\ Pending(x)
        BY <1>12, <2>6, <2>13, <3>1
      <4> QED BY <1>3, <2>13, <3>1, <4>1 DEF Tokens
    <3>2. CASE u = n /\ x \in Known
      BY <1>12, <2>6, <2>7, <2>12, <2>13, <3>2
    <3>3. CASE u \in Known /\ x = n
      BY <1>12, <2>6, <2>7, <2>12, <2>13, <3>3
    <3> QED BY <1>12, <3>1, <3>2, <3>3
  <2>14. lost' = 0 => tokens'.consumed \subseteq spent'
    BY <1>2, <1>3, <1>18 DEF Tokens
  <2> QED BY <2>1, <2>4, <2>5, <2>11, <2>13, <2>14 DEF Tokens
<1>22. Taggings'
  <2>1. \A o \in OpIds : reader[o] # "none" \/ o \in ToSet(backlog') =>
          o \in Known' /\ ops'[o].state = "finished" /\ ops'[o].action \in {"move", "copy"}
    BY <1>12, <1>19 DEF IInv, Taggings
  <2>2. \A o \in Known : ops[o].action \in Undos \cup {"metadata"} =>
          ops[o].token \in Known /\ ops'[ops[o].token] = ops[ops[o].token]
    BY <1>12 DEF IInv, Requests, RequestOf, Refers
  <2>3. ASSUME NEW u \in Known', ops'[u].action \in Undos, ops'[ops'[u].token].state = "finished",
               ops'[ops'[u].token].action # "trash"
        PROVE  ops'[u].token \in cancelled'
    <3>1. CASE u = n
      BY <1>6, <1>8, <1>12, <1>13, <2>3, <3>1
    <3>2. CASE u \in Known
      BY <1>12, <1>13, <2>2, <2>3, <3>2 DEF IInv, Taggings
    <3> QED BY <1>12, <3>1, <3>2
  <2>4. ASSUME NEW m \in Known', NEW u \in Known', ops'[m].action = "metadata", ops'[u].action \in Undos,
               ops'[m].token = ops'[u].token
        PROVE  m < u
    <3>1. m \in Known
      BY <1>7, <1>8, <1>12, <2>4 DEF Undos
    <3>2. CASE u = n
      BY <1>12, <3>1, <3>2
    <3>3. CASE u \in Known
      <4>1. ops[m].action = "metadata" /\ ops[u].action \in Undos /\ ops[m].token = ops[u].token
        BY <1>12, <2>4, <3>1, <3>3
      <4> QED BY <3>1, <3>3, <4>1 DEF IInv, Taggings, TaggingStops, Known
    <3> QED BY <1>12, <3>2, <3>3
  <2>5. TaggingStops'
    BY <2>4 DEF TaggingStops, Known
  <2> QED BY <1>13, <2>1, <2>3, <2>5 DEF Taggings, IInv
<1> QED BY <1>14, <1>15, <1>20, <1>21, <1>22 DEF IInv

\* The tags of a sort whose undo was not submitted.
LEMMA ReceiveTagsKeeps == ASSUME IInv, NEW o \in OpIds, ReceiveTags(o) PROVE IInv'
<1> DEFINE req == Request("metadata", ops[o].image, 0, o, 0)
<1>1. /\ reader[o] = "posted" /\ reader' = [reader EXCEPT ![o] = "ending"]
      /\ UNCHANGED <<interrupted, backlog, parents, cancelled, closing>>
      /\ UNCHANGED <<view, folder, generation, tokens, present, row, revision, spent, stale, inbox,
                     lost, replays, notes>>
      /\ \/ UNCHANGED <<ops, accepted>>
         \/ Wanted(o) /\ Room /\ ops' = Append(ops, req) /\ accepted' = Append(accepted, NextOp)
  BY DEF ReceiveTags, Enriched, Submitted
<1>2. UNCHANGED <<view, folder, generation, tokens, present, row, revision, spent, stale, inbox,
                  lost, replays, unsure, beside, told, dropped>>
  BY <1>1 DEF notes
<1>3. TypeOK /\ EnrichmentTypeOK /\ DOMAIN reader = OpIds
  BY DEF IInv, TypeOK, Taggings
<1>4. DOMAIN reader' = OpIds /\ \A p \in OpIds : (reader'[p] # "none" <=> reader[p] # "none")
      /\ reader'[p] \in {"none", "reading", "posted", "ending"}
  BY <1>1, <1>3 DEF EnrichmentTypeOK
<1>5. Active' = Active
  BY <1>3, <1>4 DEF Active
<1>6. EnrichmentTypeOK'
  BY <1>1, <1>3, <1>4, <1>5 DEF EnrichmentTypeOK
<1>7. CASE UNCHANGED <<ops, accepted>>
  <2>1. UNCHANGED <<window, service, inbox, notes, parents, cancelled>>
    BY <1>1, <1>7 DEF window, service
  <2> QED BY <1>1, <1>4, <1>6, <2>1, TaggingStepKeeps
<1>8. CASE Wanted(o) /\ Room /\ ops' = Append(ops, req) /\ accepted' = Append(accepted, NextOp)
  <2>1. o \in Known /\ ops[o].state = "finished" /\ ops[o].action \in {"move", "copy"} /\ o \notin cancelled
    BY <1>1, <1>8 DEF IInv, Taggings, Wanted
  <2>2. /\ req \in Op /\ req.action = "metadata" /\ req.image = ops[o].image /\ req.gen = generation
        /\ req.state = "pending" /\ req.token = o
    <3>1. ops[o].image \in Images /\ o \in 0 .. MaxOps /\ 0 \in Int /\ 0 \in Nat
      BY <1>3, <2>1, OpsFacts DEF OpIds
    <3>2. "metadata" \in Sorts \cup Undos \cup {"metadata"}
      OBVIOUS
    <3>3. PICK i \in Images : i = ops[o].image
      BY <3>1
    <3>4. req = Request("metadata", i, 0, o, 0)
      BY <3>3
    <3> HIDE DEF req
    <3>6. PICK a, z : a = "metadata" /\ z = 0
      OBVIOUS
    <3>7. a \in Sorts \cup Undos \cup {"metadata"} /\ z \in Int /\ z \in Nat
      BY <3>6
    <3>8. LET q == Request(a, i, z, o, z) IN
          /\ q \in Op /\ q.action = a /\ q.image = i /\ q.gen = generation
          /\ q.state = "pending" /\ q.token = o
      BY <1>3, <3>1, <3>7, RequestIs
    <3>5. LET q == Request("metadata", i, 0, o, 0) IN
          /\ q \in Op /\ q.action = "metadata" /\ q.image = i /\ q.gen = generation
          /\ q.state = "pending" /\ q.token = o
      BY <3>6, <3>8
    <3> QED BY <3>3, <3>4, <3>5
  <2> HIDE DEF req
  <2>3. Proper(req)
    BY <2>1, <2>2 DEF Proper, Done, Sorts, Undos, Takes
  <2>4. PICK n : n = NextOp
    OBVIOUS
  <2>5. /\ Known' = Known \cup {n} /\ n \notin Known /\ n \in OpIds /\ \A p \in Known : p < n /\ p \in Int
        /\ ops'[n] = req /\ \A p \in Known : ops'[p] = ops[p]
    BY <1>3, <1>8, <2>2, <2>4, Grown
  <2>6. Requests' /\ Waiting' /\ Messages' /\ Journal' /\ Presence' /\ Queueing' /\ Truth'
    BY <1>1, <1>2, <1>8, <2>3, Appended
  <2>7. RestTypeOK' /\ ops' \in Seq(Op) /\ Len(ops') <= MaxOps /\ Holding' /\ Tokens'
    <3>1. Holding /\ req.action \notin Undos
      BY <2>2 DEF IInv, Undos
    <3> QED BY <1>2, <1>8, <2>3, <3>1, AppendedRest
  <2>8. TypeOK'
    <3>1. ViewTypeOK'
      BY <1>2, <1>3, <2>7 DEF TypeOK, ViewTypeOK
    <3> QED BY <1>6, <2>7, <3>1 DEF TypeOK, RestTypeOK
  <2>9. Taggings'
    <3>1. \A p \in OpIds : reader'[p] # "none" \/ p \in ToSet(backlog) =>
            p \in Known' /\ ops'[p].state = "finished" /\ ops'[p].action \in {"move", "copy"}
      BY <1>4, <2>5 DEF IInv, Taggings
    <3>2. \A p \in Known : ops[p].action \in Undos \cup {"metadata"} =>
            ops[p].token \in Known /\ ops'[ops[p].token] = ops[ops[p].token]
      BY <2>5 DEF IInv, Requests, RequestOf, Refers
    <3>3. \A u \in Known' : ops'[u].action \in Undos => u \in Known /\ ops'[u] = ops[u]
      BY <2>2, <2>5 DEF Undos
    <3>4. \A u \in Known' : ops'[u].action \in Undos /\ ops'[ops'[u].token].state = "finished"
               /\ ops'[ops'[u].token].action # "trash" => ops'[u].token \in cancelled
      BY <3>2, <3>3 DEF IInv, Taggings
    <3>5. ASSUME NEW m \in Known', NEW u \in Known', ops'[m].action = "metadata", ops'[u].action \in Undos,
                 ops'[m].token = ops'[u].token
          PROVE  m < u
      <4>1. u \in Known /\ ops'[u] = ops[u]
        BY <3>3, <3>5
      <4>2. CASE m \in Known
        <5>1. ops[m].action = "metadata" /\ ops[u].action \in Undos /\ ops[m].token = ops[u].token
          BY <2>5, <3>5, <4>1, <4>2
        <5> QED BY <4>1, <4>2, <5>1 DEF IInv, Taggings, TaggingStops, Known
      <4>3. CASE m = n
        <5>1. ops[u].token = o
          BY <2>2, <2>5, <3>5, <4>1, <4>3
        <5>2. o \in cancelled
          BY <2>1, <3>5, <4>1, <5>1 DEF IInv, Taggings
        <5> QED BY <2>1, <5>2
      <4> QED BY <2>5, <4>2, <4>3
    <3>6. TaggingStops'
      BY <3>5 DEF TaggingStops, Known
    <3> QED BY <1>1, <1>4, <3>1, <3>4, <3>6 DEF Taggings, IInv
  <2> QED BY <2>6, <2>7, <2>8, <2>9 DEF IInv
<1> QED BY <1>1, <1>7, <1>8
-----------------------------------------------------------------------------
(* The service.                                                             *)

\* The oldest accepted request.
LEMMA NextRequest ==
  ASSUME IInv, accepted # <<>>, NEW o, o = Head(accepted)
  PROVE  /\ o \in Known /\ o \in OpIds /\ Pending(o) /\ row[o] = "open" /\ \A m \in inbox : m.op # o
         /\ ~Landed(o) /\ o \notin spent \cup stale /\ told[o] = 0 /\ revision[o] = 0
         /\ RequestOf(o) /\ ops[o].image \in Images
         /\ Refers(o) => LET t == ops[o].token IN
              t \in Known /\ t \in OpIds /\ t # o /\ Done(t) /\ ~Pending(t)
                /\ ops[t].action \in Sorts /\ ops[t].image = ops[o].image
<1>0. TypeOK
  BY DEF IInv
<1>1. /\ accepted \in Seq(OpIds) /\ Known \subseteq OpIds /\ OpIds \subseteq Int
      /\ revision \in [OpIds -> Nat] /\ told \in [OpIds -> Nat]
  <2>1. accepted \in Seq(OpIds) /\ Known \subseteq OpIds
    BY <1>0, OpsFacts
  <2>2. revision \in [OpIds -> Nat] /\ told \in [OpIds -> Nat]
    BY <1>0 DEF TypeOK
  <2> QED BY <2>1, <2>2 DEF OpIds
<1>2. o \in ToSet(accepted)
  BY <1>1, TailSet
<1>3. o \in Known /\ Pending(o) /\ row[o] = "open" /\ \A m \in inbox : m.op # o
  BY <1>2 DEF IInv, Waiting
<1>4. o \in OpIds /\ JournalOf(o) /\ RequestOf(o)
  BY <1>1, <1>3 DEF IInv, Journal, Requests
<1>5. o \notin spent \cup stale /\ ~(told[o] > 0) /\ ~(revision[o] > 0)
  BY <1>3, <1>4 DEF JournalOf, Done, Pending
<1>6. told[o] = 0 /\ revision[o] = 0
  BY <1>1, <1>4, <1>5
<1>7. ASSUME Refers(o)
      PROVE  LET t == ops[o].token IN
              t \in Known /\ t \in OpIds /\ t # o /\ Done(t) /\ ~Pending(t)
                /\ ops[t].action \in Sorts /\ ops[t].image = ops[o].image
  <2> DEFINE t == ops[o].token
  <2>1. t \in Known /\ t < o /\ ops[t].action \in Sorts /\ ops[t].image = ops[o].image /\ Done(t)
    BY <1>4, <1>7 DEF RequestOf
  <2>2. t \in OpIds /\ t \in Int /\ o \in Int
    BY <1>1, <1>4, <2>1
  <2>3. t # o
    BY <2>1, <2>2
  <2>4. ~Pending(t)
    BY <2>1 DEF Done, Pending
  <2> QED BY <2>1, <2>2, <2>3, <2>4
<1>8. ops[o].image \in Images
  BY <1>0, <1>3, OpsFacts
<1> QED BY <1>3, <1>4, <1>5, <1>6, <1>7, <1>8 DEF Landed

\* What the answer of the oldest request changes, whatever the answer is.
LEMMA Answered ==
  ASSUME IInv, accepted # <<>>, NEW o, o = Head(accepted), accepted' = Tail(accepted),
         NEW m \in [op : OpIds, ok : BOOLEAN, rev : Nat], m.op = o, inbox' = inbox \cup {m},
         \A p \in OpIds : p # o => row'[p] = row[p], UNCHANGED ops
  PROVE  /\ Waiting'
         /\ \A p, q \in inbox' : p.op = q.op /\ row'[p.op] = "open" => p = q
         /\ accepted' \in Seq(DOMAIN ops') /\ inbox' \subseteq [op : DOMAIN ops', ok : BOOLEAN, rev : Nat]
         /\ \A p \in Known : p # o => (Landed(p)' <=> Landed(p))
         /\ Landed(o)' <=> m.ok
<1>1. /\ TypeOK /\ accepted \in Seq(OpIds) /\ Known \subseteq OpIds /\ accepted \in Seq(DOMAIN ops)
      /\ \A p \in ToSet(accepted) : p \in Known
      /\ inbox \subseteq [op : DOMAIN ops, ok : BOOLEAN, rev : Nat]
  BY OpsFacts DEF IInv, TypeOK
<1>2. o \in Known /\ Pending(o) /\ row[o] = "open" /\ \A p \in inbox : p.op # o
  BY NextRequest
<1>3. /\ Tail(accepted) \in Seq(DOMAIN ops) /\ ToSet(Tail(accepted)) \subseteq ToSet(accepted)
      /\ Len(accepted) \in Nat /\ DOMAIN accepted = 1 .. Len(accepted) /\ Len(accepted) > 0 /\ o = accepted[1]
      /\ \A k \in DOMAIN Tail(accepted) : k \in 1 .. Len(accepted) - 1 /\ k + 1 \in DOMAIN accepted
                                          /\ Tail(accepted)[k] = accepted[k + 1]
  BY <1>1, TailSet, LenProperties
<1>4. Distinct(accepted)
  BY DEF IInv, Waiting
<1>5. Distinct(accepted')
  <2> SUFFICES ASSUME NEW j \in DOMAIN Tail(accepted), NEW k \in DOMAIN Tail(accepted),
                      Tail(accepted)[j] = Tail(accepted)[k] PROVE j = k
    BY DEF Distinct
  <2>1. j + 1 = k + 1
    BY <1>3, <1>4 DEF Distinct
  <2> QED BY <1>3, <2>1
<1>6. o \notin ToSet(Tail(accepted))
  <2>1. \A k \in DOMAIN Tail(accepted) : k + 1 # 1 /\ 1 \in DOMAIN accepted
    BY <1>3
  <2>2. \A k \in DOMAIN Tail(accepted) : Tail(accepted)[k] # o
    BY <1>3, <1>4, <2>1 DEF Distinct
  <2> QED BY <2>2 DEF ToSet
<1>7. \A p \in ToSet(accepted) : p = o \/ p \in ToSet(Tail(accepted))
  <2> SUFFICES ASSUME NEW p \in ToSet(accepted), p # o PROVE p \in ToSet(Tail(accepted))
    OBVIOUS
  <2>1. PICK k \in DOMAIN accepted : accepted[k] = p
    BY DEF ToSet
  <2>2. DOMAIN Tail(accepted) = 1 .. Len(accepted) - 1
    BY <1>1, HeadTailProperties, LenProperties
  <2>3. k # 1 /\ k - 1 \in DOMAIN Tail(accepted) /\ k - 1 + 1 = k
    BY <1>3, <2>1, <2>2
  <2>4. Tail(accepted)[k - 1] = p
    BY <1>3, <2>1, <2>3
  <2> QED BY <2>3, <2>4 DEF ToSet
<1>8. Waiting'
  <2>1. \A p \in ToSet(accepted') : p \in Known' /\ Pending(p)' /\ row'[p] = "open" /\ \A q \in inbox' : q.op # p
    <3> SUFFICES ASSUME NEW p \in ToSet(accepted')
                 PROVE p \in Known' /\ Pending(p)' /\ row'[p] = "open" /\ \A q \in inbox' : q.op # p
      OBVIOUS
    <3>1. p \in ToSet(accepted) /\ p # o /\ p \in OpIds
      BY <1>1, <1>3, <1>6
    <3>2. p \in Known /\ Pending(p) /\ row[p] = "open" /\ \A q \in inbox : q.op # p
      BY <3>1 DEF IInv, Waiting
    <3> QED BY <3>1, <3>2 DEF Known, Pending
  <2>2. \A p \in Known' : Pending(p)' => p \in ToSet(accepted') \/ \E q \in inbox' : q.op = p
    BY <1>7 DEF IInv, Waiting, Known, Pending
  <2> QED BY <1>5, <2>1, <2>2 DEF Waiting
<1>9. \A p, q \in inbox' : p.op = q.op /\ row'[p.op] = "open" => p = q
  <2>1. \A p \in inbox : p.op \in OpIds /\ p.op # o
    BY <1>1, <1>2 DEF Known
  <2>2. \A p, q \in inbox : p.op = q.op /\ row[p.op] = "open" => p = q
    BY DEF IInv, Messages
  <2> QED BY <2>1, <2>2
<1>10. \A p \in Known : p # o => (Landed(p)' <=> Landed(p))
  BY DEF Landed, Pending
<1>11. Landed(o)' <=> m.ok
  BY <1>2 DEF Landed, Pending
<1>12. inbox' \subseteq [op : DOMAIN ops', ok : BOOLEAN, rev : Nat]
  <2>1. m \in [op : DOMAIN ops, ok : BOOLEAN, rev : Nat]
    BY <1>2 DEF Known
  <2> QED BY <1>1, <2>1
<1> QED BY <1>3, <1>8, <1>9, <1>10, <1>11, <1>12

\* A request that changed the folder, or did nothing there.
LEMMA DiskStep ==
  ASSUME IInv, accepted # <<>>, NEW o, o = Head(accepted), Possible(o), present' = Moved(o),
         \A p \in Known : p # o => (Landed(p)' <=> Landed(p)),
         \A x \in OpIds : x # o => (Away(x)' => Away(x)),
         Refers(o) /\ ops[o].action # "metadata" => ~Away(ops[o].token)',
         unsure' = IF Landed(o)' THEN unsure ELSE unsure \cup {ops[o].image},
         UNCHANGED <<ops, folder, generation, view>>
  PROVE  Presence' /\ Truth'
<1> DEFINE i == ops[o].image
           t == ops[o].token
<1>1. /\ o \in Known /\ o \in OpIds /\ Pending(o) /\ ~Landed(o) /\ i \in Images /\ RequestOf(o)
      /\ Refers(o) => t \in Known /\ t \in OpIds /\ t # o /\ Done(t) /\ ~Pending(t)
                        /\ ops[t].action \in Sorts /\ ops[t].image = i
  BY NextRequest
<1>2. /\ \A x \in OpIds : Away(x) => ops[x].image \notin present
      /\ \A x, y \in OpIds : Away(x) /\ Away(y) /\ ops[x].image = ops[y].image => x = y
      /\ \A p \in Known : Landed(p) /\ ops[p].action \in Takes =>
           /\ ops[p].image \notin present
           /\ \A x \in OpIds : Away(x) /\ ops[x].image = ops[p].image => x = p
  BY DEF IInv, Presence
<1>3. \A x \in OpIds : Away(x)' => ops[x].action \in Takes
  BY DEF Away
<1>4. Known' = Known /\ ops' = ops /\ Queue' = Queue
  BY DEF Known, Queue
<1>5. ops[o].action \in Sorts \cup Undos \cup {"metadata"}
  BY <1>1, OpsFacts DEF IInv
<1>6. CASE ops[o].action \in Takes
  <2>1. i \in present /\ present' = present \ {i}
    BY <1>6 DEF Possible, Moved, Takes, Sorts
  <2>2. \A x \in OpIds : Away(x)' => ops[x].image \notin present'
    BY <1>2, <2>1
  <2>3. \A x \in OpIds : Away(x)' /\ ops[x].image = i => x = o
    BY <1>2, <2>1
  <2>4. \A x, y \in OpIds : Away(x)' /\ Away(y)' /\ ops[x].image = ops[y].image => x = y
    BY <1>2, <2>3
  <2>5. \A p \in Known : Landed(p)' /\ ops[p].action \in Takes =>
           /\ ops[p].image \notin present'
           /\ \A x \in OpIds : Away(x)' /\ ops[x].image = ops[p].image => x = p
    <3> SUFFICES ASSUME NEW p \in Known, Landed(p)', ops[p].action \in Takes
                 PROVE  /\ ops[p].image \notin present'
                        /\ \A x \in OpIds : Away(x)' /\ ops[x].image = ops[p].image => x = p
      OBVIOUS
    <3>1. CASE p = o
      BY <2>1, <2>3, <3>1
    <3>2. CASE p # o
      <4>1. Landed(p)
        BY <3>2
      <4>2. ops[p].image \notin present /\ ops[p].image # i
        BY <1>2, <2>1, <4>1
      <4> QED BY <1>2, <2>1, <4>1, <4>2
    <3> QED BY <3>1, <3>2
  <2>6. Presence'
    BY <1>4, <2>2, <2>4, <2>5 DEF Presence
  <2>7. Truth'
    <3> SUFFICES ASSUME NEW j \in Images, Viewed(j)' PROVE TruthOf(j)'
      BY DEF Truth
    <3>1. TruthOf(j)
      BY DEF IInv, Truth, Viewed
    <3>2. CASE j # i
      <4>1. \A p \in Known : (Moving(p, j)' <=> Moving(p, j)) /\ (Returning(p, j)' <=> Returning(p, j))
        BY <3>2 DEF Moving, Returning
      <4>2. j \in present' <=> j \in present
        BY <2>1, <3>2
      <4> QED BY <1>4, <3>1, <4>1, <4>2 DEF TruthOf, Pending
    <3>3. CASE j = i
      <4>1. Landed(o)'
        BY <3>3 DEF Viewed
      <4>2. Moving(o, j)'
        BY <1>6, <3>3, <4>1 DEF Moving
      <4>3. ops[o].gen = generation /\ i \in Queue
        <5>1. ops[o].gen = generation
          BY <1>1, <3>1, <3>3 DEF TruthOf
        <5> QED BY <1>1, <1>6, <5>1 DEF IInv, Queueing
      <4>4. \A p \in Known : ~Returning(p, j)'
        <5> SUFFICES ASSUME NEW p \in Known, Returning(p, j)' PROVE FALSE
          OBVIOUS
        <5>1. p # o
          BY <1>6 DEF Returning, Takes
        <5>2. Returning(p, j)
          BY <5>1 DEF Returning
        <5> QED BY <3>1, <3>3, <4>3, <5>2 DEF TruthOf
      <4> QED BY <1>1, <1>4, <3>1, <3>3, <4>2, <4>3, <4>4 DEF TruthOf, Pending
    <3> QED BY <3>2, <3>3
  <2> QED BY <2>6, <2>7
<1>7. CASE ops[o].action = "undo_move"
  <2>1. Refers(o) /\ Live(t) /\ t \notin stale /\ i \notin present /\ present' = present \cup {i}
    BY <1>7 DEF Possible, Moved, Refers, Undos, Sorts
  <2>2. ops[t].action \in Takes
    <3>1. ops[t].action # "copy"
      BY <1>1, <1>7 DEF RequestOf, Undos
    <3> QED BY <1>1, <2>1, <3>1 DEF Sorts, Takes
  <2>3. Away(t) /\ ~Away(t)'
    BY <1>7, <2>1, <2>2 DEF Away, Live
  <2>4. \A x \in OpIds : Away(x)' => Away(x) /\ x # t /\ ops[x].image # i
    <3> SUFFICES ASSUME NEW x \in OpIds, Away(x)' PROVE Away(x) /\ x # t /\ ops[x].image # i
      OBVIOUS
    <3>1. x # o
      BY <1>3, <1>7 DEF Takes
    <3>2. Away(x) /\ x # t
      BY <2>3, <3>1
    <3> QED BY <1>1, <1>2, <2>1, <2>3, <3>2
  <2>5. \A p \in Known : Landed(p) /\ ops[p].action \in Takes => ops[p].image # i
    <3> SUFFICES ASSUME NEW p \in Known, Landed(p), ops[p].action \in Takes, ops[p].image = i PROVE FALSE
      OBVIOUS
    <3>1. p = t
      BY <1>1, <1>2, <2>1, <2>3
    <3> QED BY <1>1, <2>1, <3>1 DEF Landed
  <2>6. \A p \in Known : Landed(p)' /\ ops[p].action \in Takes => p # o /\ Landed(p)
    BY <1>7 DEF Takes
  <2>7. Presence'
    <3>1. \A x \in OpIds : Away(x)' => ops[x].image \notin present'
      BY <1>2, <2>1, <2>4
    <3>2. \A x, y \in OpIds : Away(x)' /\ Away(y)' /\ ops[x].image = ops[y].image => x = y
      BY <1>2, <2>4
    <3>3. \A p \in Known : Landed(p)' /\ ops[p].action \in Takes =>
           /\ ops[p].image \notin present'
           /\ \A x \in OpIds : Away(x)' /\ ops[x].image = ops[p].image => x = p
      BY <1>2, <2>1, <2>4, <2>5, <2>6
    <3> QED BY <1>4, <3>1, <3>2, <3>3 DEF Presence
  <2>8. Truth'
    <3> SUFFICES ASSUME NEW j \in Images, Viewed(j)' PROVE TruthOf(j)'
      BY DEF Truth
    <3>1. TruthOf(j)
      BY DEF IInv, Truth, Viewed
    <3>2. CASE j # i
      <4>1. \A p \in Known : (Moving(p, j)' <=> Moving(p, j)) /\ (Returning(p, j)' <=> Returning(p, j))
        BY <3>2 DEF Moving, Returning
      <4>2. j \in present' <=> j \in present
        BY <2>1, <3>2
      <4> QED BY <1>4, <3>1, <4>1, <4>2 DEF TruthOf, Pending
    <3>3. CASE j = i
      <4>1. Landed(o)'
        BY <3>3 DEF Viewed
      <4>2. Returning(o, j)'
        BY <1>7, <3>3, <4>1 DEF Returning
      <4>3. \A p \in Known : ~Moving(p, j) /\ ~Returning(p, j)
        BY <2>1, <2>5, <3>1, <3>3 DEF Moving, TruthOf
      <4>4. i \notin Queue
        BY <2>1, <3>1, <3>3, <4>3 DEF TruthOf
      <4>5. \A p \in Known : ~Moving(p, j)' /\ (Returning(p, j)' => p = o)
        <5> SUFFICES ASSUME NEW p \in Known PROVE ~Moving(p, j)' /\ (Returning(p, j)' => p = o)
          OBVIOUS
        <5>1. CASE p = o
          BY <1>7, <5>1 DEF Moving, Takes
        <5>2. CASE p # o
          BY <4>3, <5>2 DEF Moving, Returning
        <5> QED BY <5>1, <5>2
      <4> QED BY <1>1, <1>4, <2>1, <3>1, <3>3, <4>2, <4>4, <4>5 DEF TruthOf, Pending
    <3> QED BY <3>2, <3>3
  <2> QED BY <2>7, <2>8
<1>8. CASE ops[o].action \in {"copy", "undo_copy", "metadata"}
  <2>1. present' = present
    BY <1>8 DEF Moved
  <2>2. \A x \in OpIds : Away(x)' => Away(x)
    BY <1>3, <1>8 DEF Takes
  <2>3. \A p \in Known : ops[p].action \in Takes \cup {"undo_move"} => (Landed(p)' <=> Landed(p))
    BY <1>8 DEF Takes
  <2>4. Presence'
    BY <1>2, <1>4, <2>1, <2>2, <2>3 DEF Presence
  <2>5. Truth'
    <3> SUFFICES ASSUME NEW j \in Images, Viewed(j)' PROVE TruthOf(j)'
      BY DEF Truth
    <3>1. TruthOf(j)
      BY DEF IInv, Truth, Viewed
    <3>2. \A p \in Known : (Moving(p, j)' <=> Moving(p, j)) /\ (Returning(p, j)' <=> Returning(p, j))
      BY <2>3 DEF Moving, Returning
    <3> QED BY <1>4, <2>1, <3>1, <3>2 DEF TruthOf, Pending
  <2> QED BY <2>4, <2>5
<1> QED BY <1>5, <1>6, <1>7, <1>8 DEF Sorts, Undos, Takes

\* What no answer of the service touches before it is delivered.
LEMMA OutsideStays ==
  ASSUME IInv, UNCHANGED <<window, enrichment, beside, told>>
  PROVE  ViewTypeOK' /\ EnrichmentTypeOK' /\ Requests' /\ Queueing' /\ Holding' /\ Taggings'
<1>1. UNCHANGED <<view, folder, generation, ops, tokens, reader, interrupted, backlog, parents, cancelled,
                  closing, beside, told>>
  BY DEF window, enrichment
<1>2. ViewTypeOK' /\ EnrichmentTypeOK'
  BY TypeParts, ViewTypeStays, TaggingTypeStays DEF IInv
<1>3. Requests' /\ Queueing' /\ Holding' /\ Taggings'
  BY <1>1, RequestsStay, QueueingStays, HoldingStays, TaggingsStay DEF IInv
<1> QED BY <1>2, <1>3

\* The service did what was asked and wrote the receipt.
LEMMA SucceedKeeps ==
  ASSUME IInv, accepted # <<>>, NEW o, o = Head(accepted), accepted' = Tail(accepted), Succeed(o),
         UNCHANGED <<window, enrichment, replays, beside, told, dropped>>
  PROVE  IInv'
<1> DEFINE t == ops[o].token
<1>1. PICK kept \in IF ops[o].action = "trash" THEN BOOLEAN ELSE {TRUE} :
       revision' = CASE ops[o].action \in Sorts -> [revision EXCEPT ![o] = IF kept THEN 1 ELSE 0]
                     [] ops[o].action = "metadata" -> [revision EXCEPT ![t] = @ + 1]
                     [] OTHER -> revision
  BY DEF Succeed
<1>2. PICK m : m = Message(o, TRUE, IF ops[o].action \in Undos THEN 0 ELSE revision'[TokenOf(o)])
  OBVIOUS
<1>3. /\ Possible(o) /\ present' = Moved(o) /\ row' = [row EXCEPT ![o] = "ok"]
      /\ spent' = IF ops[o].action \in Undos THEN spent \cup {t} ELSE spent
      /\ inbox' = inbox \cup {m} /\ UNCHANGED <<stale, lost, unsure>>
  BY <1>2 DEF Succeed
<1>4. UNCHANGED <<view, folder, generation, ops, tokens, parents, beside, told, dropped, replays>>
  BY DEF window, enrichment
<1>5. /\ o \in Known /\ o \in OpIds /\ Pending(o) /\ row[o] = "open" /\ \A p \in inbox : p.op # o
      /\ ~Landed(o) /\ o \notin spent \cup stale /\ told[o] = 0 /\ revision[o] = 0
      /\ RequestOf(o) /\ ops[o].image \in Images
      /\ Refers(o) => t \in Known /\ t \in OpIds /\ t # o /\ Done(t) /\ ~Pending(t)
                        /\ ops[t].action \in Sorts
                      /\ ops[t].image = ops[o].image
  BY NextRequest
<1>6. /\ TypeOK /\ Known \subseteq OpIds /\ revision \in [OpIds -> Nat]
      /\ row \in [OpIds -> {"open", "ok", "failed"}] /\ {spent, stale} \subseteq SUBSET OpIds
      /\ \A p \in inbox : p.op \in Known
      /\ ops[o].action \in Sorts \cup Undos \cup {"metadata"}
  BY <1>5, OpsFacts DEF IInv, TypeOK
<1>7. /\ revision' \in [OpIds -> Nat]
      /\ revision'[o] > 0 => ops[o].action \in Sorts
      /\ \A x \in OpIds : x # o => (revision'[x] > 0 <=> revision[x] > 0)
      /\ \A p \in Known : p # o /\ Pending(p) => revision'[p] = revision[p]
  <2>1. CASE ops[o].action \in Sorts
    <3>1. PICK n \in Nat : revision' = [revision EXCEPT ![o] = n]
      <4>1. revision' = [revision EXCEPT ![o] = IF kept THEN 1 ELSE 0]
        BY <1>1, <2>1 DEF Sorts
      <4> QED BY <4>1
    <3>2. \A x \in OpIds : x # o => revision'[x] = revision[x]
      BY <1>6, <3>1
    <3> QED BY <1>6, <2>1, <3>1, <3>2
  <2>2. CASE ops[o].action = "metadata"
    <3>1. revision' = [revision EXCEPT ![t] = @ + 1]
      BY <1>1, <2>2 DEF Sorts
    <3>2. t \in OpIds /\ t # o /\ ~Pending(t) /\ revision[t] > 0
      BY <1>3, <1>5, <2>2 DEF Possible, Live, Refers, Sorts
    <3> QED BY <1>5, <1>6, <3>1, <3>2
  <2>3. CASE ops[o].action \in Undos
    <3>1. revision' = revision
      BY <1>1, <2>3 DEF Undos, Sorts
    <3> QED BY <1>5, <1>6, <3>1
  <2> QED BY <1>6, <2>1, <2>2, <2>3
<1>8. /\ m \in [op : OpIds, ok : BOOLEAN, rev : Nat] /\ m.op = o /\ m.ok
      /\ m.rev > 0 => ops[o].action \notin Undos /\ revision'[TokenOf(o)] > 0
      /\ ops[o].action \in Sorts => m.rev = revision'[o]
  <2>1. ops[o].action \notin Undos => TokenOf(o) \in OpIds
    BY <1>5, <1>6 DEF TokenOf, Refers
  <2>2. ops[o].action \notin Undos => revision'[TokenOf(o)] \in Nat
    BY <1>7, <2>1
  <2>3. ops[o].action \in Sorts => TokenOf(o) = o /\ ops[o].action \notin Undos
    BY DEF TokenOf, Sorts, Undos
  <2> QED BY <1>2, <1>5, <2>2, <2>3 DEF Message
<1>9. \A p \in OpIds : p # o => row'[p] = row[p]
  BY <1>3, <1>6
<1>10. row'[o] = "ok"
  BY <1>3, <1>5, <1>6
<1>11. /\ Waiting' /\ \A p, q \in inbox' : p.op = q.op /\ row'[p.op] = "open" => p = q
       /\ accepted' \in Seq(DOMAIN ops') /\ inbox' \subseteq [op : DOMAIN ops', ok : BOOLEAN, rev : Nat]
       /\ \A p \in Known : p # o => (Landed(p)' <=> Landed(p))
       /\ Landed(o)' <=> m.ok
  BY <1>3, <1>4, <1>8, <1>9, Answered
<1>12. spent \subseteq spent' /\ spent' \subseteq OpIds
  BY <1>3, <1>5, <1>6 DEF Refers
<1>13. Presence' /\ Truth'
  <2>1. \A x \in OpIds : x # o => (Away(x)' => Away(x))
    BY <1>3, <1>4, <1>7, <1>12 DEF Away
  <2>2. Refers(o) /\ ops[o].action # "metadata" => ~Away(t)'
    BY <1>3, <1>4 DEF Away, Refers
  <2>3. unsure' = IF Landed(o)' THEN unsure ELSE unsure \cup {ops[o].image}
    BY <1>3, <1>8, <1>11
  <2> QED BY <1>3, <1>4, <1>11, <2>1, <2>2, <2>3, DiskStep
<1>14. Messages'
  <2>1. ASSUME NEW p \in inbox PROVE MessageOf(p)'
    <3>1. MessageOf(p) /\ p.op # o /\ p.op \in Known /\ row'[p.op] = row[p.op]
      BY <1>5, <1>6, <1>9 DEF IInv, Messages
    <3>2. TokenOf(p.op)' = TokenOf(p.op)
      BY <1>4 DEF TokenOf
    <3>3. p.rev > 0 => revision'[TokenOf(p.op)] > 0
      <4>1. SUFFICES ASSUME p.rev > 0 PROVE revision'[TokenOf(p.op)] > 0
        OBVIOUS
      <4>2. revision[TokenOf(p.op)] > 0 /\ ops[p.op].action \notin Undos
        BY <3>1, <4>1 DEF MessageOf
      <4>3. RequestOf(p.op) /\ ops[p.op].action \in Sorts \cup Undos \cup {"metadata"}
        BY <1>6, <3>1, OpsFacts DEF IInv, Requests
      <4>4. TokenOf(p.op) \in OpIds
        BY <1>6, <3>1, <4>2, <4>3 DEF TokenOf, RequestOf, Refers
      <4>5. TokenOf(p.op) # o
        BY <1>5, <4>2
      <4> QED BY <1>7, <4>2, <4>4, <4>5
    <3>4. Pending(p.op) => revision'[p.op] = revision[p.op]
      BY <1>7, <3>1
    <3> QED BY <1>3, <1>4, <1>12, <3>1, <3>2, <3>3, <3>4 DEF MessageOf, Pending
  <2>2. MessageOf(m)'
    <3>1. TokenOf(o)' = TokenOf(o)
      BY <1>4 DEF TokenOf
    <3>2. ops[o].action \in Undos => t \in spent'
      BY <1>3
    <3> QED BY <1>4, <1>8, <1>10, <3>1, <3>2 DEF MessageOf
  <2> QED BY <1>3, <1>11, <2>1, <2>2 DEF Messages
<1>15. Journal'
  <2> SUFFICES ASSUME NEW x \in OpIds PROVE JournalOf(x)'
    BY DEF Journal
  <2>1. JournalOf(x)
    BY DEF IInv, Journal
  <2>2. CASE x = o
    <3>1. o \notin spent' \cup stale'
      BY <1>3, <1>5 DEF Refers
    <3>2. ops[o].action \in Undos => t \in spent'
      BY <1>3
    <3> QED BY <1>4, <1>5, <1>7, <1>10, <2>2, <3>1, <3>2 DEF JournalOf, Known, Pending, Done
  <2>3. CASE x # o
    <3>1. row'[x] = row[x] /\ (revision'[x] > 0 <=> revision[x] > 0)
      BY <1>7, <1>9, <2>3
    <3>2. x \in spent' \cup stale' => x \in spent \cup stale \/ (x \in Known /\ ops[x].action \in Sorts /\ Done(x))
      BY <1>3, <1>5 DEF Refers
    <3> QED BY <1>4, <1>12, <2>1, <3>1, <3>2 DEF JournalOf, Known, Done
  <2> QED BY <2>2, <2>3
<1>16. Tokens'
  BY <1>3, <1>4, <1>12 DEF IInv, Tokens, Ids, HistoryIds, Known, Pending
<1>17. RestTypeOK'
  <2>1. present' \subseteq Images
    BY <1>3, <1>5, <1>6 DEF Moved, TypeOK
  <2>2. row' \in [OpIds -> {"open", "ok", "failed"}]
    BY <1>3, <1>6
  <2>3. lost' \in 0 .. MaxLost /\ replays' \in 0 .. MaxReplays /\ unsure' \subseteq Images /\ dropped' \subseteq OpIds
        /\ told' \in [OpIds -> Nat] /\ stale' \subseteq OpIds
    BY <1>3, <1>4, <1>6 DEF TypeOK
  <2> QED BY <1>7, <1>11, <1>12, <2>1, <2>2, <2>3 DEF RestTypeOK
<1>18. ViewTypeOK' /\ EnrichmentTypeOK' /\ Requests' /\ Queueing' /\ Holding' /\ Taggings'
  BY OutsideStays
<1>19. TypeOK'
  BY <1>17, <1>18 DEF TypeOK, RestTypeOK
<1> QED BY <1>11, <1>13, <1>14, <1>15, <1>16, <1>18, <1>19 DEF IInv

\* It did what was asked and the receipt was lost; the token is stale now.
LEMMA LoseKeeps ==
  ASSUME IInv, accepted # <<>>, NEW o, o = Head(accepted), accepted' = Tail(accepted), Lose(o),
         UNCHANGED <<window, enrichment, replays, beside, told, dropped>>
  PROVE  IInv'
<1> DEFINE t == ops[o].token
<1>1. PICK ok \in BOOLEAN :
        /\ inbox' = inbox \cup {Message(o, ok, 0)}
        /\ unsure' = IF ok THEN unsure ELSE unsure \cup {ops[o].image}
  BY DEF Lose
<1>2. PICK m : m = Message(o, ok, 0)
  OBVIOUS
<1>3. /\ Possible(o) /\ present' = Moved(o) /\ lost < MaxLost /\ lost' = lost + 1
      /\ stale' = IF ops[o].action \in Sorts THEN stale ELSE stale \cup {t}
      /\ inbox' = inbox \cup {m} /\ UNCHANGED <<row, revision, spent>>
  BY <1>1, <1>2 DEF Lose
<1>4. UNCHANGED <<view, folder, generation, ops, tokens, parents, beside, told, dropped, replays>>
  BY DEF window, enrichment
<1>5. /\ o \in Known /\ o \in OpIds /\ Pending(o) /\ row[o] = "open" /\ \A p \in inbox : p.op # o
      /\ ~Landed(o) /\ o \notin spent \cup stale /\ told[o] = 0 /\ revision[o] = 0
      /\ RequestOf(o) /\ ops[o].image \in Images
      /\ Refers(o) => t \in Known /\ t \in OpIds /\ t # o /\ Done(t) /\ ~Pending(t)
                        /\ ops[t].action \in Sorts
                      /\ ops[t].image = ops[o].image
  BY NextRequest
<1>6. /\ TypeOK /\ Known \subseteq OpIds /\ {spent, stale} \subseteq SUBSET OpIds
      /\ ops[o].action \in Sorts \cup Undos \cup {"metadata"} /\ lost \in Nat /\ MaxLost \in Nat
      /\ lost \in 0 .. MaxLost /\ unsure \subseteq Images /\ present \subseteq Images
  <2>1. TypeOK
    BY DEF IInv
  <2>2. /\ Known \subseteq OpIds /\ ops[o].action \in Sorts \cup Undos \cup {"metadata"}
    BY <1>5, <2>1, OpsFacts
  <2>3. lost \in 0 .. MaxLost /\ MaxLost \in Nat
    BY <2>1, SessionAssumption DEF TypeOK
  <2> QED BY <2>1, <2>2, <2>3 DEF TypeOK
<1>7. m \in [op : OpIds, ok : BOOLEAN, rev : Nat] /\ m.op = o /\ m.rev = 0 /\ (m.ok <=> ok)
  BY <1>2, <1>5 DEF Message
<1>8. /\ Waiting' /\ \A p, q \in inbox' : p.op = q.op /\ row'[p.op] = "open" => p = q
      /\ accepted' \in Seq(DOMAIN ops') /\ inbox' \subseteq [op : DOMAIN ops', ok : BOOLEAN, rev : Nat]
      /\ \A p \in Known : p # o => (Landed(p)' <=> Landed(p))
      /\ Landed(o)' <=> m.ok
  BY <1>3, <1>4, <1>7, Answered
<1>9. stale \subseteq stale' /\ stale' \subseteq OpIds /\ (Refers(o) => t \in stale')
      /\ \A x \in stale' \ stale : x \in Known /\ ops[x].action \in Sorts /\ Done(x)
  BY <1>3, <1>5, <1>6 DEF Refers, Sorts, Undos
<1>10. Presence' /\ Truth'
  <2>1. \A x \in OpIds : x # o => (Away(x)' => Away(x))
    BY <1>3, <1>4, <1>9 DEF Away
  <2>2. Refers(o) /\ ops[o].action # "metadata" => ~Away(t)'
    BY <1>4, <1>9 DEF Away
  <2>3. unsure' = IF Landed(o)' THEN unsure ELSE unsure \cup {ops[o].image}
    BY <1>1, <1>7, <1>8
  <2> QED BY <1>3, <1>4, <1>8, <2>1, <2>2, <2>3, DiskStep
<1>11. lost' # 0
  BY <1>3, <1>6
<1>12. Messages'
  <2>1. ASSUME NEW p \in inbox PROVE MessageOf(p)'
    <3>1. MessageOf(p)
      BY DEF IInv, Messages
    <3>2. TokenOf(p.op)' = TokenOf(p.op)
      BY <1>4 DEF TokenOf
    <3> QED BY <1>3, <1>4, <1>11, <3>1, <3>2 DEF MessageOf, Pending
  <2>2. MessageOf(m)'
    BY <1>3, <1>5, <1>7, <1>11 DEF MessageOf
  <2> QED BY <1>3, <1>8, <2>1, <2>2 DEF Messages
<1>13. Journal'
  <2> SUFFICES ASSUME NEW x \in OpIds PROVE JournalOf(x)'
    BY DEF Journal
  <2>1. JournalOf(x)
    BY DEF IInv, Journal
  <2> QED BY <1>3, <1>4, <1>9, <2>1 DEF JournalOf, Known, Done
<1>14. Tokens'
  BY <1>3, <1>4, <1>11 DEF IInv, Tokens, Ids, HistoryIds, Known, Pending
<1>15. RestTypeOK'
  <2>1. present' \subseteq Images
    BY <1>3, <1>5, <1>6 DEF Moved
  <2>2. unsure' \subseteq Images
    BY <1>1, <1>5, <1>6
  <2>3. lost' \in 0 .. MaxLost
    BY <1>3, <1>6
  <2>4. replays' \in 0 .. MaxReplays /\ dropped' \subseteq OpIds /\ spent' \subseteq OpIds
        /\ told' \in [OpIds -> Nat] /\ row' \in [OpIds -> {"open", "ok", "failed"}] /\ revision' \in [OpIds -> Nat]
    BY <1>3, <1>4, <1>6 DEF TypeOK
  <2> QED BY <1>8, <1>9, <2>1, <2>2, <2>3, <2>4 DEF RestTypeOK
<1>16. ViewTypeOK' /\ EnrichmentTypeOK' /\ Requests' /\ Queueing' /\ Holding' /\ Taggings'
  BY OutsideStays
<1>17. TypeOK'
  BY <1>15, <1>16 DEF TypeOK, RestTypeOK
<1> QED BY <1>8, <1>10, <1>12, <1>13, <1>14, <1>16, <1>17 DEF IInv

\* It did nothing.
LEMMA FailKeeps ==
  ASSUME IInv, accepted # <<>>, NEW o, o = Head(accepted), accepted' = Tail(accepted), Fail(o),
         UNCHANGED <<window, enrichment, replays, beside, told, dropped>>
  PROVE  IInv'
<1>1. PICK m : m = Message(o, FALSE, 0)
  OBVIOUS
<1>2. /\ row' = [row EXCEPT ![o] = "failed"] /\ inbox' = inbox \cup {m}
      /\ UNCHANGED <<present, revision, spent, stale, lost, unsure>>
  BY <1>1 DEF Fail
<1>3. UNCHANGED <<view, folder, generation, ops, tokens, parents, beside, told, dropped, replays>>
  BY DEF window, enrichment
<1>4. /\ o \in Known /\ o \in OpIds /\ Pending(o) /\ row[o] = "open" /\ \A p \in inbox : p.op # o
      /\ ~Landed(o) /\ revision[o] = 0
  BY NextRequest
<1>5. /\ TypeOK /\ Known \subseteq OpIds /\ row \in [OpIds -> {"open", "ok", "failed"}]
      /\ \A p \in inbox : p.op \in Known
  BY OpsFacts DEF IInv, TypeOK
<1>6. m \in [op : OpIds, ok : BOOLEAN, rev : Nat] /\ m.op = o /\ m.rev = 0 /\ ~m.ok
  BY <1>1, <1>4 DEF Message
<1>7. row'[o] = "failed" /\ \A p \in OpIds : p # o => row'[p] = row[p]
  BY <1>2, <1>4, <1>5
<1>8. /\ Waiting' /\ \A p, q \in inbox' : p.op = q.op /\ row'[p.op] = "open" => p = q
      /\ accepted' \in Seq(DOMAIN ops') /\ inbox' \subseteq [op : DOMAIN ops', ok : BOOLEAN, rev : Nat]
      /\ \A p \in Known : p # o => (Landed(p)' <=> Landed(p))
      /\ Landed(o)' <=> m.ok
  BY <1>2, <1>3, <1>6, <1>7, Answered
<1>9. \A p \in Known : Landed(p)' <=> Landed(p)
  BY <1>4, <1>6, <1>8
<1>10. Presence'
  BY <1>2, <1>3, <1>9 DEF IInv, Presence, Away, Known
<1>11. Truth'
  <2>1. \A p \in Known, j \in Images : (Moving(p, j)' <=> Moving(p, j)) /\ (Returning(p, j)' <=> Returning(p, j))
    BY <1>3, <1>9 DEF Moving, Returning
  <2> QED BY <1>2, <1>3, <2>1 DEF IInv, Truth, TruthOf, Viewed, Queue, Known, Pending
<1>12. Messages'
  <2>1. ASSUME NEW p \in inbox PROVE MessageOf(p)'
    <3>1. MessageOf(p) /\ row'[p.op] = row[p.op]
      BY <1>4, <1>5, <1>7 DEF IInv, Messages
    <3>2. TokenOf(p.op)' = TokenOf(p.op)
      BY <1>3 DEF TokenOf
    <3> QED BY <1>2, <1>3, <3>1, <3>2 DEF MessageOf, Pending
  <2>2. MessageOf(m)'
    BY <1>6, <1>7 DEF MessageOf
  <2> QED BY <1>2, <1>8, <2>1, <2>2 DEF Messages
<1>13. Journal'
  <2> SUFFICES ASSUME NEW x \in OpIds PROVE JournalOf(x)'
    BY DEF Journal
  <2>1. JournalOf(x)
    BY DEF IInv, Journal
  <2> QED BY <1>2, <1>3, <1>4, <1>7, <2>1 DEF JournalOf, Known, Done
<1>14. Tokens'
  BY <1>2, <1>3, TokensStay DEF IInv
<1>15. RestTypeOK'
  <2>1. row' \in [OpIds -> {"open", "ok", "failed"}]
    BY <1>2, <1>5
  <2> QED BY <1>2, <1>3, <1>5, <1>8, <2>1 DEF RestTypeOK, TypeOK
<1>16. ViewTypeOK' /\ EnrichmentTypeOK' /\ Requests' /\ Queueing' /\ Holding' /\ Taggings'
  BY OutsideStays
<1>17. TypeOK'
  BY <1>15, <1>16 DEF TypeOK, RestTypeOK
<1> QED BY <1>8, <1>10, <1>11, <1>12, <1>13, <1>14, <1>16, <1>17 DEF IInv

\* The service settles its oldest request.
LEMMA SettleRequestKeeps == ASSUME IInv, SettleRequest PROVE IInv'
<1>1. PICK o : o = Head(accepted)
  OBVIOUS
<1>2. /\ accepted # <<>> /\ accepted' = Tail(accepted) /\ (Succeed(o) \/ Fail(o) \/ Lose(o))
      /\ UNCHANGED <<window, enrichment, replays, beside, told, dropped>>
  BY <1>1 DEF SettleRequest
<1> QED BY <1>1, <1>2, SucceedKeeps, FailKeeps, LoseKeeps
-----------------------------------------------------------------------------
(* The GUI thread receives: operations, journal and messages.               *)

\* What a delivered message leaves of the list of operations.
Answering(m) ==
  LET o == m.op IN
  /\ Known' = Known /\ ops' \in Seq(Op) /\ Len(ops') = Len(ops)
  /\ \A p \in Known : /\ ops'[p].action = ops[p].action /\ ops'[p].image = ops[p].image
                      /\ ops'[p].gen = ops[p].gen /\ ops'[p].token = ops[p].token /\ ops'[p].rev = ops[p].rev
                      /\ ops'[p].index = ops[p].index
                      /\ ~Pending(p) => ops'[p].state = ops[p].state
                      /\ p # o => ops'[p].state = ops[p].state
  /\ Pending(o) => ops'[o].state = IF m.ok THEN "finished" ELSE "error"

\* A message finishes the operation it answers, or tells of one that was answered.
LEMMA AnsweringIs == ASSUME IInv, NEW m, Deliver(m) PROVE Answering(m) /\ m.op \in Known /\ m.op \in OpIds
<1> DEFINE o == m.op
<1>1. TypeOK /\ m \in inbox
  BY DEF IInv, Deliver
<1>2. /\ Known = 1 .. Len(ops) /\ Len(ops) \in Nat /\ Known \subseteq OpIds /\ o \in Known /\ ops \in Seq(Op)
      /\ \A p \in Known : ops[p] \in Op
  BY <1>1, OpsFacts DEF TypeOK, ViewTypeOK
<1>3. CASE Pending(o)
  <2>1. PICK s : s = IF m.ok THEN "finished" ELSE "error"
    OBVIOUS
  <2>2. ops' = [ops EXCEPT ![o].state = s] /\ s \in {"finished", "error"}
    BY <1>1, <1>3, <2>1 DEF Deliver, OnOperationResult, Pending
  <2>3. [ops[o] EXCEPT !.state = s] \in Op
    BY <1>2, <2>2 DEF Op
  <2>4. ops' \in [1 .. Len(ops) -> Op]
    <3>1. ops \in [1 .. Len(ops) -> Op]
      BY <1>2, LenProperties
    <3> QED BY <1>2, <2>2, <2>3, <3>1
  <2>5. ops' \in Seq(Op) /\ Len(ops') = Len(ops)
    BY <1>2, <2>4, IsASeq, LenProperties
  <2>6. Known' = Known
    BY <1>2, <2>4 DEF Known
  <2>7. ops'[o] = [ops[o] EXCEPT !.state = s] /\ \A p \in Known : p # o => ops'[p] = ops[p]
    BY <1>2, <2>2 DEF Known
  <2>8. /\ ops'[o].action = ops[o].action /\ ops'[o].image = ops[o].image
        /\ ops'[o].gen = ops[o].gen /\ ops'[o].token = ops[o].token /\ ops'[o].rev = ops[o].rev
        /\ ops'[o].index = ops[o].index /\ ops'[o].state = s
    BY <1>2, <2>7 DEF Op
  <2> QED BY <1>2, <1>3, <2>1, <2>5, <2>6, <2>7, <2>8 DEF Answering
<1>4. CASE ~Pending(o)
  <2>1. ops' = ops
    BY <1>4 DEF Deliver, OnHistory, Pending
  <2> QED BY <1>2, <1>4, <2>1 DEF Answering, Known
<1> QED BY <1>2, <1>3, <1>4

\* The token of a message, and the revision known afterwards.
LEMMA MessageFacts ==
  ASSUME IInv, NEW m, Deliver(m)
  PROVE  LET o == m.op t == TokenOf(m.op) IN
         /\ m \in inbox /\ m.rev \in Nat /\ m.ok \in BOOLEAN /\ MessageOf(m) /\ RequestOf(o)
         /\ ops[o].action \in Sorts \cup Undos \cup {"metadata"} /\ ops[o].image \in Images
         /\ t \in Known /\ t \in OpIds /\ ops[t].action \in Sorts
         /\ ops[o].action \notin Sorts => t = ops[o].token /\ Done(t) /\ ~Pending(t) /\ t # o /\ ops[t].image = ops[o].image
         /\ ops[o].action \in Sorts => t = o
         /\ told \in [OpIds -> Nat] /\ told' = [told EXCEPT ![t] = IF m.rev >= told[t] THEN m.rev ELSE told[t]]
         /\ told' \in [OpIds -> Nat] /\ \A x \in OpIds : told'[x] >= told[x] /\ (x # t => told'[x] = told[x])
         /\ told'[t] >= m.rev /\ (told'[t] > 0 <=> told[t] > 0 \/ m.rev > 0) /\ (m.rev = 0 => told' = told)
         /\ inbox' = inbox \ {m}
         /\ UNCHANGED <<accepted, present, row, revision, spent, stale, lost, replays, unsure, beside, folder, generation>>
<1> DEFINE o == m.op
           t == TokenOf(m.op)
<1>1. TypeOK /\ m \in inbox
  BY DEF IInv, Deliver
<1>2. /\ o \in Known /\ m.ok \in BOOLEAN /\ m.rev \in Nat /\ Known \subseteq OpIds
      /\ ops[o].action \in Sorts \cup Undos \cup {"metadata"} /\ ops[o].image \in Images
  BY <1>1, OpsFacts
<1>3. RequestOf(o) /\ MessageOf(m)
  BY <1>1, <1>2 DEF IInv, Requests, Messages
<1>4. ops[o].action \in Sorts => t = o
  BY DEF TokenOf
<1>5. ops[o].action \notin Sorts =>
        t = ops[o].token /\ t \in Known /\ ops[t].action \in Sorts /\ Done(t) /\ ops[t].image = ops[o].image
  BY <1>2, <1>3 DEF TokenOf, RequestOf, Refers
<1>6. ops[o].action \notin Sorts => ~Pending(t) /\ t # o
  BY <1>5 DEF Pending, Done
<1>7. t \in OpIds /\ t \in Known /\ ops[t].action \in Sorts
  BY <1>2, <1>4, <1>5
<1>8. told \in [OpIds -> Nat]
  BY <1>1 DEF TypeOK
<1>9. told' = [told EXCEPT ![t] = IF m.rev >= told[t] THEN m.rev ELSE told[t]]
  <2>1. told' = [told EXCEPT ![t] = Max({@, m.rev})]
    BY DEF Deliver
  <2>2. told[t] \in Int /\ m.rev \in Int /\ told[t] \in Nat
    BY <1>2, <1>7, <1>8
  <2>3. Max({told[t], m.rev}) = IF told[t] >= m.rev THEN told[t] ELSE m.rev
    BY <2>2, MaxPair
  <2>4. (IF told[t] >= m.rev THEN told[t] ELSE m.rev) = IF m.rev >= told[t] THEN m.rev ELSE told[t]
    BY <1>2, <2>2
  <2> QED BY <2>1, <2>3, <2>4
<1> HIDE DEF t
<1>10. told' \in [OpIds -> Nat] /\ \A x \in OpIds : told'[x] >= told[x] /\ (x # t => told'[x] = told[x])
  BY <1>2, <1>7, <1>8, <1>9
<1>11. told'[t] >= m.rev /\ (told'[t] > 0 <=> told[t] > 0 \/ m.rev > 0)
  <2>1. told'[t] = IF m.rev >= told[t] THEN m.rev ELSE told[t]
    BY <1>7, <1>8, <1>9
  <2> QED BY <1>2, <1>7, <1>8, <2>1
<1>12. m.rev = 0 => told' = told
  <2> SUFFICES ASSUME m.rev = 0 PROVE \A x \in OpIds : told'[x] = told[x]
    BY <1>8, <1>10
  <2>1. told'[t] = IF m.rev >= told[t] THEN m.rev ELSE told[t]
    BY <1>7, <1>8, <1>9
  <2>2. told'[t] = told[t]
    BY <1>7, <1>8, <2>1
  <2> QED BY <1>10, <2>2
<1>13. inbox' = inbox \ {m}
  BY DEF Deliver
<1>14. UNCHANGED <<accepted, present, row, revision, spent, stale, lost, replays, unsure, beside, folder, generation>>
  BY DEF Deliver, service, OnOperationResult, OnHistory
<1> QED BY <1>1, <1>2, <1>3, <1>4, <1>5, <1>6, <1>7, <1>8, <1>9, <1>10, <1>11, <1>12, <1>13, <1>14 DEF t

\* A revision that a message brings was known before, unless it is the first answer
\* of the sort, or the token is from an earlier session.
LEMMA RevisionKnown ==
  ASSUME IInv, NEW m, Deliver(m), m.rev > 0
  PROVE  LET o == m.op t == TokenOf(m.op) IN
         /\ m.ok /\ row[o] = "ok" /\ ops[o].action \notin Undos /\ revision[t] > 0
         /\ (Pending(o) /\ ops[o].action \in Sorts) \/ told[t] > 0 \/ ops[t].state = "earlier"
         /\ Done(t) \/ (Pending(o) /\ t = o)
<1> DEFINE o == m.op
           t == TokenOf(m.op)
<1>1. /\ MessageOf(m) /\ RequestOf(o) /\ t \in OpIds /\ o \in Known /\ o \in OpIds
      /\ ops[o].action \in Sorts => t = o
      /\ ops[o].action \in Sorts \cup Undos \cup {"metadata"}
      /\ ops[o].action \notin Sorts => t = ops[o].token /\ Done(t) /\ ~Pending(t) /\ t # o
  BY MessageFacts, AnsweringIs
<1>2. m.ok /\ row[o] = "ok" /\ ops[o].action \notin Undos /\ revision[t] > 0
  BY <1>1 DEF MessageOf
<1>3. JournalOf(o) /\ JournalOf(t)
  BY <1>1 DEF IInv, Journal
<1>4. ops[o].state \in {"earlier", "pending", "finished", "error"}
  BY <1>1, OpsFacts DEF IInv
<1>5. CASE ops[o].action \notin Sorts
  <2>1. Done(t)
    BY <1>1, <1>5
  <2>2. told[t] > 0 \/ ops[t].state = "earlier"
    BY <1>2, <1>3, <2>1 DEF Done, JournalOf
  <2> QED BY <1>2, <2>1, <2>2
<1>6. CASE ops[o].action \in Sorts
  <2>1. t = o
    BY <1>1, <1>6
  <2> HIDE DEF t, o
  <2>2. ops[o].state # "error"
    BY <1>2, <1>3 DEF JournalOf
  <2>3. Done(o) \/ Pending(o)
    BY <1>4, <2>2 DEF Done, Pending
  <2>4. Done(o) => told[o] > 0 \/ ops[o].state = "earlier"
    BY <1>2, <1>3, <2>1 DEF Done, JournalOf
  <2> QED BY <1>2, <1>6, <2>1, <2>3, <2>4 DEF o, t
<1> QED BY <1>5, <1>6

\* A delivered message leaves requests, waiting and messages in order.
LEMMA DeliverRequests ==
  ASSUME IInv, NEW m, Deliver(m), Answering(m)
  PROVE  Requests' /\ Waiting' /\ Messages'
<1> DEFINE o == m.op
<1>1. /\ o \in Known /\ o \in OpIds
  BY AnsweringIs
<1>2. /\ Known \subseteq OpIds /\ \A q \in inbox : q.op \in Known
      /\ \A p \in Known : ops[p].rev \in Nat /\ ops[p].action \in Sorts \cup Undos \cup {"metadata"}
  BY OpsFacts DEF IInv
<1>3. \A p \in Known :
                      /\ ops'[p].action = ops[p].action /\ ops'[p].image = ops[p].image
                      /\ ops'[p].gen = ops[p].gen /\ ops'[p].token = ops[p].token /\ ops'[p].rev = ops[p].rev
                      /\ ~Pending(p) => ops'[p].state = ops[p].state
                      /\ p # o => ops'[p].state = ops[p].state
  BY DEF Answering
<1>4. Known' = Known /\ (Pending(o) => ops'[o].state \in {"finished", "error"})
  BY DEF Answering
<1>5. /\ m \in inbox /\ inbox' = inbox \ {m}
      /\ UNCHANGED <<accepted, present, row, revision, spent, stale, lost, replays, unsure, beside, folder, generation>>
      /\ \A x \in OpIds : told'[x] >= told[x] /\ told[x] \in Nat /\ told'[x] \in Nat
  BY MessageFacts
<1>6. \A p \in Known : Done(p) => ops'[p].state = ops[p].state
  BY <1>3 DEF Done, Pending
<1>7. \A p \in Known : Pending(p)' <=> Pending(p) /\ p # o
  <2> SUFFICES ASSUME NEW p \in Known PROVE Pending(p)' <=> Pending(p) /\ p # o
    OBVIOUS
  <2>1. CASE p = o /\ Pending(o)
    BY <1>4, <2>1 DEF Pending
  <2>2. CASE ~Pending(p)
    BY <1>3, <2>2 DEF Pending
  <2>3. CASE p # o
    BY <1>3, <2>3 DEF Pending
  <2> QED BY <2>1, <2>2, <2>3
<1>8. Requests'
  <2> SUFFICES ASSUME NEW p \in Known PROVE RequestOf(p)'
    BY <1>4 DEF Requests
  <2>0. PICK t : t = ops[p].token
    OBVIOUS
  <2>1. RequestOf(p)
    BY DEF IInv, Requests
  <2>2. ops'[p].state = "earlier" => ops[p].state = "earlier"
    BY <1>3, <1>4
  <2>3. /\ ops'[p].action = ops[p].action /\ ops'[p].token = t /\ ops'[p].gen = ops[p].gen
        /\ ops'[p].rev = ops[p].rev /\ ops'[p].image = ops[p].image /\ (Refers(p)' <=> Refers(p))
    BY <1>3, <2>0 DEF Refers
  <2>4. CASE Refers(p)
    <3>1. /\ t \in Known /\ t < p /\ ops[t].action \in Sorts /\ ops[t].image = ops[p].image
          /\ Done(t) /\ ops[p].state # "earlier"
      BY <2>0, <2>1, <2>4 DEF RequestOf
    <3>2. ops'[t].action = ops[t].action /\ ops'[t].image = ops[t].image /\ ops'[t].state = ops[t].state
      BY <1>3, <1>6, <3>1
    <3>3. Done(t)'
      BY <3>1, <3>2 DEF Done
    <3>4. t \in OpIds /\ told'[t] >= told[t] /\ told[t] \in Nat /\ told'[t] \in Nat /\ ops[p].rev \in Nat
      BY <1>2, <1>5, <3>1
    <3>5. ops[p].action \in Undos => ops[p].rev > 0 /\ ops[p].rev <= told[t]
      BY <2>0, <2>1 DEF RequestOf
    <3>6. ops[p].action \in Undos => ops[p].rev > 0 /\ ops[p].rev <= told'[t]
      BY <3>4, <3>5
    <3>7. /\ ops[p].gen <= generation
          /\ ops[p].state = "earlier" => ops[p].action = "move"
          /\ ops[p].action \in Undos => (ops[p].action = "undo_copy" <=> ops[t].action = "copy")
          /\ ops[p].action = "metadata" => ops[t].state = "finished" /\ ops[t].action \in {"move", "copy"}
      BY <2>0, <2>1 DEF RequestOf
    <3>8. ops'[p].state # "earlier"
      BY <2>2, <3>1
    <3> QED BY <1>4, <1>5, <2>3, <2>4, <3>1, <3>2, <3>3, <3>6, <3>7, <3>8 DEF RequestOf
  <2>5. CASE ~Refers(p)
    BY <1>5, <2>1, <2>2, <2>3, <2>5 DEF RequestOf, Refers
  <2> QED BY <2>4, <2>5
<1>9. Waiting'
  <2>1. o \notin ToSet(accepted)
    BY <1>5 DEF IInv, Waiting
  <2>2. \A p \in ToSet(accepted) : p \in Known /\ Pending(p)' /\ row'[p] = "open" /\ \A q \in inbox' : q.op # p
    BY <1>5, <1>7, <2>1 DEF IInv, Waiting
  <2>3. \A p \in Known : Pending(p)' => p \in ToSet(accepted) \/ \E q \in inbox' : q.op = p
    BY <1>5, <1>7 DEF IInv, Waiting
  <2>4. Distinct(accepted)
    BY DEF IInv, Waiting
  <2> QED BY <1>4, <1>5, <2>2, <2>3, <2>4 DEF Waiting
<1>10. Messages'
  <2>1. ASSUME NEW q \in inbox PROVE MessageOf(q)'
    <3>1. MessageOf(q) /\ q.op \in Known
      BY <1>2 DEF IInv, Messages
    <3>2. /\ ops'[q.op].action = ops[q.op].action /\ ops'[q.op].token = ops[q.op].token
          /\ Pending(q.op)' => Pending(q.op)
      BY <1>3, <1>7, <3>1
    <3>3. TokenOf(q.op)' = TokenOf(q.op)
      BY <3>2 DEF TokenOf
    <3> QED BY <1>5, <3>1, <3>2, <3>3 DEF MessageOf
  <2>2. \A p, q \in inbox' : p.op = q.op /\ row'[p.op] = "open" => p = q
    BY <1>5 DEF IInv, Messages
  <2> QED BY <1>5, <2>1, <2>2 DEF Messages
<1> QED BY <1>8, <1>9, <1>10

\* Only the answered operation is no longer out.
LEMMA StillPending ==
  ASSUME IInv, NEW m, Deliver(m), Answering(m)
  PROVE  /\ \A p \in Known : Pending(p)' <=> Pending(p) /\ p # m.op
         /\ \A p \in Known : Done(p) => Done(p)' /\ ops'[p].state = ops[p].state
         /\ \A p \in Known : p # m.op => (Landed(p)' <=> Landed(p))
         /\ ~Landed(m.op)'
         /\ Pending(m.op) => (Landed(m.op) <=> m.ok)
<1> DEFINE o == m.op
<1>1. o \in Known /\ o \in OpIds
  BY AnsweringIs
<1>2. \A p \in Known : /\ ~Pending(p) => ops'[p].state = ops[p].state
                       /\ p # o => ops'[p].state = ops[p].state
  BY DEF Answering
<1>3. Pending(o) => ops'[o].state \in {"finished", "error"}
  BY DEF Answering
<1>4. \A p \in Known : Pending(p)' <=> Pending(p) /\ p # o
  <2> SUFFICES ASSUME NEW p \in Known PROVE Pending(p)' <=> Pending(p) /\ p # o
    OBVIOUS
  <2>1. CASE p = o /\ Pending(o)
    BY <1>3, <2>1 DEF Pending
  <2>2. CASE ~Pending(p)
    BY <1>2, <2>2 DEF Pending
  <2>3. CASE p # o
    BY <1>2, <2>3 DEF Pending
  <2> QED BY <2>1, <2>2, <2>3
<1>5. \A p \in Known : Done(p) => Done(p)' /\ ops'[p].state = ops[p].state
  BY <1>2 DEF Done, Pending
<1>6. inbox' = inbox \ {m} /\ m \in inbox /\ m.ok \in BOOLEAN
  BY MessageFacts
<1>7. \A p \in Known : p # o => (Landed(p)' <=> Landed(p))
  BY <1>4, <1>6 DEF Landed
<1>8. ~Landed(o)'
  BY <1>1, <1>4 DEF Landed
<1>9. Pending(o) => (Landed(o) <=> m.ok)
  <2> SUFFICES ASSUME Pending(o) PROVE Landed(o) <=> m.ok
    OBVIOUS
  <2>1. ASSUME NEW n \in inbox, n.op = o PROVE n.ok <=> m.ok
    <3>1. CASE row[o] = "open"
      BY <1>6, <2>1, <3>1 DEF IInv, Messages
    <3>2. CASE row[o] # "open"
      BY <1>6, <2>1, <3>2 DEF IInv, Messages, MessageOf
    <3> QED BY <3>1, <3>2
  <2> QED BY <1>6, <2>1 DEF Landed
<1> QED BY <1>4, <1>5, <1>7, <1>8, <1>9

\* A token that is told now is the token of a finished sort.
LEMMA DeliverJournal ==
  ASSUME IInv, NEW m, Deliver(m), Answering(m), parents \subseteq parents',
         Pending(m.op) /\ ops[m.op].action \in {"move", "copy"} /\ m.ok /\ m.rev > 0 => m.op \in parents'
  PROVE  Journal' /\ Presence'
<1>0. PICK o : o = m.op
  OBVIOUS
<1>1. PICK t : t = TokenOf(o)
  OBVIOUS
<1>2. /\ o \in Known /\ o \in OpIds /\ t \in OpIds /\ t \in Known /\ m \in inbox /\ ops[t].action \in Sorts
      /\ ops[o].action \notin Sorts => Done(t) /\ ~Pending(t) /\ t # o
      /\ ops[o].action \in Sorts => t = o
      /\ MessageOf(m) /\ m.rev \in Nat
      /\ \A x \in OpIds : told[x] \in Nat /\ told'[x] \in Nat /\ told'[x] >= told[x] /\ (x # t => told'[x] = told[x])
      /\ told'[t] >= m.rev /\ (told'[t] > 0 <=> told[t] > 0 \/ m.rev > 0)
      /\ UNCHANGED <<present, row, revision, spent, stale>>
  BY <1>0, <1>1, MessageFacts, AnsweringIs
<1>3. /\ Known' = Known
      /\ \A p \in Known : /\ ops'[p].action = ops[p].action /\ ops'[p].image = ops[p].image
                          /\ ops'[p].token = ops[p].token
                          /\ p # o => ops'[p].state = ops[p].state
                          /\ ~Pending(p) => ops'[p].state = ops[p].state
      /\ Pending(o) => ops'[o].state = IF m.ok THEN "finished" ELSE "error"
  BY <1>0 DEF Answering
<1>4. /\ \A p \in Known : Done(p) => Done(p)' /\ ops'[p].state = ops[p].state
      /\ \A p \in Known : Landed(p)' => Landed(p)
  BY <1>0, <1>2, StillPending
<1>5. m.rev > 0 => /\ m.ok /\ row[o] = "ok"
                   /\ (Pending(o) /\ ops[o].action \in Sorts) \/ told[t] > 0 \/ ops[t].state = "earlier"
                   /\ Done(t) \/ (Pending(o) /\ t = o)
  BY <1>0, <1>1, RevisionKnown
<1>6. Journal'
  <2> SUFFICES ASSUME NEW x \in OpIds PROVE JournalOf(x)'
    BY DEF Journal
  <2>1. JournalOf(x)
    BY DEF IInv, Journal
  <2>2. row[x] = "ok" => ops'[x].state # "error"
    <3> SUFFICES ASSUME row[x] = "ok" PROVE ops'[x].state # "error"
      OBVIOUS
    <3>1. x \in Known /\ ops[x].state # "error"
      BY <2>1 DEF JournalOf
    <3>2. CASE x = o /\ Pending(o)
      <4>1. m.ok
        BY <1>0, <1>2, <3>2 DEF MessageOf
      <4> QED BY <1>3, <3>2, <4>1
    <3>3. CASE x # o \/ ~Pending(o)
      BY <1>3, <3>1, <3>3
    <3> QED BY <3>2, <3>3
  <2>3. row[x] = "ok" /\ ops[x].action \in Undos => ops'[x].token \in spent
    <3>1. row[x] = "ok" => x \in Known
      BY <2>1 DEF JournalOf
    <3> QED BY <1>3, <2>1, <3>1 DEF JournalOf
  <2>4. revision[x] > 0 => x \in Known /\ ops[x].action \in Sorts /\ row[x] = "ok"
    BY <2>1 DEF JournalOf
  <2>5. revision[x] > 0 /\ ops'[x].state = "finished" => told'[x] > 0
    <3> SUFFICES ASSUME revision[x] > 0, ops'[x].state = "finished" PROVE told'[x] > 0
      OBVIOUS
    <3>1. CASE x = o /\ Pending(o)
      <4>1. t = o /\ row[o] = "ok" /\ ops[o].action \in Sorts
        BY <1>2, <2>4, <3>1
      <4>2. m.rev = revision[o]
        BY <1>0, <1>2, <3>1, <4>1 DEF MessageOf
      <4> QED BY <1>2, <3>1, <4>1, <4>2
    <3>2. CASE x # o \/ ~Pending(o)
      <4>1. ops[x].state = "finished"
        BY <1>3, <2>4, <3>2
      <4>2. told[x] > 0
        BY <2>1, <4>1 DEF JournalOf
      <4> QED BY <1>2, <4>2
    <3> QED BY <3>1, <3>2
  <2>6. x \in spent \cup stale => x \in Known /\ ops[x].action \in Sorts /\ Done(x)'
    BY <1>4, <2>1 DEF JournalOf
  <2>7. told'[x] > 0 => /\ x \in Known /\ ops[x].action \in Sorts /\ Done(x)'
                        /\ ops'[x].state = "finished" /\ ops[x].action # "trash" => x \in parents'
    <3> SUFFICES ASSUME told'[x] > 0
                 PROVE  /\ x \in Known /\ ops[x].action \in Sorts /\ Done(x)'
                        /\ ops'[x].state = "finished" /\ ops[x].action # "trash" => x \in parents'
      OBVIOUS
    <3>1. CASE told[x] > 0
      <4>1. /\ x \in Known /\ ops[x].action \in Sorts /\ Done(x)
            /\ ops[x].state = "finished" /\ ops[x].action # "trash" => x \in parents
        BY <2>1, <3>1 DEF JournalOf
      <4> QED BY <1>4, <4>1
    <3>2. CASE ~(told[x] > 0)
      <4>1. x = t /\ m.rev > 0
        BY <1>2, <3>2
      <4>2. m.ok /\ row[o] = "ok"
        BY <1>5, <4>1
      <4>3. CASE Pending(o) /\ ops[o].action \in Sorts
        <5>1. t = o /\ ops'[o].state = "finished"
          BY <1>2, <1>3, <4>2, <4>3
        <5>2. Done(x)'
          BY <4>1, <5>1 DEF Done
        <5>3. ops[o].action # "trash" => o \in parents'
          BY <1>0, <4>1, <4>2, <4>3 DEF Sorts
        <5> QED BY <1>2, <4>1, <5>1, <5>2, <5>3
      <4>4. CASE ~(Pending(o) /\ ops[o].action \in Sorts)
        <5>1. ops[t].state = "earlier"
          BY <1>5, <3>2, <4>1, <4>4
        <5>2. Done(t)
          BY <5>1 DEF Done
        <5> QED BY <1>2, <1>4, <4>1, <5>1, <5>2
      <4> QED BY <4>3, <4>4
    <3> QED BY <3>1, <3>2
  <2>8. row[x] # "open" => x \in Known
    BY <2>1 DEF JournalOf
  <2> QED BY <1>2, <1>3, <2>2, <2>3, <2>4, <2>5, <2>6, <2>7, <2>8 DEF JournalOf
<1>7. Presence'
  <2>1. ASSUME NEW x \in OpIds, Away(x)' PROVE Away(x) /\ x \in Known /\ ops'[x].image = ops[x].image
    <3>1. revision[x] > 0
      BY <1>2, <2>1 DEF Away
    <3>2. x \in Known
      BY <3>1 DEF IInv, Journal, JournalOf
    <3> QED BY <1>2, <1>3, <2>1, <3>2 DEF Away
  <2>2. /\ \A x \in OpIds : Away(x) => ops[x].image \notin present
        /\ \A x, y \in OpIds : Away(x) /\ Away(y) /\ ops[x].image = ops[y].image => x = y
        /\ \A p \in Known : Landed(p) /\ ops[p].action \in Takes =>
             /\ ops[p].image \notin present
             /\ \A x \in OpIds : Away(x) /\ ops[x].image = ops[p].image => x = p
    BY DEF IInv, Presence
  <2>3. \A x \in OpIds : Away(x)' => ops'[x].image \notin present'
    BY <1>2, <2>1, <2>2
  <2>4. \A x, y \in OpIds : Away(x)' /\ Away(y)' /\ ops'[x].image = ops'[y].image => x = y
    BY <2>1, <2>2
  <2>5. ASSUME NEW p \in Known, Landed(p)', ops'[p].action \in Takes
        PROVE  /\ ops'[p].image \notin present'
               /\ \A x \in OpIds : Away(x)' /\ ops'[x].image = ops'[p].image => x = p
    <3>1. Landed(p) /\ ops[p].action \in Takes /\ ops'[p].image = ops[p].image
      BY <1>3, <1>4, <2>5
    <3> QED BY <1>2, <2>1, <2>2, <3>1
  <2> QED BY <1>3, <2>3, <2>4, <2>5 DEF Presence
<1> QED BY <1>6, <1>7

\* The places of the tokens after the history was changed by at most one of them.
Placed(t, add) ==
  /\ TokensOK(tokens') /\ tokens'.latest = told'
  /\ HistoryIds(tokens') \subseteq HistoryIds(tokens) \cup {t}
  /\ t \in HistoryIds(tokens') <=> t \in HistoryIds(tokens) \/ add
  /\ t \in HistoryIds(tokens') => t \notin tokens'.inflight \cup tokens'.consumed
\* Every token that was told is in one place.
AllPlaced ==
  /\ told' = tokens'.latest /\ OncePerToken(tokens'.history) /\ Newest(tokens'.history, told')
  /\ \A x \in OpIds : told'[x] > 0 <=> x \in Ids' \cup tokens'.inflight \cup tokens'.consumed \cup dropped'
  /\ \A x \in OpIds :
       /\ x \in Ids' => x \notin tokens'.inflight \cup tokens'.consumed \cup dropped'
       /\ x \in tokens'.inflight => x \notin tokens'.consumed \cup dropped'
       /\ x \in tokens'.consumed => x \notin dropped'
\* A change of one token's place leaves every token in one place.
LEMMA PlacesAfter ==
  ASSUME IInv, NEW t \in OpIds, NEW add \in BOOLEAN, Placed(t, add),
         tokens'.inflight \subseteq tokens.inflight, tokens.inflight \subseteq tokens'.inflight \cup {t},
         tokens.consumed \subseteq tokens'.consumed, tokens'.consumed \subseteq tokens.consumed \cup {t},
         t \in tokens'.consumed => t \notin tokens'.inflight /\ t \notin dropped,
         \A x \in OpIds : x # t => told'[x] = told[x],
         told'[t] > 0 <=> t \in HistoryIds(tokens) \cup tokens'.inflight \cup tokens'.consumed \cup dropped \/ add,
         dropped' = (dropped \cup (HistoryIds(tokens) \ (HistoryIds(tokens') \cup tokens'.consumed)))
                       \ HistoryIds(tokens')
  PROVE  AllPlaced
<1> DEFINE H == HistoryIds(tokens)
           J == HistoryIds(tokens')
<1>1. /\ \A x \in OpIds : told[x] > 0 <=> x \in H \cup tokens.inflight \cup tokens.consumed \cup dropped
      /\ \A x \in OpIds :
           /\ x \in H => x \notin tokens.inflight \cup tokens.consumed \cup dropped
           /\ x \in tokens.inflight => x \notin tokens.consumed \cup dropped
           /\ x \in tokens.consumed => x \notin dropped
  BY DEF IInv, Tokens, Ids
<1>2. Ids' = J
  BY DEF Ids, HistoryIds
<1>3. told' = tokens'.latest /\ OncePerToken(tokens'.history) /\ Newest(tokens'.history, told')
  BY DEF Placed, TokensOK, HistoryOK
<1>4. /\ J \subseteq H \cup {t} /\ (t \in J <=> t \in H \/ add)
      /\ t \in J => t \notin tokens'.inflight \cup tokens'.consumed
  BY DEF Placed
<1> HIDE DEF H, J
<1>5. dropped' = (dropped \cup (H \ (J \cup tokens'.consumed))) \ J
  BY DEF H, J
<1>6. \A x \in OpIds :
              /\ x \in J => x \notin tokens'.inflight \cup tokens'.consumed \cup dropped'
              /\ x \in tokens'.inflight => x \notin tokens'.consumed \cup dropped'
              /\ x \in tokens'.consumed => x \notin dropped'
  <2> SUFFICES ASSUME NEW x \in OpIds
               PROVE /\ x \in J => x \notin tokens'.inflight \cup tokens'.consumed \cup dropped'
                     /\ x \in tokens'.inflight => x \notin tokens'.consumed \cup dropped'
                     /\ x \in tokens'.consumed => x \notin dropped'
    OBVIOUS
  <2>1. CASE x # t
    BY <1>1, <1>4, <1>5, <2>1
  <2>2. CASE x = t
    <3>1. t \in tokens'.inflight => t \notin dropped'
      BY <1>1, <1>4, <1>5
    <3>2. t \in tokens'.consumed => t \notin dropped'
      BY <1>5
    <3> QED BY <1>4, <1>5, <2>2, <3>1, <3>2
  <2> QED BY <2>1, <2>2
<1>7. \A x \in OpIds : told'[x] > 0 <=> x \in J \cup tokens'.inflight \cup tokens'.consumed \cup dropped'
  <2> SUFFICES ASSUME NEW x \in OpIds
               PROVE told'[x] > 0 <=> x \in J \cup tokens'.inflight \cup tokens'.consumed \cup dropped'
    OBVIOUS
  <2>1. CASE x # t
    BY <1>1, <1>4, <1>5, <2>1
  <2>2. CASE x = t
    <3>1. told'[t] > 0 <=> t \in H \cup tokens'.inflight \cup tokens'.consumed \cup dropped \/ add
      BY DEF H
    <3> QED BY <1>4, <1>5, <2>2, <3>1
  <2> QED BY <2>1, <2>2
<1> QED BY <1>2, <1>3, <1>6, <1>7 DEF AllPlaced

\* The undos that are still out after a message.
LEMMA UndosOut ==
  ASSUME IInv, NEW m, Deliver(m), Answering(m)
  PROVE  LET o == m.op
             out == {ops'[u].token : u \in {p \in Known' : Pending(p)' /\ ops'[p].action \in Undos}} IN
         /\ ~(Pending(o) /\ ops[o].action \in Undos) => out = tokens.inflight
         /\ Pending(o) /\ ops[o].action \in Undos =>
              out = tokens.inflight \ {ops[o].token} /\ ops[o].token \in tokens.inflight
         /\ \A u, w \in Known' : Pending(u)' /\ Pending(w)' /\ ops'[u].action \in Undos /\ ops'[w].action \in Undos
                                 /\ ops'[u].token = ops'[w].token => u = w
<1> DEFINE o == m.op
           out == {ops'[u].token : u \in {p \in Known' : Pending(p)' /\ ops'[p].action \in Undos}}
<1>1. /\ Known' = Known /\ \A p \in Known : ops'[p].action = ops[p].action /\ ops'[p].token = ops[p].token
  BY DEF Answering
<1>2. \A p \in Known : Pending(p)' <=> Pending(p) /\ p # o
  BY StillPending
<1>3. o \in Known
  BY AnsweringIs
<1>4. /\ tokens.inflight = {ops[u].token : u \in {p \in Known : Pending(p) /\ ops[p].action \in Undos}}
      /\ \A u, w \in Known : Pending(u) /\ Pending(w) /\ ops[u].action \in Undos /\ ops[w].action \in Undos
                             /\ ops[u].token = ops[w].token => u = w
  BY DEF IInv, Tokens
<1>5. \A x : x \in out <=> \E p \in Known : Pending(p) /\ p # o /\ ops[p].action \in Undos /\ ops[p].token = x
  BY <1>1, <1>2
<1>6. \A x : x \in tokens.inflight <=> \E p \in Known : Pending(p) /\ ops[p].action \in Undos /\ ops[p].token = x
  BY <1>4
<1> HIDE DEF out
<1>7. ~(Pending(o) /\ ops[o].action \in Undos) => out = tokens.inflight
  BY <1>5, <1>6
<1>8. Pending(o) /\ ops[o].action \in Undos => out = tokens.inflight \ {ops[o].token} /\ ops[o].token \in tokens.inflight
  <2> SUFFICES ASSUME Pending(o) /\ ops[o].action \in Undos
               PROVE out = tokens.inflight \ {ops[o].token} /\ ops[o].token \in tokens.inflight
    OBVIOUS
  <2>1. \A p \in Known : Pending(p) /\ ops[p].action \in Undos /\ ops[p].token = ops[o].token => p = o
    BY <1>3, <1>4
  <2>2. ops[o].token \in tokens.inflight
    BY <1>3, <1>6
  <2>3. ASSUME NEW x PROVE x \in out <=> x \in tokens.inflight \ {ops[o].token}
    BY <1>5, <1>6, <2>1
  <2> QED BY <2>2, <2>3
<1>9. \A u, w \in Known' : Pending(u)' /\ Pending(w)' /\ ops'[u].action \in Undos /\ ops'[w].action \in Undos
                                 /\ ops'[u].token = ops'[w].token => u = w
  BY <1>1, <1>2, <1>4
<1> QED BY <1>7, <1>8, <1>9 DEF out

\* What the window holds of the tokens before a message.
LEMMA TokensFacts ==
  ASSUME IInv
  PROVE  /\ TokensOK(tokens) /\ told = tokens.latest
         /\ \A x \in OpIds : told[x] > 0 <=> x \in HistoryIds(tokens) \cup tokens.inflight \cup tokens.consumed \cup dropped
         /\ \A x \in OpIds :
              /\ x \in HistoryIds(tokens) => x \notin tokens.inflight \cup tokens.consumed \cup dropped
              /\ x \in tokens.inflight => x \notin tokens.consumed \cup dropped
              /\ x \in tokens.consumed => x \notin dropped
         /\ HistoryIds(tokens) \subseteq OpIds /\ tokens.inflight \subseteq OpIds /\ tokens.consumed \subseteq OpIds
         /\ dropped \subseteq OpIds
         /\ lost = 0 => tokens.consumed \subseteq spent
<1>1. /\ tokens \in [history : Seq(Entry), latest : [OpIds -> Nat], inflight : SUBSET OpIds, consumed : SUBSET OpIds]
      /\ Len(tokens.history) <= MaxHistory /\ dropped \subseteq OpIds
  BY DEF IInv, TypeOK, ViewTypeOK, Entry
<1>2. /\ told = tokens.latest /\ OncePerToken(tokens.history) /\ Newest(tokens.history, told)
  BY DEF IInv, Tokens
<1>3. TokensOK(tokens)
  BY <1>1, <1>2 DEF TokensOK, HistoryOK
<1>4. HistoryIds(tokens) \subseteq OpIds
  <2>1. tokens.history \in Seq(Entry)
    BY <1>1
  <2>2. \A e \in ToSet(tokens.history) : e \in Entry
    <3>1. tokens.history \in [1 .. Len(tokens.history) -> Entry]
      BY <2>1, LenProperties
    <3> QED BY <3>1 DEF ToSet
  <2> QED BY <2>2 DEF HistoryIds, Entry
<1> QED BY <1>1, <1>2, <1>3, <1>4 DEF IInv, Tokens, Ids

\* A revision is remembered for a token that is offered or new, or kept for one that is not.
LEMMA RememberPlaces ==
  ASSUME IInv, NEW k, NEW t \in OpIds, NEW rev \in Nat, NEW add \in BOOLEAN,
         k = [tokens EXCEPT !.inflight = @ \ {t}] \/ k = tokens,
         rev > 0 \/ told[t] > 0, tokens' = Remember(k, t, rev, add),
         told' = [told EXCEPT ![t] = IF rev >= told[t] THEN rev ELSE told[t]],
         ~add => told[t] > 0,
         dropped' = (dropped \cup (HistoryIds(tokens) \ (HistoryIds(tokens') \cup tokens'.consumed)))
                       \ HistoryIds(tokens'),
         k # tokens => add /\ t \in tokens.inflight
  PROVE  /\ tokens'.inflight = k.inflight /\ tokens'.consumed = tokens.consumed /\ TokensOK(tokens')
         /\ AllPlaced
<1>1. /\ TokensOK(tokens) /\ told = tokens.latest
      /\ \A x \in OpIds : told[x] > 0 <=> x \in HistoryIds(tokens) \cup tokens.inflight \cup tokens.consumed \cup dropped
      /\ \A x \in OpIds :
              /\ x \in HistoryIds(tokens) => x \notin tokens.inflight \cup tokens.consumed \cup dropped
              /\ x \in tokens.inflight => x \notin tokens.consumed \cup dropped
              /\ x \in tokens.consumed => x \notin dropped
  BY TokensFacts
<1>2. /\ tokens \in [history : Seq(Entry), latest : [OpIds -> Nat], inflight : SUBSET OpIds, consumed : SUBSET OpIds]
      /\ HistoryOK(tokens.history) /\ Newest(tokens.history, tokens.latest) /\ told \in [OpIds -> Nat]
  BY <1>1 DEF TokensOK
<1>3. /\ k.history = tokens.history /\ k.latest = tokens.latest /\ k.consumed = tokens.consumed
      /\ k.inflight \subseteq tokens.inflight /\ tokens.inflight \subseteq k.inflight \cup {t}
      /\ k # tokens => t \notin k.inflight
      /\ k \in [history : Seq(Entry), latest : [OpIds -> Nat], inflight : SUBSET OpIds, consumed : SUBSET OpIds]
  BY <1>2
<1>4. TokensOK(k) /\ HistoryIds(k) = HistoryIds(tokens)
  BY <1>2, <1>3 DEF TokensOK, HistoryIds
<1>5. PICK r : r = Remember(k, t, rev, add)
  OBVIOUS
<1>6. t \in k.consumed \cup k.inflight => t \notin HistoryIds(k)
  BY <1>1, <1>3, <1>4
<1>7. rev > 0 \/ k.latest[t] > 0
  BY <1>1, <1>3
<1>8. /\ TokensOK(r) /\ r.inflight = k.inflight /\ r.consumed = k.consumed
      /\ r.latest = [k.latest EXCEPT ![t] = IF rev >= k.latest[t] THEN rev ELSE k.latest[t]]
      /\ t \in k.consumed \cup k.inflight => HistoryIds(r) = HistoryIds(k)
      /\ t \in HistoryIds(k) => HistoryIds(r) = HistoryIds(k)
      /\ ~add => HistoryIds(r) = HistoryIds(k)
      /\ t \notin k.consumed \cup k.inflight /\ add =>
              t \in HistoryIds(r) /\ HistoryIds(r) \subseteq HistoryIds(k) \cup {t}
  BY <1>4, <1>5, <1>6, <1>7, RememberIs
<1>9. tokens' = r
  BY <1>5
<1>10. told' = r.latest
  BY <1>1, <1>3, <1>8
<1>11. /\ \A x \in OpIds : x # t => told'[x] = told[x]
       /\ told'[t] > 0
  <2>1. told'[t] = IF rev >= told[t] THEN rev ELSE told[t]
    BY <1>2
  <2>2. told[t] \in Nat
    BY <1>2
  <2> QED BY <1>2, <2>1, <2>2
<1>12. PICK new \in BOOLEAN : new <=> add /\ t \notin k.consumed \cup k.inflight
  OBVIOUS
<1>13. HistoryIds(tokens') = HistoryIds(r)
  BY <1>9
<1>14. Placed(t, new)
  <2>1. t \in HistoryIds(r) <=> t \in HistoryIds(tokens) \/ new
    BY <1>4, <1>8, <1>12
  <2>2. HistoryIds(r) \subseteq HistoryIds(tokens) \cup {t}
    BY <1>4, <1>8
  <2>3. t \in HistoryIds(r) => t \notin r.inflight \cup r.consumed
    BY <1>4, <1>6, <1>8, <1>12, <2>1
  <2> QED BY <1>8, <1>9, <1>10, <1>13, <2>1, <2>2, <2>3 DEF Placed
<1>15. told'[t] > 0 <=> t \in HistoryIds(tokens) \cup tokens'.inflight \cup tokens'.consumed \cup dropped \/ new
  <2>1. told[t] > 0 => t \in HistoryIds(tokens) \cup tokens.inflight \cup tokens.consumed \cup dropped
    BY <1>1
  <2>2. CASE add
    BY <1>3, <1>8, <1>9, <1>11, <1>12, <2>2
  <2>3. CASE ~add
    <3>1. k = tokens
      BY <2>3
    <3> QED BY <1>8, <1>9, <1>11, <2>1, <2>3, <3>1
  <2> QED BY <2>2, <2>3
<1>16. /\ tokens'.inflight \subseteq tokens.inflight /\ tokens.inflight \subseteq tokens'.inflight \cup {t}
       /\ tokens.consumed \subseteq tokens'.consumed /\ tokens'.consumed \subseteq tokens.consumed \cup {t}
       /\ t \in tokens'.consumed => t \notin tokens'.inflight /\ t \notin dropped
  BY <1>1, <1>3, <1>8, <1>9
<1>17. AllPlaced
  BY <1>11, <1>14, <1>15, <1>16, PlacesAfter
<1> QED BY <1>3, <1>8, <1>9, <1>17

\* How a message is taken into the undo history.
LEMMA TokensStep ==
  ASSUME IInv, NEW m, Deliver(m), NEW o, o = m.op, NEW t, t = TokenOf(o)
  PROVE  \/ m.rev > 0 /\ ~(Pending(o) /\ ops[o].action \in Undos)
            /\ \E add \in BOOLEAN : tokens' = Remember(tokens, t, m.rev, add) /\ (~add => told[t] > 0)
         \/ m.rev = 0 /\ ~(Pending(o) /\ ops[o].action \in Undos) /\ tokens' = tokens
         \/ m.rev = 0 /\ Pending(o) /\ ops[o].action \in Undos /\ t = ops[o].token /\ tokens' = Settled(tokens, o, m.ok)
<1>1. /\ o \in Known /\ m.rev \in Nat /\ RequestOf(o) /\ MessageOf(m)
      /\ ops[o].action \in Sorts \cup Undos \cup {"metadata"}
      /\ ops[o].action \in Sorts => t = o
      /\ ops[o].action \notin Sorts => t = ops[o].token
  BY MessageFacts, AnsweringIs
<1>2. m.rev > 0 => m.ok /\ ops[o].action \notin Undos
  BY <1>1 DEF MessageOf
<1>3. m.rev > 0 \/ m.rev = 0
  BY <1>1
<1>4. CASE Pending(o)
  <2>1. tokens' = CASE ops[o].action \in Undos -> Settled(tokens, o, m.ok)
                 [] ops[o].action \in Sorts /\ m.ok /\ m.rev > 0 -> Remember(tokens, o, m.rev, TRUE)
                 [] ops[o].action = "metadata" /\ m.ok /\ m.rev > 0 -> Remember(tokens, ops[o].token, m.rev, FALSE)
                 [] OTHER -> tokens
    BY <1>4 DEF Deliver, OnOperationResult, Pending
  <2>2. CASE ops[o].action \in Undos
    <3>1. tokens' = Settled(tokens, o, m.ok)
      BY <2>1, <2>2 DEF Undos, Sorts
    <3>2. ops[o].action \notin Sorts
      BY <2>2 DEF Undos, Sorts
    <3> QED BY <1>1, <1>2, <1>3, <1>4, <2>2, <3>1, <3>2
  <2>3. CASE ops[o].action \in Sorts /\ m.rev > 0
    <3>1. tokens' = Remember(tokens, o, m.rev, TRUE)
      BY <1>2, <2>1, <2>3 DEF Undos, Sorts
    <3> QED BY <1>1, <1>2, <2>3, <3>1
  <2>4. CASE ops[o].action = "metadata" /\ m.rev > 0
    <3>1. tokens' = Remember(tokens, ops[o].token, m.rev, FALSE)
      BY <1>2, <2>1, <2>4 DEF Undos, Sorts
    <3>2. t = ops[o].token
      BY <1>1, <2>4 DEF Sorts
    <3>3. ops[t].state = "finished"
      BY <1>1, <2>4, <3>2 DEF RequestOf
    <3>4. told[t] > 0
      BY <2>4, <3>3, RevisionKnown DEF Sorts
    <3> QED BY <1>2, <2>4, <3>1, <3>2, <3>4
  <2>5. CASE ops[o].action \notin Undos /\ ~(m.rev > 0)
    <3>1. tokens' = tokens
      BY <2>1, <2>5
    <3> QED BY <1>3, <2>5, <3>1
  <2> QED BY <1>1, <2>2, <2>3, <2>4, <2>5
<1>5. CASE ~Pending(o)
  <2>1. tokens' = IF m.rev > 0 THEN Remember(tokens, t, m.rev, TRUE) ELSE tokens
    BY <1>5 DEF Deliver, OnHistory, Pending
  <2> QED BY <1>3, <1>5, <2>1
<1> QED BY <1>4, <1>5

\* The tokens after a message.
LEMMA DeliverTokens ==
  ASSUME IInv, NEW m, Deliver(m), Answering(m)
  PROVE  Tokens' /\ TokensOK(tokens') /\ dropped' \subseteq OpIds
<1>0. PICK o : o = m.op
  OBVIOUS
<1>1. PICK t : t = TokenOf(o)
  OBVIOUS
<1>2. PICK out : out = {ops'[u].token : u \in {p \in Known' : Pending(p)' /\ ops'[p].action \in Undos}}
  OBVIOUS
<1>3. /\ o \in Known /\ t \in OpIds /\ m.rev \in Nat /\ RequestOf(o) /\ MessageOf(m) /\ m.ok \in BOOLEAN
      /\ told \in [OpIds -> Nat] /\ told' = [told EXCEPT ![t] = IF m.rev >= told[t] THEN m.rev ELSE told[t]]
      /\ m.rev = 0 => told' = told
      /\ UNCHANGED <<spent, lost>>
  BY <1>0, <1>1, MessageFacts, AnsweringIs
<1>4. /\ ~(Pending(o) /\ ops[o].action \in Undos) => out = tokens.inflight
      /\ Pending(o) /\ ops[o].action \in Undos => out = tokens.inflight \ {ops[o].token} /\ ops[o].token \in tokens.inflight
      /\ \A u, w \in Known' : Pending(u)' /\ Pending(w)' /\ ops'[u].action \in Undos /\ ops'[w].action \in Undos
                                 /\ ops'[u].token = ops'[w].token => u = w
  BY <1>0, <1>2, UndosOut
<1>5. /\ TokensOK(tokens) /\ told = tokens.latest
      /\ \A x \in OpIds : told[x] > 0 <=> x \in HistoryIds(tokens) \cup tokens.inflight \cup tokens.consumed \cup dropped
      /\ \A x \in OpIds :
              /\ x \in HistoryIds(tokens) => x \notin tokens.inflight \cup tokens.consumed \cup dropped
              /\ x \in tokens.inflight => x \notin tokens.consumed \cup dropped
              /\ x \in tokens.consumed => x \notin dropped
      /\ HistoryIds(tokens) \subseteq OpIds /\ dropped \subseteq OpIds
      /\ lost = 0 => tokens.consumed \subseteq spent
  BY TokensFacts
<1>6. dropped' = (dropped \cup (HistoryIds(tokens) \ (HistoryIds(tokens') \cup tokens'.consumed))) \ HistoryIds(tokens')
  BY DEF Deliver
<1>7. dropped' \subseteq OpIds
  BY <1>5, <1>6
<1>8. SUFFICES /\ tokens'.inflight = out /\ TokensOK(tokens')
               /\ lost = 0 => tokens'.consumed \subseteq spent
               /\ AllPlaced
  BY <1>2, <1>3, <1>4, <1>7 DEF Tokens, AllPlaced
<1>9. CASE m.rev > 0 /\ ~(Pending(o) /\ ops[o].action \in Undos)
           /\ \E add \in BOOLEAN : tokens' = Remember(tokens, t, m.rev, add) /\ (~add => told[t] > 0)
  <2>1. PICK add \in BOOLEAN : tokens' = Remember(tokens, t, m.rev, add) /\ (~add => told[t] > 0)
    BY <1>9
  <2>2. /\ tokens'.inflight = tokens.inflight /\ tokens'.consumed = tokens.consumed /\ TokensOK(tokens')
         /\ AllPlaced
    BY <1>3, <1>6, <1>9, <2>1, RememberPlaces
  <2> QED BY <1>4, <1>5, <1>9, <2>2
<1>10. CASE m.rev = 0 /\ ~(Pending(o) /\ ops[o].action \in Undos) /\ tokens' = tokens
  <2>1. Ids' = HistoryIds(tokens) /\ dropped' = dropped /\ told' = told
    BY <1>3, <1>5, <1>6, <1>10 DEF Ids, HistoryIds
  <2> QED BY <1>4, <1>5, <1>10, <2>1 DEF TokensOK, HistoryOK, AllPlaced
<1>11. CASE m.rev = 0 /\ Pending(o) /\ ops[o].action \in Undos /\ t = ops[o].token /\ tokens' = Settled(tokens, o, m.ok)
  <2>1. PICK k : k = [tokens EXCEPT !.inflight = @ \ {t}]
    OBVIOUS
  <2>2. /\ tokens \in [history : Seq(Entry), latest : [OpIds -> Nat], inflight : SUBSET OpIds, consumed : SUBSET OpIds]
        /\ HistoryOK(tokens.history) /\ Newest(tokens.history, tokens.latest)
    BY <1>5 DEF TokensOK
  <2>3. t \in tokens.inflight /\ out = tokens.inflight \ {t} /\ k.inflight = tokens.inflight \ {t}
        /\ k.history = tokens.history /\ k.consumed = tokens.consumed /\ k.latest = tokens.latest
    BY <1>4, <1>11, <2>1, <2>2
  <2>4. CASE m.ok
    <3>1. tokens' = [k EXCEPT !.consumed = @ \cup {t}, !.history = Without(tokens, t)]
      BY <1>11, <2>1, <2>4 DEF Settled
    <3>2. PICK w : w = Without(tokens, t)
      OBVIOUS
    <3>3. HistoryOK(w) /\ ToSet(w) \subseteq ToSet(tokens.history) /\ IdsOf(w) = IdsOf(tokens.history) \ {t}
      BY <2>2, <3>2, WithoutIs
    <3>4. /\ tokens'.history = w /\ tokens'.consumed = tokens.consumed \cup {t} /\ tokens'.inflight = tokens.inflight \ {t}
          /\ tokens'.latest = tokens.latest
          /\ tokens' \in [history : Seq(Entry), latest : [OpIds -> Nat], inflight : SUBSET OpIds, consumed : SUBSET OpIds]
      BY <1>3, <2>1, <2>2, <3>1, <3>2, <3>3 DEF HistoryOK
    <3>5. Newest(w, tokens.latest)
      BY <2>2, <3>3 DEF Newest
    <3>6. TokensOK(tokens')
      BY <3>3, <3>4, <3>5 DEF TokensOK
    <3>7. HistoryIds(tokens') = HistoryIds(tokens)
      <4>1. HistoryIds(tokens') = IdsOf(w) /\ HistoryIds(tokens) = IdsOf(tokens.history)
        BY <3>4 DEF HistoryIds, IdsOf
      <4>2. t \notin HistoryIds(tokens)
        BY <1>3, <1>5, <2>3
      <4> QED BY <3>3, <4>1, <4>2
    <3>8. dropped' = dropped /\ told' = told /\ Ids' = HistoryIds(tokens)
      BY <1>3, <1>5, <1>6, <1>11, <3>7 DEF Ids, HistoryIds
    <3>9. lost = 0 => t \in spent
      BY <1>0, <1>3, <1>11, <2>4 DEF MessageOf
    <3>10. told' = tokens'.latest /\ OncePerToken(tokens'.history) /\ Newest(tokens'.history, told')
      BY <1>5, <3>3, <3>4, <3>5, <3>8 DEF HistoryOK
    <3>11. \A x \in OpIds : told'[x] > 0 <=> x \in Ids' \cup tokens'.inflight \cup tokens'.consumed \cup dropped'
      BY <1>5, <2>3, <3>4, <3>8
    <3>12. \A x \in OpIds :
             /\ x \in Ids' => x \notin tokens'.inflight \cup tokens'.consumed \cup dropped'
             /\ x \in tokens'.inflight => x \notin tokens'.consumed \cup dropped'
             /\ x \in tokens'.consumed => x \notin dropped'
      BY <1>3, <1>5, <2>3, <3>4, <3>8
    <3>13. AllPlaced
      BY <3>10, <3>11, <3>12 DEF AllPlaced
    <3> QED BY <1>5, <2>3, <3>4, <3>6, <3>9, <3>13
  <2>5. CASE ~m.ok
    <3>1. tokens' = Remember(k, t, ops[o].rev, TRUE)
      BY <1>11, <2>1, <2>5 DEF Settled
    <3>2. ops[o].rev > 0 /\ ops[o].rev <= told[t] /\ ops[o].rev \in Nat
      <4>1. ops[o].rev > 0 /\ ops[o].rev <= told[t]
        BY <1>3, <1>11 DEF RequestOf
      <4>2. ops[o].rev \in Nat
        BY <1>3, OpsFacts DEF IInv
      <4> QED BY <4>1, <4>2
    <3>3. told' = [told EXCEPT ![t] = IF ops[o].rev >= told[t] THEN ops[o].rev ELSE told[t]]
      <4>1. PICK v : v = IF ops[o].rev >= told[t] THEN ops[o].rev ELSE told[t]
        OBVIOUS
      <4>2. told[t] \in Nat
        BY <1>3
      <4>3. v = told[t]
        BY <3>2, <4>1, <4>2
      <4>4. [told EXCEPT ![t] = v] = told
        BY <1>3, <4>3
      <4> QED BY <1>3, <1>11, <4>1, <4>4
    <3>4. /\ tokens'.inflight = k.inflight /\ tokens'.consumed = tokens.consumed /\ TokensOK(tokens')
         /\ AllPlaced
      BY <1>3, <1>6, <2>1, <2>3, <3>1, <3>2, <3>3, RememberPlaces
    <3> QED BY <1>5, <2>3, <3>4
  <2> QED BY <1>3, <2>4, <2>5
<1> QED BY <1>0, <1>1, <1>9, <1>10, <1>11, TokensStep
-----------------------------------------------------------------------------
(* The GUI thread receives: queue, held image and tagging.                  *)

\* How a message changes the queue and what is held on the screen.
Keeps(o, ok) ==
  /\ view'.images = view.images /\ view'.held = view.held
  /\ Pending(o) /\ ops[o].gen = generation =>
       /\ ops[o].action \notin Takes
       /\ ~(ops[o].action = "undo_move" /\ ok /\ Library[ops[o].image] = folder)
\* The image leaves the queue.
Removes(o) ==
  /\ ToSet(view'.images) = Queue \ {ops[o].image}
  /\ view'.held = NoHold <=> view.held = NoHold
  /\ view'.held.op = view.held.op /\ view'.held.image = view.held.image
  /\ view.held.op # o => view'.held.completed = view.held.completed
  /\ view.held # NoHold /\ view.held.op = o => view'.held.completed
  /\ \E k \in Positions(view.images) :
       /\ At(view.images, k) = ops[o].image /\ Len(view'.images) = Len(view.images) - 1
       /\ \A j \in Positions(view'.images) :
            At(view'.images, j) = IF j < k THEN At(view.images, j) ELSE At(view.images, j + 1)
       /\ view'.held.index = GapAfter(view, k)
\* The image is back.
Brings(o) ==
  ToSet(view'.images) = Queue \cup {ops[o].image} /\ view'.held = NoHold
\* A failed sort's image, which never left, is offered again.
Offers(o) ==
  /\ view'.images = view.images /\ view'.held \in {view.held, NoHold}
  /\ view'.held # NoHold => view.held.op # o

\* The view after the success of a sort.
LEMMA RemovesIs ==
  ASSUME IInv, NEW o \in Known, ops[o].image \in Queue, NEW v, NEW P,
         v = IF view.held # NoHold /\ view.held.op = o THEN [view EXCEPT !.held.completed = TRUE] ELSE view,
         view' = ShowImage(RemoveImage(v, ops[o].image, P), P)
  PROVE  Good(view') /\ Distinct(view'.images) /\ Removes(o)
<1>1. PICK i : i = ops[o].image
  OBVIOUS
<1>2. PICK w : w = RemoveImage(v, i, P)
  OBVIOUS
<1>3. Good(view) /\ Distinct(view.images)
  BY DEF IInv, TypeOK, ViewTypeOK, Good, View, Queueing
<1>4. /\ Good(v) /\ v.images = view.images /\ (v.held = NoHold <=> view.held = NoHold)
      /\ v.held.op = view.held.op /\ v.held.image = view.held.image /\ v.held.index = view.held.index
      /\ view.held.op # o => v.held.completed = view.held.completed
      /\ view.held # NoHold /\ view.held.op = o => v.held.completed
  <2>1. CASE view.held # NoHold /\ view.held.op = o
    <3>1. v = [view EXCEPT !.held.completed = TRUE] /\ view.held \in Hold
      BY <1>3, <2>1 DEF Good, View
    <3>2. v.held = [view.held EXCEPT !.completed = TRUE] /\ v.images = view.images /\ v.current = view.current
      BY <1>3, <3>1 DEF Good, View
    <3>3. /\ v.held \in Hold /\ v.held.op = view.held.op /\ v.held.image = view.held.image
          /\ v.held.index = view.held.index /\ v.held.completed
      BY <3>1, <3>2 DEF Hold
    <3>4. v \in View
      BY <1>3, <3>1, <3>2, <3>3 DEF Good, View
    <3>5. v.held # NoHold
      BY <3>3 DEF Hold, NoHold, OpIds
    <3> QED BY <1>3, <2>1, <3>2, <3>3, <3>4, <3>5 DEF Good
  <2>2. CASE ~(view.held # NoHold /\ view.held.op = o)
    <3>1. v = view
      BY <2>2
    <3> QED BY <1>3, <2>2, <3>1
  <2> QED BY <2>1, <2>2
<1>5. Distinct(v.images) /\ i \in ToSet(v.images)
  BY <1>1, <1>3, <1>4 DEF Queue
<1>6. /\ Good(w) /\ Distinct(w.images) /\ ToSet(w.images) = ToSet(v.images) \ {i}
      /\ w.held.op = v.held.op /\ w.held.image = v.held.image /\ w.held.completed = v.held.completed
      /\ (w.held = NoHold <=> v.held = NoHold)
  <2>1. Good(v)
    BY <1>4
  <2> QED BY ONLY <1>2, <1>5, <2>1, RemoveImageIs
<1>9. PICK k \in Positions(v.images) :
                /\ At(v.images, k) = i /\ Len(w.images) = Len(v.images) - 1
                /\ \A j \in Positions(w.images) : At(w.images, j) = IF j < k THEN At(v.images, j) ELSE At(v.images, j + 1)
                /\ w.held.index = GapAfter(v, k)
  <2>1. \E k \in Positions(v.images) :
                /\ At(v.images, k) = i /\ Len(w.images) = Len(v.images) - 1
                /\ \A j \in Positions(w.images) : At(w.images, j) = IF j < k THEN At(v.images, j) ELSE At(v.images, j + 1)
                /\ w.held.index = GapAfter(v, k)
                /\ v.held = NoHold /\ v.current \in Positions(v.images) /\ k # v.current
                     /\ At(v.images, v.current) \notin P
                   => w.current \in Positions(w.images) /\ At(w.images, w.current) = At(v.images, v.current)
    <3>1. Good(v)
      BY <1>4
    <3> QED BY ONLY <1>2, <1>5, <3>1, RemoveImageIs
  <2> QED BY <2>1
<1>7. Good(view') /\ view'.images = w.images /\ view'.held = w.held
  BY <1>1, <1>2, <1>6, ShowImageIs
<1>8. \A n : GapAfter(v, n) = GapAfter(view, n)
  BY <1>4 DEF GapAfter
<1>10. ToSet(view'.images) = Queue \ {i} /\ Distinct(view'.images)
  BY <1>4, <1>6, <1>7 DEF Queue
<1>11. /\ k \in Positions(view.images) /\ At(view.images, k) = i /\ Len(view'.images) = Len(view.images) - 1
       /\ \A j \in Positions(view'.images) :
            At(view'.images, j) = IF j < k THEN At(view.images, j) ELSE At(view.images, j + 1)
       /\ view'.held.index = GapAfter(view, k)
  BY <1>4, <1>7, <1>8, <1>9
<1>12. /\ (view'.held = NoHold <=> view.held = NoHold)
       /\ view'.held.op = view.held.op /\ view'.held.image = view.held.image
       /\ view.held.op # o => view'.held.completed = view.held.completed
       /\ view.held # NoHold /\ view.held.op = o => view'.held.completed
  BY <1>4, <1>6, <1>7
<1> QED BY <1>1, <1>7, <1>10, <1>11, <1>12 DEF Removes

\* What a message does to the view.
LEMMA ViewStep ==
  ASSUME IInv, NEW m, Deliver(m), NEW o, o = m.op
  PROVE  /\ Good(view') /\ Distinct(view'.images)
         /\ \/ Keeps(o, m.ok)
            \/ Pending(o) /\ ops[o].gen = generation /\ ops[o].action \in Takes /\ m.ok /\ Removes(o)
            \/ Pending(o) /\ ops[o].gen = generation /\ ops[o].action = "undo_move" /\ m.ok
                 /\ Library[ops[o].image] = folder /\ Brings(o)
            \/ Pending(o) /\ ops[o].gen = generation /\ ops[o].action \in Takes /\ ~m.ok /\ Offers(o)
<1>1. Good(view) /\ Distinct(view.images)
  BY DEF IInv, TypeOK, ViewTypeOK, Good, View, Queueing
<1>2. o \in Known /\ ops[o].image \in Images /\ ops[o].index \in Int
      /\ ops[o].action \in Sorts \cup Undos \cup {"metadata"}
  BY AnsweringIs, OpsFacts DEF IInv
<1>3. CASE ~(Pending(o) /\ ops[o].gen = generation /\ ops[o].action # "metadata")
  <2>1. view' = view
    BY <1>3 DEF Deliver, OnOperationResult, OnHistory, CurrentView, Pending
  <2>2. Keeps(o, m.ok)
    BY <1>3, <2>1 DEF Keeps, Takes
  <2> QED BY <1>1, <2>1, <2>2
<1>4. CASE Pending(o) /\ ops[o].gen = generation /\ ops[o].action # "metadata"
  <2>1. PICK P : P = PendingImages(ops')
    OBVIOUS
  <2>2. view' = Settle(view, o, m.ok, P)
    BY <1>4, <2>1 DEF Deliver, OnOperationResult, CurrentView, Pending
  <2>3. ops[o].action \in Takes => ops[o].image \in Queue /\ Library[ops[o].image] = folder
    BY <1>2, <1>4 DEF IInv, Queueing
  <2>4. CASE ops[o].action \in Takes /\ m.ok
    <3>1. PICK v : v = IF view.held # NoHold /\ view.held.op = o THEN [view EXCEPT !.held.completed = TRUE] ELSE view
      OBVIOUS
    <3>2. view' = ShowImage(RemoveImage(v, ops[o].image, P), P)
      BY <2>2, <2>4, <3>1 DEF Settle, Takes
    <3>3. Good(view') /\ Distinct(view'.images) /\ Removes(o)
      BY <1>2, <2>3, <2>4, <3>1, <3>2, RemovesIs
    <3> QED BY <1>4, <2>4, <3>3
  <2>5. CASE ops[o].action = "undo_move" /\ m.ok /\ Library[ops[o].image] = folder
    <3>1. PICK v : v = [view EXCEPT !.held = NoHold]
      OBVIOUS
    <3>2. view' = BringBack(v, ops[o].image, ops[o].index, P)
      BY <2>2, <2>5, <3>1 DEF Settle
    <3>3. Good(v) /\ v.images = view.images /\ v.held = NoHold
      BY <1>1, <3>1 DEF Good, View
    <3>4. /\ Good(view') /\ Distinct(view'.images) /\ ToSet(view'.images) = ToSet(v.images) \cup {ops[o].image}
          /\ (view'.held = NoHold <=> v.held = NoHold)
      <4>1. PICK w : w = BringBack(v, ops[o].image, ops[o].index, P)
        OBVIOUS
      <4>2. /\ Good(w) /\ Distinct(w.images) /\ ToSet(w.images) = ToSet(v.images) \cup {ops[o].image}
            /\ (w.held = NoHold <=> v.held = NoHold)
        <5>1. Good(v) /\ Distinct(v.images)
          BY <1>1, <3>3
        <5>2. PICK i \in Images, n \in Int : i = ops[o].image /\ n = ops[o].index
          BY <1>2
        <5>3. PICK b : b = BringBack(v, i, n, P)
          OBVIOUS
        <5>4. /\ Good(b) /\ Distinct(b.images) /\ ToSet(b.images) = ToSet(v.images) \cup {i}
              /\ (b.held = NoHold <=> v.held = NoHold)
          BY ONLY <5>1, <5>3, BringBackIs
        <5> QED BY <4>1, <5>2, <5>3, <5>4
      <4> QED BY <3>2, <4>1, <4>2
    <3>5. Brings(o)
      BY <3>3, <3>4 DEF Brings, Queue
    <3> QED BY <1>4, <2>5, <3>4, <3>5
  <2>6. CASE ops[o].action \in Takes /\ ~m.ok
    <3>1. PICK v : v = IF view.held # NoHold /\ view.held.op = o THEN [view EXCEPT !.held = NoHold] ELSE view
      OBVIOUS
    <3>2. view' = BringBack(v, ops[o].image, ops[o].index, P)
      BY <2>2, <2>3, <2>6, <3>1 DEF Settle, Takes
    <3>3. Good(v) /\ v.images = view.images /\ v.held \in {view.held, NoHold} /\ (v.held # NoHold => view.held.op # o)
      BY <1>1, <3>1 DEF Good, View
    <3>4. /\ Good(view') /\ Distinct(view'.images)
          /\ view'.images = v.images /\ view'.held = v.held
      BY <1>1, <1>2, <2>3, <2>6, <3>2, <3>3, BringBackIs DEF Queue
    <3>5. Offers(o)
      BY <3>3, <3>4 DEF Offers
    <3> QED BY <1>4, <2>6, <3>4, <3>5
  <2>7. CASE ops[o].action \notin Takes /\ ~(ops[o].action = "undo_move" /\ m.ok /\ Library[ops[o].image] = folder)
    <3>1. view' = ShowImage(view, P)
      BY <2>2, <2>7 DEF Settle, Takes
    <3>2. Good(view') /\ view'.images = view.images /\ view'.held = view.held
      BY <1>1, <3>1, ShowImageIs
    <3>3. Keeps(o, m.ok)
      BY <2>7, <3>2 DEF Keeps
    <3> QED BY <1>1, <3>2, <3>3
  <2> QED BY <2>4, <2>5, <2>6, <2>7
<1> QED BY <1>3, <1>4

\* The queue and the folder differ by one success less.
LEMMA DeliverView ==
  ASSUME IInv, NEW m, Deliver(m), Answering(m)
  PROVE  Queueing' /\ Truth'
<1>0. PICK o, i : o = m.op /\ i = ops[o].image
  OBVIOUS
<1>1. /\ o \in Known /\ Known' = Known /\ i \in Images
      /\ \A p \in Known : ops'[p].action = ops[p].action /\ ops'[p].image = ops[p].image /\ ops'[p].gen = ops[p].gen
      /\ UNCHANGED <<folder, generation, unsure, present>>
      /\ \A p \in Known : Pending(p)' <=> Pending(p) /\ p # o
      /\ \A p \in Known : p # o => (Landed(p)' <=> Landed(p))
      /\ ~Landed(o)'
      /\ Pending(o) => (Landed(o) <=> m.ok)
  BY <1>0, AnsweringIs, MessageFacts, StillPending DEF Answering
<1>2. /\ Distinct(view'.images)
      /\ \/ Keeps(o, m.ok)
         \/ Pending(o) /\ ops[o].gen = generation /\ ops[o].action \in Takes /\ m.ok /\ Removes(o)
         \/ Pending(o) /\ ops[o].gen = generation /\ ops[o].action = "undo_move" /\ m.ok
              /\ Library[ops[o].image] = folder /\ Brings(o)
         \/ Pending(o) /\ ops[o].gen = generation /\ ops[o].action \in Takes /\ ~m.ok /\ Offers(o)
  BY <1>0, ViewStep
<1>3. /\ \A j \in Queue : Library[j] = folder
      /\ \A p \in Known : Pending(p) /\ ops[p].action \in Takes /\ ops[p].gen = generation => ops[p].image \in Queue
      /\ \A p, q \in Known : Pending(p) /\ Pending(q) /\ ops[p].action \in Sorts /\ ops[q].action \in Sorts
                         /\ ops[p].image = ops[q].image => p = q
  BY DEF IInv, Queueing
<1>4. Takes \subseteq Sorts /\ "undo_move" \notin Takes
  BY DEF Takes, Sorts
<1>5. PICK Q : Q = Queue'
  OBVIOUS
<1>6. \/ Q = Queue /\ (Pending(o) /\ ops[o].gen = generation =>
                          \/ ops[o].action \notin Takes
                               /\ ~(ops[o].action = "undo_move" /\ m.ok /\ Library[i] = folder)
                          \/ ~m.ok)
      \/ Pending(o) /\ ops[o].gen = generation /\ ops[o].action \in Takes /\ m.ok /\ Q = Queue \ {i}
      \/ Pending(o) /\ ops[o].gen = generation /\ ops[o].action = "undo_move" /\ m.ok
              /\ Library[i] = folder /\ Q = Queue \cup {i}
  BY <1>0, <1>2, <1>5 DEF Keeps, Removes, Brings, Offers, Queue
<1>7. Queueing'
  <2>1. \A j \in Q : Library[j] = folder'
    BY <1>1, <1>3, <1>6
  <2>2. \A p \in Known : Pending(p)' /\ ops[p].action \in Takes /\ ops[p].gen = generation => ops[p].image \in Q
    <3> SUFFICES ASSUME NEW p \in Known, Pending(p)', ops[p].action \in Takes, ops[p].gen = generation
                 PROVE ops[p].image \in Q
      OBVIOUS
    <3>1. Pending(p) /\ p # o /\ ops[p].image \in Queue
      BY <1>1, <1>3
    <3>2. CASE Pending(o) /\ ops[o].action \in Takes
      <4>1. ops[p].image # i
        BY <1>0, <1>1, <1>3, <1>4, <3>1, <3>2
      <4> QED BY <1>6, <3>1, <4>1
    <3>3. CASE ~(Pending(o) /\ ops[o].action \in Takes)
      BY <1>6, <3>1, <3>3
    <3> QED BY <3>2, <3>3
  <2>3. \A p, q \in Known : Pending(p)' /\ Pending(q)' /\ ops'[p].action \in Sorts /\ ops'[q].action \in Sorts
                         /\ ops'[p].image = ops'[q].image => p = q
    BY <1>1, <1>3
  <2>4. \A p \in Known : Pending(p)' /\ ops'[p].action \in Takes /\ ops'[p].gen = generation' => ops'[p].image \in Q
    BY <1>1, <2>2
  <2> QED BY <1>1, <1>2, <1>5, <2>1, <2>3, <2>4 DEF Queueing
<1>8. Truth'
  <2> SUFFICES ASSUME NEW j \in Images, Viewed(j)' PROVE TruthOf(j)'
    BY DEF Truth
  <2>1. TruthOf(j) /\ Library[j] = folder
    BY <1>1 DEF IInv, Truth, Viewed
  <2>2. \A p \in Known : /\ Moving(p, j)' <=> Moving(p, j) /\ p # o
                         /\ Returning(p, j)' <=> Returning(p, j) /\ p # o
    BY <1>1 DEF Moving, Returning
  <2>3. \A p \in Known : Pending(p)' /\ ops'[p].image = j => ops'[p].gen = generation'
    BY <1>1, <2>1 DEF TruthOf
  <2>4. /\ \A p \in Known : Moving(p, j) => j \in Queue
        /\ \A p \in Known : Returning(p, j) => j \notin Queue /\ j \in present
        /\ \A p, q \in Known : Returning(p, j) /\ Returning(q, j) => p = q
        /\ (\A p \in Known : ~Moving(p, j) /\ ~Returning(p, j)) => (j \in Queue <=> j \in present)
    BY <2>1 DEF TruthOf
  <2>5. SUFFICES /\ \A p \in Known : Moving(p, j) /\ p # o => j \in Q
                 /\ \A p \in Known : Returning(p, j) /\ p # o => j \notin Q /\ j \in present
                 /\ (\A p \in Known : p # o => ~Moving(p, j) /\ ~Returning(p, j)) => (j \in Q <=> j \in present)
    BY <1>1, <1>5, <2>2, <2>3, <2>4 DEF TruthOf
  <2>6. CASE j # i
    <3>1. ~Moving(o, j) /\ ~Returning(o, j) /\ (j \in Q <=> j \in Queue)
      BY <1>0, <1>6, <2>6 DEF Moving, Returning
    <3> QED BY <1>1, <2>4, <3>1
  <2>7. CASE j = i /\ ~(Pending(o) /\ m.ok /\ ops[o].action \in Takes \cup {"undo_move"})
    <3>1. ~Moving(o, j) /\ ~Returning(o, j)
      <4>1. CASE Pending(o)
        BY <1>1, <2>7, <4>1 DEF Moving, Returning
      <4>2. CASE ~Pending(o)
        BY <4>2 DEF Moving, Returning, Landed
      <4> QED BY <4>1, <4>2
    <3>2. Q = Queue
      BY <1>6, <2>7
    <3> QED BY <1>1, <2>4, <3>1, <3>2
  <2>8. CASE j = i /\ Pending(o) /\ m.ok /\ ops[o].action \in Takes
    <3>1. ops[o].gen = generation
      BY <1>0, <1>1, <2>1, <2>8 DEF TruthOf
    <3>2. Q = Queue \ {i}
      BY <1>4, <1>6, <2>8, <3>1
    <3>3. Moving(o, j) /\ Landed(o)
      BY <1>0, <1>1, <2>8 DEF Moving
    <3>4. j \in Queue
      BY <1>1, <2>4, <3>3
    <3>5. j \notin present
      BY <1>0, <1>1, <2>8, <3>3 DEF IInv, Presence
    <3>6. \A p \in Known : Moving(p, j) => p = o
      BY <1>0, <1>1, <1>3, <1>4, <2>8 DEF Moving, Landed
    <3> QED BY <2>4, <2>8, <3>2, <3>4, <3>5, <3>6
  <2>9. CASE j = i /\ Pending(o) /\ m.ok /\ ops[o].action = "undo_move"
    <3>1. ops[o].gen = generation
      BY <1>0, <1>1, <2>1, <2>9 DEF TruthOf
    <3>2. Q = Queue \cup {i}
      BY <1>4, <1>6, <2>1, <2>9, <3>1
    <3>3. Returning(o, j)
      BY <1>0, <1>1, <2>9 DEF Returning
    <3> QED BY <1>1, <2>4, <2>9, <3>2, <3>3
  <2> QED BY <2>6, <2>7, <2>8, <2>9
<1> QED BY <1>7, <1>8

\* Queue r is queue s without position k.
Shrunk(r, s, k) ==
  /\ Len(r) = Len(s) - 1
  /\ \A j \in Positions(r) : At(r, j) = IF j < k THEN At(s, j) ELSE At(s, j + 1)
\* The gap lies between the images of L and those of R.
Between(s, gap, L, R) ==
  \A j \in Positions(s) : /\ At(s, j) \in L => j < gap
                          /\ At(s, j) \in R => j >= gap

\* The gap follows the neighbours when an image leaves the queue.
LEMMA GapFollows ==
  ASSUME NEW s \in Seq(Images), NEW r \in Seq(Images), NEW k \in Positions(s), NEW index \in Int, NEW L, NEW R,
         Shrunk(r, s, k), Between(s, index, L, R)
  PROVE  Between(r, IF k < index THEN index - 1 ELSE index, L, R)
<1>0. PICK gap : gap = IF k < index THEN index - 1 ELSE index
  OBVIOUS
<1>1. Len(s) \in Nat /\ Len(r) \in Nat /\ k \in Int
  BY LenProperties DEF Positions
<1> SUFFICES ASSUME NEW j \in Positions(r)
             PROVE /\ At(r, j) \in L => j < gap
                   /\ At(r, j) \in R => j >= gap
  BY <1>0 DEF Between
<1>2. j \in Positions(s) /\ j + 1 \in Positions(s) /\ j \in Int
  BY <1>1 DEF Positions, Shrunk
<1>3. CASE j < k
  <2>1. At(r, j) = At(s, j)
    BY <1>3 DEF Shrunk
  <2>2. (At(s, j) \in L => j < index) /\ (At(s, j) \in R => j >= index)
    BY <1>2 DEF Between
  <2> QED BY <1>0, <1>1, <1>2, <1>3, <2>1, <2>2
<1>4. CASE ~(j < k)
  <2>1. At(r, j) = At(s, j + 1)
    BY <1>4 DEF Shrunk
  <2>2. (At(s, j + 1) \in L => j + 1 < index) /\ (At(s, j + 1) \in R => j + 1 >= index)
    BY <1>2 DEF Between
  <2> QED BY <1>0, <1>1, <1>2, <1>4, <2>1, <2>2
<1> QED BY <1>3, <1>4

\* The gap of the held image after a message.
LEMMA DeliverHolding == ASSUME IInv, NEW m, Deliver(m), Answering(m) PROVE Holding'
<1>0. PICK o, i : o = m.op /\ i = ops[o].image
  OBVIOUS
<1>1. PICK h : h = view.held
  OBVIOUS
<1>2. PICK g : g = view'.held
  OBVIOUS
<1>3. SUFFICES ASSUME g # NoHold
      PROVE /\ g.op \in Known' /\ ops'[g.op].action = "move" /\ ops'[g.op].image = g.image
            /\ ops'[g.op].gen = generation'
            /\ ~g.completed => Pending(g.op)' /\ g.index \in Positions(view'.images) /\ At(view'.images, g.index) = g.image
            /\ g.completed => ~Pending(g.op)' /\ g.image \notin Queue'
            /\ \A k \in Positions(view'.images) :
                 /\ At(view'.images, k) \in beside'.left  => k < g.index
                 /\ At(view'.images, k) \in beside'.right => k >= g.index
  <2>1. view'.held # NoHold => g # NoHold
    BY <1>2
  <2> QED BY <1>2, <2>1 DEF Holding, Pending
<1>4. /\ o \in Known /\ Known' = Known
      /\ \A p \in Known : ops'[p].action = ops[p].action /\ ops'[p].image = ops[p].image /\ ops'[p].gen = ops[p].gen
      /\ UNCHANGED <<folder, generation, beside>>
      /\ \A p \in Known : Pending(p)' <=> Pending(p) /\ p # o
  BY <1>0, AnsweringIs, MessageFacts, StillPending DEF Answering
<1>5. /\ Good(view')
      /\ \/ Keeps(o, m.ok)
         \/ Pending(o) /\ ops[o].gen = generation /\ ops[o].action \in Takes /\ m.ok /\ Removes(o)
         \/ Pending(o) /\ ops[o].gen = generation /\ ops[o].action = "undo_move" /\ m.ok
              /\ Library[ops[o].image] = folder /\ Brings(o)
         \/ Pending(o) /\ ops[o].gen = generation /\ ops[o].action \in Takes /\ ~m.ok /\ Offers(o)
  BY <1>0, ViewStep
<1>6. h # NoHold
  <2>1. view'.held # NoHold
    BY <1>2, <1>3
  <2> QED BY <1>1, <1>5, <2>1 DEF Keeps, Removes, Brings, Offers
<1>7. /\ h.op \in Known /\ ops[h.op].action = "move" /\ ops[h.op].image = h.image
      /\ ops[h.op].gen = generation
      /\ ~h.completed => Pending(h.op) /\ h.index \in Positions(view.images) /\ At(view.images, h.index) = h.image
      /\ h.completed => ~Pending(h.op) /\ h.image \notin Queue
      /\ \A k \in Positions(view.images) :
           /\ At(view.images, k) \in beside.left  => k < h.index
           /\ At(view.images, k) \in beside.right => k >= h.index
  BY <1>1, <1>6 DEF IInv, Holding
<1>8. CASE Keeps(o, m.ok) \/ Offers(o)
  <2>1. view'.images = view.images /\ g = h
    BY <1>1, <1>2, <1>3, <1>8 DEF Keeps, Offers
  <2>2. Pending(h.op)' <=> Pending(h.op)
    <3>1. h.op = o => ~Pending(o)
      BY <1>1, <1>2, <1>3, <1>7, <1>8 DEF Keeps, Offers, Takes
    <3> QED BY <1>4, <1>7, <3>1
  <2>3. Queue' = Queue
    BY <2>1 DEF Queue
  <2> QED BY <1>4, <1>7, <2>1, <2>2, <2>3
<1>9. CASE Brings(o)
  BY <1>2, <1>3, <1>9 DEF Brings
<1>10. CASE Pending(o) /\ ops[o].gen = generation /\ ops[o].action \in Takes /\ m.ok /\ Removes(o)
  <2>1. /\ Queue' = Queue \ {i} /\ g.op = h.op /\ g.image = h.image
        /\ h.op # o => g.completed = h.completed
        /\ h.op = o => g.completed
    BY <1>0, <1>1, <1>2, <1>6, <1>10 DEF Removes, Queue
  <2>2. PICK k \in Positions(view.images) :
          /\ At(view.images, k) = i /\ Len(view'.images) = Len(view.images) - 1
          /\ \A j \in Positions(view'.images) :
               At(view'.images, j) = IF j < k THEN At(view.images, j) ELSE At(view.images, j + 1)
          /\ g.index = GapAfter(view, k)
    BY <1>0, <1>2, <1>10 DEF Removes
  <2>3. /\ view.images \in Seq(Images) /\ view'.images \in Seq(Images) /\ Distinct(view.images)
        /\ h \in Hold \cup {NoHold} /\ h.index \in Int
    <3>1. view.images \in Seq(Images) /\ h \in Hold \cup {NoHold} /\ Distinct(view.images)
      BY <1>1 DEF IInv, TypeOK, ViewTypeOK, Queueing
    <3>2. h.index \in Int
      BY <1>6, <3>1 DEF Hold
    <3>3. view'.images \in Seq(Images)
      BY <1>5 DEF Good, View
    <3> QED BY <3>1, <3>2, <3>3
  <2>4. g.index = IF k < h.index THEN h.index - 1 ELSE h.index
    BY <1>1, <1>6, <2>2 DEF GapAfter
  <2>5. \A j \in Positions(view'.images) :
          /\ At(view'.images, j) \in beside.left  => j < g.index
          /\ At(view'.images, j) \in beside.right => j >= g.index
    <3>1. PICK s, r, n, L, R : s = view.images /\ r = view'.images /\ n = h.index /\ L = beside.left /\ R = beside.right
      OBVIOUS
    <3>2. s \in Seq(Images) /\ r \in Seq(Images) /\ k \in Positions(s) /\ n \in Int
      BY <2>3, <3>1
    <3>3. Shrunk(r, s, k) /\ Between(s, n, L, R)
      BY <1>7, <2>2, <3>1 DEF Shrunk, Between
    <3>4. Between(r, IF k < n THEN n - 1 ELSE n, L, R)
      BY <3>2, <3>3, GapFollows
    <3>5. Between(r, g.index, L, R)
      BY <2>4, <3>1, <3>4
    <3> QED BY <3>1, <3>5 DEF Between
  <2>6. g.completed => ~Pending(g.op)' /\ g.image \notin Queue'
    <3>1. CASE h.op = o
      BY <1>0, <1>4, <1>7, <2>1, <3>1
    <3>2. CASE h.op # o
      BY <1>4, <1>7, <2>1, <3>2
    <3> QED BY <3>1, <3>2
  <2>7. ~g.completed => Pending(g.op)' /\ g.index \in Positions(view'.images) /\ At(view'.images, g.index) = g.image
    <3> SUFFICES ASSUME ~g.completed
                 PROVE Pending(g.op)' /\ g.index \in Positions(view'.images) /\ At(view'.images, g.index) = g.image
      OBVIOUS
    <3>1. h.op # o /\ ~h.completed
      BY <2>1
    <3>2. Pending(h.op) /\ h.index \in Positions(view.images) /\ At(view.images, h.index) = h.image
      BY <1>7, <3>1
    <3>3. h.image # i
      <4>1. \A p, q \in Known : Pending(p) /\ Pending(q) /\ ops[p].action \in Sorts /\ ops[q].action \in Sorts
                         /\ ops[p].image = ops[q].image => p = q
        BY DEF IInv, Queueing
      <4>2. ops[o].action \in Sorts /\ ops[h.op].action \in Sorts
        BY <1>7, <1>10 DEF Takes, Sorts
      <4> QED BY <1>0, <1>4, <1>7, <1>10, <3>1, <3>2, <4>1, <4>2
    <3>4. k # h.index
      BY <2>2, <3>2, <3>3
    <3>5. k \in Int /\ k >= 0 /\ Len(view.images) \in Nat /\ k < Len(view.images)
          /\ h.index >= 0 /\ h.index < Len(view.images)
      BY <2>3, <3>2, LenProperties DEF Positions
    <3>6. g.index \in Positions(view'.images)
      BY <2>2, <2>3, <2>4, <3>4, <3>5 DEF Positions
    <3>7. At(view'.images, g.index) = At(view.images, h.index)
      <4>1. CASE k < h.index
        <5>1. g.index = h.index - 1 /\ ~(g.index < k) /\ g.index + 1 = h.index
          BY <2>3, <2>4, <3>5, <4>1
        <5>2. At(view'.images, g.index) = At(view.images, g.index + 1)
          BY <2>2, <3>6, <5>1
        <5> QED BY <5>1, <5>2
      <4>2. CASE ~(k < h.index)
        <5>1. g.index = h.index /\ g.index < k
          BY <2>3, <2>4, <3>4, <3>5, <4>2
        <5>2. At(view'.images, g.index) = At(view.images, g.index)
          BY <2>2, <3>6, <5>1
        <5> QED BY <5>1, <5>2
      <4> QED BY <4>1, <4>2
    <3>8. Pending(g.op)'
      BY <1>4, <1>7, <2>1, <3>1, <3>2
    <3> QED BY <2>1, <3>2, <3>6, <3>7, <3>8
  <2> QED BY <1>4, <1>7, <2>1, <2>5, <2>6, <2>7
<1> QED BY <1>5, <1>8, <1>9, <1>10

\* What a message does to the tagging.
LEMMA TagStep ==
  ASSUME IInv, NEW m, Deliver(m), NEW o, o = m.op
  PROVE  \/ UNCHANGED enrichment /\ ~(Pending(o) /\ ops[o].action \in {"move", "copy"} /\ m.ok)
         \/ /\ Pending(o) /\ ops[o].action \in {"move", "copy"} /\ m.ok
            /\ UNCHANGED <<interrupted, cancelled, closing>>
            /\ parents' = IF m.rev > 0 THEN parents \cup {o} ELSE parents
            /\ \/ UNCHANGED <<reader, backlog>>
               \/ reader' = [reader EXCEPT ![o] = "reading"] /\ UNCHANGED backlog
               \/ Len(backlog) < MaxBacklog /\ backlog' = Append(backlog, o) /\ UNCHANGED reader
<1>1. CASE Pending(o) /\ ops[o].action \in {"move", "copy"} /\ m.ok
  <2>1. SortFinished(o, m.rev > 0, Tagging)
    BY <1>1 DEF Deliver, Pending
  <2>2. /\ UNCHANGED <<interrupted, cancelled, closing>>
        /\ parents' = IF m.rev > 0 THEN parents \cup {o} ELSE parents
        /\ Tag(o, Tagging)
    BY <2>1 DEF SortFinished
  <2> QED BY <1>1, <2>2 DEF Tag
<1>2. CASE ~(Pending(o) /\ ops[o].action \in {"move", "copy"} /\ m.ok)
  BY <1>2 DEF Deliver, Pending
<1> QED BY <1>1, <1>2

\* A sort whose tagging begins now is finished, and no undo of it can be out.
LEMMA DeliverTagging ==
  ASSUME IInv, NEW m, Deliver(m), Answering(m)
  PROVE  /\ Taggings' /\ EnrichmentTypeOK' /\ parents \subseteq parents'
         /\ Pending(m.op) /\ ops[m.op].action \in {"move", "copy"} /\ m.ok /\ m.rev > 0 => m.op \in parents'
<1>0. PICK o : o = m.op
  OBVIOUS
<1>1. /\ o \in Known /\ o \in OpIds /\ Known' = Known
      /\ \A p \in Known : /\ ops'[p].action = ops[p].action /\ ops'[p].token = ops[p].token
                          /\ p # o => ops'[p].state = ops[p].state
                          /\ ~Pending(p) => ops'[p].state = ops[p].state
      /\ Pending(o) => ops'[o].state = IF m.ok THEN "finished" ELSE "error"
  BY <1>0, AnsweringIs DEF Answering
<1>2. /\ EnrichmentTypeOK /\ DOMAIN reader = OpIds /\ parents \subseteq OpIds
      /\ \A p \in OpIds : reader[p] # "none" \/ p \in ToSet(backlog) =>
           p \in Known /\ ops[p].state = "finished" /\ ops[p].action \in {"move", "copy"}
      /\ \A u \in Known : ops[u].action \in Undos /\ ops[ops[u].token].state = "finished"
                      /\ ops[ops[u].token].action # "trash" => ops[u].token \in cancelled
      /\ TaggingStops
  BY DEF IInv, TypeOK, Taggings
<1>3. \/ UNCHANGED enrichment /\ ~(Pending(o) /\ ops[o].action \in {"move", "copy"} /\ m.ok)
      \/ /\ Pending(o) /\ ops[o].action \in {"move", "copy"} /\ m.ok
         /\ UNCHANGED <<interrupted, cancelled, closing>>
         /\ parents' = IF m.rev > 0 THEN parents \cup {o} ELSE parents
         /\ \/ UNCHANGED <<reader, backlog>>
            \/ reader' = [reader EXCEPT ![o] = "reading"] /\ UNCHANGED backlog
            \/ Len(backlog) < MaxBacklog /\ backlog' = Append(backlog, o) /\ UNCHANGED reader
  BY <1>0, TagStep
<1>4. UNCHANGED <<interrupted, cancelled, closing>> /\ parents \subseteq parents' /\ parents' \subseteq OpIds
  BY <1>1, <1>2, <1>3 DEF enrichment
<1>5. backlog \in Seq(OpIds) /\ Len(backlog) <= MaxBacklog /\ MaxBacklog \in Nat /\ Len(backlog) \in Nat
      /\ reader \in [OpIds -> {"none", "reading", "posted", "ending"}]
  BY <1>2, EnrichmentAssumption, LenProperties DEF EnrichmentTypeOK
<1>6. /\ reader' \in [OpIds -> {"none", "reading", "posted", "ending"}]
      /\ \A p \in OpIds : reader'[p] # "none" =>
           reader[p] # "none" \/ (p = o /\ Pending(o) /\ ops[o].action \in {"move", "copy"} /\ m.ok)
      /\ \A p \in OpIds : reader[p] # "none" => reader'[p] # "none"
  <2>1. CASE UNCHANGED reader
    BY <1>5, <2>1
  <2>2. CASE reader' = [reader EXCEPT ![o] = "reading"] /\ Pending(o) /\ ops[o].action \in {"move", "copy"} /\ m.ok
    BY <1>1, <1>5, <2>2
  <2> QED BY <1>3, <2>1, <2>2 DEF enrichment
<1>7. /\ backlog' \in Seq(OpIds) /\ Len(backlog') <= MaxBacklog
      /\ \A p \in ToSet(backlog') :
           p \in ToSet(backlog) \/ (p = o /\ Pending(o) /\ ops[o].action \in {"move", "copy"} /\ m.ok)
  <2>1. CASE UNCHANGED backlog
    BY <1>5, <2>1
  <2>2. CASE Len(backlog) < MaxBacklog /\ backlog' = Append(backlog, o) /\ Pending(o)
             /\ ops[o].action \in {"move", "copy"} /\ m.ok
    <3>1. backlog' \in Seq(OpIds) /\ Len(backlog') = Len(backlog) + 1 /\ ToSet(backlog') = ToSet(backlog) \cup {o}
      BY <1>1, <1>5, <2>2, AppendSet
    <3> QED BY <1>5, <2>2, <3>1
  <2> QED BY <1>3, <2>1, <2>2 DEF enrichment
<1>8. EnrichmentTypeOK'
  <2>1. Active' = {p \in OpIds : reader'[p] # "none"} /\ Active = {p \in OpIds : reader[p] # "none"}
    BY <1>5, <1>6 DEF Active
  <2>2. interrupted' \subseteq Active'
    BY <1>2, <1>4, <1>6, <2>1 DEF EnrichmentTypeOK
  <2>3. DOMAIN reader' = OpIds
    BY <1>6
  <2>4. cancelled' \subseteq parents' /\ closing' \in BOOLEAN
    BY <1>2, <1>4 DEF EnrichmentTypeOK
  <2> QED BY <1>6, <1>7, <2>2, <2>3, <2>4 DEF EnrichmentTypeOK
<1>9. \A p \in OpIds : reader'[p] # "none" \/ p \in ToSet(backlog') =>
           p \in Known /\ ops'[p].state = "finished" /\ ops'[p].action \in {"move", "copy"}
  <2> SUFFICES ASSUME NEW p \in OpIds, reader'[p] # "none" \/ p \in ToSet(backlog')
               PROVE p \in Known /\ ops'[p].state = "finished" /\ ops'[p].action \in {"move", "copy"}
    OBVIOUS
  <2>1. CASE p = o /\ Pending(o) /\ ops[o].action \in {"move", "copy"} /\ m.ok
    BY <1>1, <2>1
  <2>2. CASE reader[p] # "none" \/ p \in ToSet(backlog)
    <3>1. p \in Known /\ ops[p].state = "finished" /\ ops[p].action \in {"move", "copy"}
      BY <1>2, <2>2
    <3> QED BY <1>1, <3>1 DEF Pending
  <2> QED BY <1>6, <1>7, <2>1, <2>2
<1>10. \A u \in Known : ops'[u].action \in Undos /\ ops'[ops'[u].token].state = "finished"
                      /\ ops'[ops'[u].token].action # "trash" => ops'[u].token \in cancelled'
  <2> SUFFICES ASSUME NEW u \in Known, ops[u].action \in Undos,
                      NEW t, t = ops[u].token, ops'[t].state = "finished", ops'[t].action # "trash"
               PROVE t \in cancelled'
    BY <1>1
  <2>1. t \in Known /\ Done(t)
    BY DEF IInv, Requests, RequestOf, Refers
  <2>2. ops[t].state = "finished" /\ ops[t].action # "trash"
    BY <1>1, <2>1 DEF Done, Pending
  <2> QED BY <1>2, <1>4, <2>2
<1>11. TaggingStops'
  BY <1>1, <1>2 DEF TaggingStops, Known
<1>12. Taggings'
  BY <1>1, <1>4, <1>6, <1>9, <1>10, <1>11 DEF Taggings
<1>13. Pending(o) /\ ops[o].action \in {"move", "copy"} /\ m.ok /\ m.rev > 0 => o \in parents'
  BY <1>3
<1> QED BY <1>0, <1>4, <1>8, <1>12, <1>13

\* The GUI thread receives.
LEMMA DeliverKeeps == ASSUME IInv, NEW m \in inbox, Deliver(m) PROVE IInv'
<1>1. Answering(m)
  BY AnsweringIs
<1>2. /\ Taggings' /\ EnrichmentTypeOK' /\ parents \subseteq parents'
      /\ Pending(m.op) /\ ops[m.op].action \in {"move", "copy"} /\ m.ok /\ m.rev > 0 => m.op \in parents'
  BY <1>1, DeliverTagging
<1>3. Requests' /\ Waiting' /\ Messages'
  BY <1>1, DeliverRequests
<1>4. Journal' /\ Presence'
  BY <1>1, <1>2, DeliverJournal
<1>5. Queueing' /\ Truth' /\ Holding'
  BY <1>1, DeliverView, DeliverHolding
<1>6. Tokens' /\ TokensOK(tokens') /\ dropped' \subseteq OpIds
  BY <1>1, DeliverTokens
<1>7. /\ UNCHANGED <<accepted, present, row, revision, spent, stale, lost, replays, unsure, beside, folder, generation>>
      /\ inbox' = inbox \ {m} /\ told' \in [OpIds -> Nat]
  BY MessageFacts
<1>8. /\ Known' = Known /\ ops' \in Seq(Op) /\ Len(ops') = Len(ops)
  BY <1>1 DEF Answering
<1>9. ViewTypeOK'
  <2>1. Good(view')
    BY ViewStep
  <2>2. /\ tokens' \in [history : Seq(Entry), latest : [OpIds -> Nat], inflight : SUBSET OpIds, consumed : SUBSET OpIds]
        /\ Len(tokens'.history) <= MaxHistory
    BY <1>6 DEF TokensOK, HistoryOK
  <2>3. folder' \in Folders /\ generation' \in 1 .. MaxLoads /\ Len(ops') <= MaxOps
    BY <1>7, <1>8 DEF IInv, TypeOK, ViewTypeOK
  <2> QED BY <1>8, <2>1, <2>2, <2>3 DEF ViewTypeOK, Good, View, Entry
<1>10. RestTypeOK'
  <2>1. RestTypeOK
    BY TypeParts DEF IInv
  <2>2. DOMAIN ops' = DOMAIN ops
    BY <1>8 DEF Known
  <2> QED BY <1>6, <1>7, <2>1, <2>2 DEF RestTypeOK
<1>11. TypeOK'
  BY <1>2, <1>9, <1>10 DEF TypeOK, RestTypeOK
<1> QED BY <1>2, <1>3, <1>4, <1>5, <1>6, <1>11 DEF IInv
-----------------------------------------------------------------------------
(* The theorems.                                                            *)

\* The operations of an earlier session that a window may start with.
LEMMA InitOps ==
  ASSUME Init
  PROVE  /\ ops \in Seq(Op) /\ Len(ops) <= MaxOps /\ present \subseteq Images
         /\ Known \subseteq {1} /\ 1 \in OpIds
         /\ row \in [OpIds -> {"open", "ok", "failed"}] /\ revision \in [OpIds -> Nat]
         /\ \A o \in Known : /\ ops[o].state = "earlier" /\ ops[o].action = "move" /\ ops[o].gen = 0
                             /\ ops[o].image \in Images /\ ops[o].image \notin present
         /\ \A o \in OpIds : row[o] # "open" \/ revision[o] > 0 => o \in Known /\ row[o] = "ok"
<1>1. PICK away \in SUBSET Images :
       /\ Cardinality(away) <= Min({1, MaxReplays})
       /\ ops = [o \in 1 .. Cardinality(away) |-> Earlier(CHOOSE i \in away : TRUE)]
       /\ present = Images \ away
       /\ row = [o \in OpIds |-> IF away # {} /\ o = 1 THEN "ok" ELSE "open"]
       /\ revision = [o \in OpIds |-> IF away # {} /\ o = 1 THEN 1 ELSE 0]
  BY DEF Init
<1>2. PICK c : c = Cardinality(away)
  OBVIOUS
<1>3. c \in {0, 1} /\ (c = 0 <=> away = {})
  <2>1. IsFiniteSet(away)
    BY ViewAssumption, FS_Subset
  <2>2. c \in Nat /\ (c = 0 <=> away = {})
    BY <1>2, <2>1, FS_CardinalityType, FS_EmptySet
  <2>3. MaxReplays \in Int
    BY SessionAssumption
  <2>4. Min({1, MaxReplays}) = IF 1 <= MaxReplays THEN 1 ELSE MaxReplays
    BY <2>3, MinPair
  <2> QED BY <1>1, <1>2, <2>2, <2>3, <2>4
<1>4. MaxOps \in Nat /\ MaxOps >= 1 /\ 1 \in OpIds
  BY ViewAssumption DEF OpIds
<1>5. row \in [OpIds -> {"open", "ok", "failed"}] /\ revision \in [OpIds -> Nat]
  BY <1>1
<1>6. CASE away = {}
  <2>1. ops = [o \in 1 .. 0 |-> Earlier(CHOOSE i \in away : TRUE)]
    BY <1>1, <1>2, <1>3, <1>6
  <2>2. ops \in [1 .. 0 -> Op]
    BY <2>1
  <2>3. ops \in Seq(Op) /\ Len(ops) = 0
    BY <2>2, IsASeq, LenProperties
  <2>4. Known = {}
    BY <2>2 DEF Known
  <2>5. \A o \in OpIds : row[o] = "open" /\ revision[o] = 0
    BY <1>1, <1>6
  <2>6. \A o \in Known : FALSE
    BY <2>4
  <2>7. Len(ops) <= MaxOps /\ present \subseteq Images /\ Known \subseteq {1}
    <3>1. present \subseteq Images
      BY <1>1
    <3>2. Len(ops) <= MaxOps
      BY <1>4, <2>3
    <3> QED BY <2>4, <3>1, <3>2
  <2> QED BY <1>4, <1>5, <2>3, <2>5, <2>6, <2>7
<1>7. CASE away # {}
  <2>1. PICK i \in away : i = CHOOSE x \in away : TRUE
    BY <1>7
  <2>2. ops = [o \in 1 .. 1 |-> Earlier(i)]
    BY <1>1, <1>2, <1>3, <1>7, <2>1
  <2>3. Earlier(i) \in Op
    BY <1>4 DEF Earlier, Op, Sorts
  <2>4. ops \in [1 .. 1 -> Op]
    BY <2>2, <2>3
  <2>5. ops \in Seq(Op) /\ Len(ops) = 1
    <3>1. PICK n \in Nat : n = 1
      OBVIOUS
    <3>2. ops \in [1 .. n -> Op]
      BY <2>4, <3>1
    <3>3. ops \in Seq(Op) /\ Len(ops) = n
      BY ONLY <3>2, n \in Nat, IsASeq, LenProperties
    <3> QED BY <3>1, <3>3
  <2>6. Known = {1} /\ ops[1] = Earlier(i)
    BY <2>2, <2>4 DEF Known
  <2>7. /\ ops[1].state = "earlier" /\ ops[1].action = "move" /\ ops[1].gen = 0 /\ ops[1].image = i
    BY <2>6 DEF Earlier
  <2>8. \A o \in OpIds : row[o] # "open" \/ revision[o] > 0 => o = 1
    BY <1>1
  <2>9. row[1] = "ok"
    BY <1>1, <1>4, <1>7
  <2>10. \A o \in Known : ops[o].image = i /\ i \in Images /\ i \notin present /\ o = 1
    BY <1>1, <2>6, <2>7
  <2>11. \A o \in OpIds : row[o] # "open" \/ revision[o] > 0 => o \in Known /\ row[o] = "ok"
    BY <2>6, <2>8, <2>9
  <2> QED BY <1>1, <1>4, <1>5, <2>5, <2>7, <2>10, <2>11
<1> QED BY <1>6, <1>7

\* A window opens.
LEMMA InitHolds == ASSUME Init PROVE IInv
<1>1. PICK f \in Folders : ViewInit(f, present)
  BY DEF Init
<1>2. PICK S : S = {i \in present : Library[i] = f}
  OBVIOUS
<1>3. /\ folder = f /\ generation = 1 /\ view = Listed(S)
      /\ tokens = [history |-> <<>>, latest |-> [t \in OpIds |-> 0], inflight |-> {}, consumed |-> {}]
  BY <1>1, <1>2 DEF ViewInit
<1>4. /\ reader = [o \in OpIds |-> "none"] /\ interrupted = {} /\ backlog = <<>>
      /\ parents = {} /\ cancelled = {} /\ closing = FALSE
      /\ accepted = <<>> /\ spent = {} /\ stale = {} /\ inbox = {}
      /\ lost = 0 /\ replays = 0
      /\ unsure = {} /\ beside = Nobody /\ told = [t \in OpIds |-> 0] /\ dropped = {}
  BY DEF Init, EnrichmentInit
<1>5. /\ ops \in Seq(Op) /\ Len(ops) <= MaxOps /\ present \subseteq Images
      /\ Known \subseteq {1} /\ 1 \in OpIds
      /\ row \in [OpIds -> {"open", "ok", "failed"}] /\ revision \in [OpIds -> Nat]
      /\ \A o \in Known : /\ ops[o].state = "earlier" /\ ops[o].action = "move" /\ ops[o].gen = 0
                          /\ ops[o].image \in Images /\ ops[o].image \notin present
      /\ \A o \in OpIds : row[o] # "open" \/ revision[o] > 0 => o \in Known /\ row[o] = "ok"
  BY InitOps
<1>6. Good(view) /\ Queue = S /\ Distinct(view.images) /\ view.held = NoHold
  <2>1. S \subseteq Images
    BY <1>2, <1>5
  <2> QED BY <1>3, <2>1, ListedIs DEF Queue
<1>7. ToSet(<<>>) = {} /\ Len(<<>>) = 0 /\ DOMAIN <<>> = {} /\ \A T : <<>> \in Seq(T)
  BY EmptySeq DEF ToSet
<1>8. \A o \in Known : ~Pending(o) /\ Done(o) /\ ~Refers(o)
  BY <1>5 DEF Pending, Done, Refers, Undos
<1>9. TypeOK
  <2>1. ViewTypeOK
    <3>1. tokens \in [history : Seq([id : OpIds, rev : Nat \ {0}]), latest : [OpIds -> Nat],
                 inflight : SUBSET OpIds, consumed : SUBSET OpIds]
      BY <1>3, <1>7
    <3>2. Len(tokens.history) <= MaxHistory /\ generation \in 1 .. MaxLoads
      BY <1>3, <1>7, ViewAssumption
    <3> QED BY <1>3, <1>5, <1>6, <3>1, <3>2 DEF ViewTypeOK, Good, View
  <2>2. EnrichmentTypeOK
    <3>1. reader \in [DOMAIN reader -> {"none", "reading", "posted", "ending"}]
      BY <1>4
    <3>2. backlog \in Seq(DOMAIN reader) /\ Len(backlog) <= MaxBacklog
      BY <1>4, <1>7, EnrichmentAssumption
    <3> QED BY <1>4, <3>1, <3>2 DEF EnrichmentTypeOK
  <2>3. lost \in 0 .. MaxLost /\ replays \in 0 .. MaxReplays
    BY <1>4, SessionAssumption
  <2> QED BY <1>4, <1>5, <1>7, <2>1, <2>2, <2>3 DEF TypeOK
<1>10. Requests
  BY <1>3, <1>5, <1>8 DEF Requests, RequestOf, Refers
<1>11. Waiting /\ Messages
  BY <1>4, <1>7, <1>8 DEF Waiting, Messages, Distinct
<1>12. Journal
  <2> SUFFICES ASSUME NEW o \in OpIds PROVE JournalOf(o)
    BY DEF Journal
  <2>1. o \in Known => ops[o].state # "error" /\ ops[o].state # "finished" /\ ops[o].action \notin Undos
                       /\ ops[o].action \in Sorts
    BY <1>5 DEF Undos, Sorts
  <2>2. told[o] = 0
    BY <1>4
  <2> QED BY <1>4, <1>5, <2>1, <2>2 DEF JournalOf
<1>13. Presence
  <2>1. \A t \in OpIds : Away(t) => t \in Known
    BY <1>5 DEF Away
  <2>2. \A o \in Known : ~Landed(o)
    BY <1>8 DEF Landed
  <2>3. \A t \in OpIds : Away(t) => t = 1 /\ ops[t].image \notin present
    BY <1>5, <2>1
  <2> QED BY <2>2, <2>3 DEF Presence
<1>14. Queueing /\ Truth
  <2>1. Queueing
    BY <1>2, <1>3, <1>6, <1>8 DEF Queueing
  <2>2. \A o \in Known, i \in Images : ~Moving(o, i) /\ ~Returning(o, i)
    BY <1>8 DEF Moving, Returning, Landed
  <2>3. \A i \in Images : Viewed(i) => (i \in Queue <=> i \in present)
    BY <1>2, <1>3, <1>6 DEF Viewed
  <2> QED BY <1>8, <2>1, <2>2, <2>3 DEF Truth, TruthOf
<1>15. Holding
  BY <1>6 DEF Holding
<1>16. Tokens
  <2>1. Ids = {} /\ tokens.history = <<>> /\ tokens.inflight = {} /\ tokens.consumed = {} /\ tokens.latest = told
    BY <1>3, <1>4, <1>7 DEF Ids, HistoryIds
  <2>2. OncePerToken(tokens.history) /\ Newest(tokens.history, told)
    BY <1>7, <2>1 DEF OncePerToken, Newest
  <2>3. \A t \in OpIds : ~(told[t] > 0)
    BY <1>4
  <2>4. tokens.inflight = {ops[u].token : u \in {o \in Known : Pending(o) /\ ops[o].action \in Undos}}
    BY <1>8, <2>1
  <2> QED BY <1>4, <1>8, <2>1, <2>2, <2>3, <2>4 DEF Tokens
<1>17. Taggings
  <2>1. TaggingStops
    BY <1>5 DEF TaggingStops, Known
  <2>2. \A o \in OpIds : reader[o] = "none" /\ o \notin ToSet(backlog)
    BY <1>4, <1>7
  <2>3. DOMAIN reader = OpIds /\ parents \subseteq OpIds
    BY <1>4
  <2>4. \A u \in Known : ops[u].action \notin Undos
    BY <1>5 DEF Undos
  <2> QED BY <2>1, <2>2, <2>3, <2>4 DEF Taggings
<1> QED BY <1>9, <1>10, <1>11, <1>12, <1>13, <1>14, <1>15, <1>16, <1>17 DEF IInv

\* The invariant is inductive.
LEMMA NextKeeps == ASSUME IInv, [Next]_vars PROVE IInv'
<1>1. ASSUME NEW a \in Actions, NEW advance \in BOOLEAN, Sort(a, advance) PROVE IInv'
  BY <1>1, SortKeeps
<1>2. ASSUME NEW d \in {1, -1}, Move(d) PROVE IInv'
  BY <1>2, MoveKeeps
<1>3. ASSUME NEW f \in Folders, Reload(f) PROVE IInv'
  BY <1>3, ReloadKeeps
<1>4. ASSUME Undo \/ Close PROVE IInv'
  BY <1>4, UndoKeeps, CloseKeeps
<1>5. ASSUME SettleRequest \/ Replay PROVE IInv'
  BY <1>5, SettleRequestKeeps, ReplayKeeps
<1>6. ASSUME NEW m \in inbox, Deliver(m) PROVE IInv'
  BY <1>6, DeliverKeeps
<1>7. ASSUME NEW o \in OpIds, Infer(o) \/ ReceiveTags(o) \/ FinishReader(o) PROVE IInv'
  BY <1>7, InferKeeps, ReceiveTagsKeeps, FinishReaderKeeps
<1>8. ASSUME UNCHANGED vars PROVE IInv'
  <2>1. UNCHANGED <<window, service, inbox, notes, enrichment>>
    BY <1>8 DEF vars, window, service, notes, enrichment
  <2>2. EnrichmentTypeOK' /\ DOMAIN reader' = OpIds
    BY <2>1, TaggingTypeStays DEF IInv, TypeOK, Taggings, enrichment
  <2> QED BY <2>1, <2>2, TaggingStepKeeps DEF enrichment
<1> QED BY <1>1, <1>2, <1>3, <1>4, <1>5, <1>6, <1>7, <1>8 DEF Next

\* The inductive invariant of the window, with its type invariant.
THEOREM ReviewInvariance == Spec => []IInv
<1>1. Init => IInv
  BY InitHolds
<1>2. IInv /\ [Next]_vars => IInv'
  BY NextKeeps
<1> QED BY <1>1, <1>2, PTL DEF Spec

\* The queue of the main window agrees with the folder wherever no operation is out:
\* no result that fails, comes late or is undone in between leaves a wrong queue behind
\* (on_operation_result in ui_main.py).
THEOREM QueueIsTrue == Spec => []ViewTruth
<1>1. IInv => ViewTruth
  BY InvGivesTruth
<1> QED BY <1>1, ReviewInvariance, PTL

\* The held image keeps its place among its neighbours while the queue shrinks around it
\* (remove_image_from_queue, _navigate).
THEOREM GapIsHeld == Spec => []HeldGap
<1>1. IInv => HeldGap
  BY InvGivesGap
<1> QED BY <1>1, ReviewInvariance, PTL

\* A token the window was told of is offered once in its newest revision, submitted,
\* spent or pushed out, never lost and never offered twice (_remember_undo,
\* on_operation_result).
THEOREM TokensHavePlaces == Spec => []TokenPlaces
<1>1. IInv => TokenPlaces
  BY InvGivesPlaces
<1> QED BY <1>1, ReviewInvariance, PTL

\* No metadata is submitted for a sort once its undo was (undo_last_action cancels the
\* sort in the enrichment queue, whatever its reader still answers).
THEOREM UndoStopsTagging == Spec => []TaggingStops
<1>1. IInv => TaggingStops
  BY DEF IInv, Taggings
<1> QED BY <1>1, ReviewInvariance, PTL

\* What is shown of a view whose queue skips the images P.
ShownOf(v, P) ==
  IF v.held # NoHold THEN v.held.image
  ELSE IF v.complete \/ v.current \notin Positions(v.images) \/ At(v.images, v.current) \in P THEN NoImage
  ELSE At(v.images, v.current)

\* A message of another kind leaves what is shown.
LEMMA SelectionStays ==
  ASSUME IInv, NEW m, Deliver(m), Shown # NoImage, ~Returns(m)
  PROVE  Shown' = Shown
<1>0. PICK o : o = m.op
  OBVIOUS
<1>1. PICK P : P = PendingImages(ops')
  OBVIOUS
<1>2. PICK Q : Q = PendingImages(ops)
  OBVIOUS
<1>3. /\ o \in Known /\ Known' = Known /\ ops[o].image \in Images /\ generation' = generation
      /\ ops[o].action \in Sorts \cup Undos \cup {"metadata"}
      /\ \A p \in Known : ops'[p].action = ops[p].action /\ ops'[p].image = ops[p].image /\ ops'[p].gen = ops[p].gen
      /\ \A p \in Known : Pending(p)' <=> Pending(p) /\ p # o
  BY <1>0, AnsweringIs, MessageFacts, StillPending DEF Answering
<1>4. P = {ops'[p].image : p \in {q \in DOMAIN ops' :
             ops'[q].gen = generation /\ ops'[q].state = "pending" /\ ops'[q].action \in Takes}}
  BY <1>1 DEF PendingImages, Takes
<1>5. Q = {ops[p].image : p \in {q \in DOMAIN ops :
             ops[q].gen = generation /\ ops[q].state = "pending" /\ ops[q].action \in Takes}}
  BY <1>2 DEF PendingImages, Takes
<1>6. \A x \in P : x \in Q
  BY <1>3, <1>4, <1>5 DEF Known, Pending
<1>7. Shown = ShownOf(view, Q)
  BY <1>2 DEF Shown, ShownOf
<1>8. Shown' = ShownOf(view', P)
  BY <1>3, <1>4 DEF Shown, ShownOf, PendingImages, Takes
<1>9. SUFFICES ShownOf(view', P) = ShownOf(view, Q)
  BY <1>7, <1>8
<1>10. ShownOf(view, Q) # NoImage
  BY <1>7
<1>11. Good(view) /\ Distinct(view.images)
  BY DEF IInv, TypeOK, ViewTypeOK, Good, View, Queueing
<1>12. view.held = NoHold => /\ ~view.complete /\ view.current \in Positions(view.images)
                             /\ At(view.images, view.current) \notin Q /\ At(view.images, view.current) \notin P
  BY <1>6, <1>10 DEF ShownOf
<1>13. view' = view => ShownOf(view', P) = ShownOf(view, Q)
  BY <1>12 DEF ShownOf
<1>14. CASE ~(Pending(o) /\ ops[o].gen = generation /\ ops[o].action # "metadata")
  <2>1. view' = view
    BY <1>0, <1>14 DEF Deliver, OnOperationResult, OnHistory, CurrentView, Pending
  <2> QED BY <1>13, <2>1
<1>15. CASE Pending(o) /\ ops[o].gen = generation /\ ops[o].action # "metadata"
  <2>1. view' = Settle(view, o, m.ok, P)
    BY <1>0, <1>1, <1>15 DEF Deliver, OnOperationResult, CurrentView, Pending
  <2>2. ops[o].action \in Takes => ops[o].image \in Queue /\ Library[ops[o].image] = folder /\ ops[o].image \in Q
    <3>1. ops[o].action \in Takes => ops[o].image \in Queue
      BY <1>3, <1>15 DEF IInv, Queueing
    <3>2. ops[o].action \in Takes => ops[o].image \in Q
      BY <1>3, <1>5, <1>15 DEF Known, Pending
    <3> QED BY <3>1, <3>2 DEF IInv, Queueing
  <2>3. /\ ~(ops[o].action = "undo_move" /\ m.ok /\ Library[ops[o].image] = folder)
        /\ ~(ops[o].action \in Takes /\ ~m.ok)
    BY <1>0, <1>15, <2>2 DEF Returns, Pending, Takes
  <2>4. CASE ops[o].action \in Takes /\ m.ok
    <3>1. PICK v : v = IF view.held # NoHold /\ view.held.op = o THEN [view EXCEPT !.held.completed = TRUE] ELSE view
      OBVIOUS
    <3>2. PICK i \in Images : i = ops[o].image
      BY <1>3
    <3>3. view' = ShowImage(RemoveImage(v, i, P), P)
      BY <2>1, <2>4, <3>1, <3>2 DEF Settle, Takes
    <3>4. CASE view.held # NoHold
      <4>1. Removes(o)
        BY <1>3, <2>2, <2>4, <3>1, <3>2, <3>3, RemovesIs
      <4> QED BY <3>4, <4>1 DEF Removes, ShownOf
    <3>5. CASE view.held = NoHold
      <4>1. v = view
        BY <3>1, <3>5
      <4>2. PICK w : w = RemoveImage(view, i, P)
        OBVIOUS
      <4>3. PICK s, c : s = view.images /\ c = view.current
        OBVIOUS
      <4>4. Good(w) /\ w.complete = view.complete /\ (w.held = NoHold <=> view.held = NoHold)
        BY ONLY <1>11, <4>2, RemoveImageIs
      <4>5. \E k \in Positions(view.images) :
                /\ At(view.images, k) = i /\ Len(w.images) = Len(view.images) - 1
                /\ \A j \in Positions(w.images) :
                     At(w.images, j) = IF j < k THEN At(view.images, j) ELSE At(view.images, j + 1)
                /\ w.held.index = GapAfter(view, k)
                /\ view.held = NoHold /\ view.current \in Positions(view.images) /\ k # view.current
                     /\ At(view.images, view.current) \notin P
                   => w.current \in Positions(w.images) /\ At(w.images, w.current) = At(view.images, view.current)
        <5>1. i \in ToSet(view.images)
          BY <2>2, <2>4, <3>2 DEF Queue
        <5> QED BY ONLY <1>11, <4>2, <5>1, RemoveImageIs
      <4>6. PICK k \in Positions(view.images) :
                /\ At(view.images, k) = i
                /\ view.held = NoHold /\ view.current \in Positions(view.images) /\ k # view.current
                     /\ At(view.images, view.current) \notin P
                   => w.current \in Positions(w.images) /\ At(w.images, w.current) = At(view.images, view.current)
        BY <4>5
      <4>7. k # view.current
        BY <1>12, <2>2, <2>4, <3>2, <3>5, <4>6
      <4>8. w.current \in Positions(w.images) /\ At(w.images, w.current) = At(view.images, view.current)
        BY <1>12, <3>5, <4>6, <4>7
      <4>9. ShowImage(w, P) = w
        BY <1>12, <3>5, <4>4, <4>8, ShowImageIs
      <4>10. view' = w
        BY <3>3, <4>1, <4>2, <4>9
      <4> QED BY <1>12, <3>5, <4>4, <4>8, <4>10 DEF ShownOf
    <3> QED BY <3>4, <3>5
  <2>5. CASE ops[o].action \notin Takes
    <3>1. view' = ShowImage(view, P)
      BY <2>1, <2>3, <2>5 DEF Settle, Takes
    <3>2. ShowImage(view, P) = view
      <4>1. CASE view.held # NoHold
        BY <1>11, <4>1, ShowImageIs
      <4>2. CASE view.held = NoHold
        BY <1>11, <1>12, <4>2, ShowImageIs
      <4> QED BY <4>1, <4>2
    <3> QED BY <1>13, <3>1, <3>2
  <2> QED BY <2>3, <2>4, <2>5
<1> QED BY <1>14, <1>15

\* Only the GUI thread takes a message.
LEMMA OnlyDelivered ==
  ASSUME [Next]_vars, NEW m, m \in inbox \ inbox'
  PROVE  Deliver(m)
<1>1. ASSUME NEW a \in Actions, NEW advance \in BOOLEAN, Sort(a, advance) PROVE inbox' = inbox
  BY <1>1 DEF Sort
<1>2. ASSUME NEW d \in {1, -1}, Move(d) PROVE inbox' = inbox
  BY <1>2 DEF Move
<1>3. ASSUME NEW f \in Folders, Reload(f) PROVE inbox' = inbox
  BY <1>3 DEF Reload
<1>4. ASSUME Undo \/ Close PROVE inbox' = inbox
  BY <1>4 DEF Undo, Close
<1>5. ASSUME SettleRequest \/ Replay PROVE inbox \subseteq inbox'
  BY <1>5 DEF SettleRequest, Replay, Succeed, Fail, Lose
<1>6. ASSUME NEW n \in inbox, Deliver(n) PROVE n = m
  BY <1>6 DEF Deliver
<1>7. ASSUME NEW o \in OpIds, Infer(o) \/ ReceiveTags(o) \/ FinishReader(o) PROVE inbox' = inbox
  BY <1>7 DEF Infer, ReceiveTags, FinishReader
<1>8. ASSUME UNCHANGED vars PROVE inbox' = inbox
  BY <1>8 DEF vars
<1> QED BY <1>1, <1>2, <1>3, <1>4, <1>5, <1>6, <1>7, <1>8 DEF Next

\* A message that returns no image leaves the image the user looks at on the screen
\* (remove_image_from_queue and show_image skip what is pending, load_images starts again).
THEOREM SelectionIsKept == Spec => SelectionKept
<1>1. IInv /\ [Next]_vars => [\A m \in inbox \ inbox' : Shown # NoImage /\ ~Returns(m) => Shown' = Shown]_vars
  <2> SUFFICES ASSUME IInv, [Next]_vars, NEW m \in inbox \ inbox', Shown # NoImage, ~Returns(m)
               PROVE  Shown' = Shown
    OBVIOUS
  <2>1. Deliver(m)
    BY OnlyDelivered
  <2> QED BY <2>1, SelectionStays
<1> QED BY <1>1, ReviewInvariance, PTL DEF Spec, SelectionKept
=============================================================================
