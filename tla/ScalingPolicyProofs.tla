------------------------ MODULE ScalingPolicyProofs -------------------------
(***************************************************************************)
(* Proofs about ScalingPolicy, for any windows, limits and factors.        *)
(***************************************************************************)
EXTENDS ScalingPolicy, WellFoundedInduction, TLAPS

USE SMTT(30), ZenonT(60)

-----------------------------------------------------------------------------
(* Induction over the natural numbers, from the library's theorem that a   *)
(* set of them has a least element.                                        *)

Less == {ss \in Nat \X Nat : ss[1] < ss[2]}

LEMMA LessWellFounded == IsWellFoundedOn(Less, Nat)
BY NatLessThanWellFounded DEF OpToRel, Less

LEMMA LessDef == \A a, b \in Nat : <<a, b>> \in Less <=> a < b
BY DEF Less

LEMMA LeastElement ==
    ASSUME NEW T \in SUBSET Nat, T # {}
    PROVE  \E x \in T : \A y \in T : x <= y
<1>1. PICK x \in T : \A y \in T : <<y, x>> \notin Less
  BY LessWellFounded, WFMin, Zenon
<1>2. ASSUME NEW y \in T PROVE x <= y
  <2>1. <<y, x>> \notin Less
    BY <1>1, Zenon
  <2> QED BY <2>1, LessDef
<1> QED BY <1>2

LEMMA Induction ==
    ASSUME NEW S \in SUBSET Nat, 0 \in S, \A n \in S : n + 1 \in S
    PROVE  S = Nat
<1> DEFINE T == Nat \ S
<1>1. SUFFICES ASSUME T # {} PROVE FALSE
  BY Zenon
<1>2. PICK x \in T : \A y \in T : x <= y
  BY <1>1, LeastElement, Zenon
<1>3. x # 0 /\ x - 1 \in Nat /\ x - 1 \notin T
  BY <1>2
<1> QED BY <1>2, <1>3

-----------------------------------------------------------------------------
(* Sums of sequences.                                                      *)

\* f has the sums of the first 0, 1, ..., k elements of s.
Partial(f, s, k) ==
    /\ f \in [0..k -> Int] /\ f[0] = 0
    /\ \A n \in 1..k : f[n] = f[n - 1] + s[n]

LEMMA PartialExists ==
    ASSUME NEW s \in Seq(Int)
    PROVE  \E f : Partial(f, s, Len(s))
<1> DEFINE S == {k \in Nat : k <= Len(s) => \E f : Partial(f, s, k)}
<1>1. 0 \in S
  <2>1. Partial([n \in 0..0 |-> 0], s, 0)
    BY DEF Partial
  <2> QED BY <2>1
<1>2. ASSUME NEW k \in S PROVE k + 1 \in S
  <2>1. SUFFICES ASSUME k + 1 <= Len(s) PROVE \E f : Partial(f, s, k + 1)
    BY <1>2
  <2>2. PICK f : Partial(f, s, k)
    BY <1>2, <2>1
  <2> DEFINE g == [n \in 0..(k + 1) |-> IF n <= k THEN f[n] ELSE f[k] + s[k + 1]]
  <2>3. s[k + 1] \in Int
    BY <1>2, <2>1
  <2>4. k \in Nat /\ f \in [0..k -> Int] /\ f[0] = 0 /\ \A n \in 1..k : f[n] = f[n - 1] + s[n]
    BY <1>2, <2>2 DEF Partial
  <2>5. g \in [0..(k + 1) -> Int] /\ g[0] = 0
    BY <2>3, <2>4
  <2>6. ASSUME NEW n \in 1..(k + 1) PROVE g[n] = g[n - 1] + s[n]
    <3>1. CASE n = k + 1
      BY <2>4, <3>1
    <3>2. CASE n \in 1..k
      BY <2>4, <3>2
    <3> QED BY <2>4, <3>1, <3>2
  <2>7. Partial(g, s, k + 1)
    BY <2>5, <2>6, Zenon DEF Partial
  <2> QED BY <2>7
<1> HIDE DEF S
<1>3. S \in SUBSET Nat
  BY DEF S
<1>4. S = Nat
  BY <1>1, <1>2, <1>3, Induction
<1>5. Len(s) \in S
  BY <1>4
<1> QED BY <1>5 DEF S

LEMMA SumsDef ==
    ASSUME NEW s \in Seq(Int)
    PROVE  Partial(Sums(s), s, Len(s))
<1> DEFINE IsSums(f) == f = [n \in 0..Len(s) |-> IF n = 0 THEN 0 ELSE f[n - 1] + s[n]]
<1>1. PICK f : Partial(f, s, Len(s))
  BY PartialExists
<1>2. IsSums(f)
  <2>1. f = [n \in 0..Len(s) |-> f[n]]
    BY <1>1 DEF Partial
  <2>2. \A n \in 0..Len(s) : f[n] = IF n = 0 THEN 0 ELSE f[n - 1] + s[n]
    BY <1>1 DEF Partial
  <2> QED BY <2>1, <2>2, Zenon
<1>3. IsSums(Sums(s))
  BY <1>2, Zenon DEF Sums
<1> DEFINE g == Sums(s)
<1> HIDE DEF g
<1>4. /\ DOMAIN g = 0..Len(s) /\ g[0] = 0
      /\ \A n \in 1..Len(s) : g[n] = g[n - 1] + s[n]
  BY <1>3 DEF g
<1>5. \A n \in 0..Len(s) : g[n] = f[n]
  <2> DEFINE S == {k \in Nat : k <= Len(s) => g[k] = f[k]}
  <2>1. 0 \in S
    BY <1>1, <1>4 DEF Partial
  <2>2. ASSUME NEW k \in S PROVE k + 1 \in S
    BY <1>1, <1>4, <2>2 DEF Partial
  <2> HIDE DEF S
  <2>3. S = Nat
    BY <2>1, <2>2, Induction, Zenon DEF S
  <2> QED BY <2>3 DEF S
<1>6. g \in [0..Len(s) -> Int]
  <2>1. g = [n \in 0..Len(s) |-> g[n]]
    BY <1>3 DEF g
  <2> QED BY <1>1, <1>5, <2>1 DEF Partial
<1> QED BY <1>4, <1>6 DEF Partial, g

\* The first k elements of t are those of s from d on.
Shifted(t, s, k, d) == \A n \in 1..k : t[n] = s[n + d]

\* Sequences that agree on their first k elements have the same sums up to there,
\* and a sequence that is moved by one place has sums that differ by a constant.
LEMMA PartialShift ==
    ASSUME NEW s, NEW t, NEW k \in Nat, NEW d \in {0, 1}, NEW f, NEW g,
           NEW m \in Nat, k + d <= m, Partial(f, s, m), Partial(g, t, k),
           \A n \in 1..m : s[n] \in Int,
           Shifted(t, s, k, d)
    PROVE  g[k] = f[k + d] - f[d]
<1> DEFINE S == {n \in Nat : n <= k => g[n] = f[n + d] - f[d]}
<1>1. /\ f \in [0..m -> Int] /\ g \in [0..k -> Int] /\ g[0] = 0
      /\ \A n \in 1..m : f[n] = f[n - 1] + s[n]
      /\ \A n \in 1..k : g[n] = g[n - 1] + t[n]
  BY DEF Partial
<1>2. 0 \in S
  BY <1>1
<1>3. ASSUME NEW n \in S PROVE n + 1 \in S
  <2>1. SUFFICES ASSUME n + 1 <= k PROVE g[n + 1] = f[n + 1 + d] - f[d]
    BY <1>3
  <2>2. n \in Nat /\ g[n] = f[n + d] - f[d]
    BY <1>3, <2>1
  <2>3. g[n + 1] = g[n] + s[n + 1 + d]
    <3>1. n + 1 \in 1..k /\ (n + 1) - 1 = n
      BY <2>1, <2>2
    <3>2. g[n + 1] = g[n] + t[n + 1]
      BY <1>1, <3>1
    <3> QED BY <3>1, <3>2 DEF Shifted
  <2>4. f[n + 1 + d] = f[n + d] + s[n + 1 + d]
    <3>1. n + 1 + d \in 1..m /\ (n + 1 + d) - 1 = n + d
      BY <2>1, <2>2
    <3> QED BY <1>1, <3>1
  <2>5. f[n + d] \in Int /\ f[d] \in Int /\ f[n + 1 + d] \in Int
    BY <1>1, <2>1, <2>2
  <2>6. s[n + 1 + d] \in Int
    BY <2>1, <2>2
  <2> QED BY <2>2, <2>3, <2>4, <2>5, <2>6
<1> HIDE DEF S
<1>4. S = Nat
  BY <1>2, <1>3, Induction, Zenon DEF S
<1> QED BY <1>4 DEF S

LEMMA SumInt ==
    ASSUME NEW s \in Seq(Int)
    PROVE  SumOf(s) \in Int /\ (Len(s) = 0 => SumOf(s) = 0)
<1>1. Partial(Sums(s), s, Len(s))
  BY SumsDef
<1> QED BY <1>1 DEF Partial, SumOf

LEMMA SumAppend ==
    ASSUME NEW s \in Seq(Int), NEW v \in Int
    PROVE  SumOf(Append(s, v)) = SumOf(s) + v
<1> DEFINE t == Append(s, v)
           n == Len(s)
           f == Sums(t)
           g == Sums(s)
<1>1. t \in Seq(Int) /\ Len(t) = n + 1 /\ t[n + 1] = v /\ n \in Nat
      /\ (\A i \in 1..n : s[i] = t[i]) /\ (\A i \in 1..(n + 1) : t[i] \in Int)
  OBVIOUS
<1>2. Partial(f, t, n + 1) /\ Partial(g, s, n)
  BY <1>1, SumsDef, Zenon
<1> HIDE DEF t, n, f, g
<1>3. /\ f \in [0..(n + 1) -> Int] /\ f[0] = 0
      /\ \A i \in 1..(n + 1) : f[i] = f[i - 1] + t[i]
  BY <1>2 DEF Partial
<1>4. f[n + 1] = f[n] + v
  BY <1>1, <1>3
<1>5. g[n] = f[n + 0] - f[0]
  <2>1. Shifted(s, t, n, 0)
    BY <1>1 DEF Shifted
  <2> QED BY <1>1, <1>2, <2>1, PartialShift
<1>6. g[n] = f[n]
  BY <1>1, <1>3, <1>5
<1> QED BY <1>1, <1>4, <1>6 DEF t, n, f, g, SumOf

\* Taking the oldest sample out of a full window takes it out of the sum.
LEMMA SumTail ==
    ASSUME NEW s \in Seq(Int), s # <<>>
    PROVE  SumOf(Tail(s)) = SumOf(s) - s[1]
<1> DEFINE t == Tail(s)
           n == Len(t)
           f == Sums(s)
           g == Sums(t)
<1>1. /\ t \in Seq(Int) /\ n \in Nat /\ Len(s) = n + 1
      /\ \A i \in 1..n : t[i] = s[i + 1]
      /\ \A i \in 1..(n + 1) : s[i] \in Int
  OBVIOUS
<1>2. Partial(f, s, n + 1) /\ Partial(g, t, n)
  BY <1>1, SumsDef, Zenon
<1> HIDE DEF t, n, f, g
<1>3. g[n] = f[n + 1] - f[1]
  <2>1. Shifted(t, s, n, 1)
    BY <1>1 DEF Shifted
  <2> QED BY <1>1, <1>2, <2>1, PartialShift
<1>4. f[1] = s[1]
  <2>1. f[0] = 0 /\ f[1] = f[1 - 1] + s[1]
    BY <1>1, <1>2 DEF Partial
  <2> QED BY <1>1, <2>1
<1> QED BY <1>1, <1>3, <1>4 DEF t, n, f, g, SumOf

\* A sum of samples within limits is within as many times the limits.
LEMMA SumBounds ==
    ASSUME NEW s \in Seq(Int), NEW a \in Int, NEW b \in Int,
           \A i \in 1..Len(s) : a <= s[i] /\ s[i] <= b
    PROVE  Len(s) * a <= SumOf(s) /\ SumOf(s) <= Len(s) * b
<1> DEFINE n == Len(s)
           f == Sums(s)
           S == {k \in Nat : k <= n => k * a <= f[k] /\ f[k] <= k * b}
<1>1. n \in Nat /\ \A i \in 1..n : s[i] \in Int /\ a <= s[i] /\ s[i] <= b
  OBVIOUS
<1>2. /\ f \in [0..n -> Int] /\ f[0] = 0
      /\ \A k \in 1..n : f[k] = f[k - 1] + s[k]
  BY SumsDef DEF Partial
<1> HIDE DEF n, f
<1>3. 0 \in S
  BY <1>1, <1>2
<1>4. ASSUME NEW k \in S PROVE k + 1 \in S
  <2>1. SUFFICES ASSUME k + 1 <= n PROVE (k + 1) * a <= f[k + 1] /\ f[k + 1] <= (k + 1) * b
    BY <1>4
  <2>2. k \in Nat /\ k * a <= f[k] /\ f[k] <= k * b /\ f[k] \in Int
    BY <1>1, <1>2, <1>4, <2>1
  <2>3. f[k + 1] = f[k] + s[k + 1] /\ s[k + 1] \in Int /\ a <= s[k + 1] /\ s[k + 1] <= b
    <3>1. k + 1 \in 1..n /\ (k + 1) - 1 = k
      BY <1>1, <2>1, <2>2
    <3> QED BY <1>1, <1>2, <3>1
  <2>4. (k + 1) * a = k * a + a /\ (k + 1) * b = k * b + b
    BY <2>2
  <2>5. k * a \in Int /\ k * b \in Int
    BY <2>2
  <2> QED BY <2>2, <2>3, <2>4, <2>5
<1>5. S \in SUBSET Nat
  OBVIOUS
<1> HIDE DEF S
<1>6. S = Nat
  BY <1>3, <1>4, <1>5, Induction, Zenon
<1> QED BY <1>1, <1>6 DEF S, n, f, SumOf

-----------------------------------------------------------------------------
(* Division rounded up.                                                    *)

\* CeilDiv(a, b) is the least number that times b is at least a.
LEMMA CeilDivDef ==
    ASSUME NEW a \in Int, NEW b \in Nat \ {0}
    PROVE  /\ CeilDiv(a, b) \in Int
           /\ a <= CeilDiv(a, b) * b
           /\ (CeilDiv(a, b) - 1) * b < a
<1> DEFINE q == (-a) \div b
           r == (-a) % b
<1>1. q \in Int /\ r \in 0..(b - 1) /\ -a = b * q + r
  OBVIOUS
<1> HIDE DEF q, r
<1>2. CeilDiv(a, b) = -q
  BY DEF CeilDiv, q
<1>3. (-q) * b = -(b * q) /\ ((-q) - 1) * b = -(b * q) - b /\ b * q \in Int
  BY <1>1
<1> QED BY <1>1, <1>2, <1>3

LEMMA CeilDivAtMost ==
    ASSUME NEW a \in Int, NEW b \in Nat \ {0}, NEW c \in Int, a <= b * c
    PROVE  CeilDiv(a, b) <= c
<1> DEFINE q == CeilDiv(a, b)
<1>1. q \in Int /\ (q - 1) * b < a
  BY CeilDivDef
<1> HIDE DEF q
<1>2. SUFFICES ASSUME c <= q - 1 PROVE FALSE
  BY <1>1 DEF q
<1>3. b * c <= b * (q - 1)
  BY <1>1, <1>2
<1>4. b * (q - 1) = (q - 1) * b /\ b * c \in Int /\ b * (q - 1) \in Int
  BY <1>1
<1> QED BY <1>1, <1>3, <1>4

LEMMA CeilDivAtLeast ==
    ASSUME NEW a \in Int, NEW b \in Nat \ {0}, NEW c \in Int, b * c <= a
    PROVE  c <= CeilDiv(a, b)
<1> DEFINE q == CeilDiv(a, b)
<1>1. q \in Int /\ a <= q * b
  BY CeilDivDef
<1> HIDE DEF q
<1>2. SUFFICES ASSUME q + 1 <= c PROVE FALSE
  BY <1>1 DEF q
<1>3. b * (q + 1) <= b * c
  BY <1>1, <1>2
<1>4. b * (q + 1) = q * b + b /\ b * c \in Int /\ q * b \in Int
  BY <1>1
<1> QED BY <1>1, <1>3, <1>4

LEMMA CeilDivMono ==
    ASSUME NEW a \in Int, NEW c \in Int, NEW b \in Nat \ {0}, a <= c
    PROVE  CeilDiv(a, b) <= CeilDiv(c, b)
<1> DEFINE q == CeilDiv(c, b)
<1>1. q \in Int /\ c <= q * b
  BY CeilDivDef
<1> HIDE DEF q
<1>2. q * b = b * q /\ b * q \in Int
  BY <1>1
<1>3. a <= b * q
  BY <1>1, <1>2
<1>4. CeilDiv(a, b) <= q
  BY <1>1, <1>3, CeilDivAtMost
<1> QED BY <1>4 DEF q

-----------------------------------------------------------------------------
(* The moving average.                                                     *)

MovingAverage == [samples : Seq(Int), next : Nat, sum : Int]

\* Where the i-th oldest of n samples is, when next is the position after the
\* newest one.
Slot(next, n, i) == IF next + i <= n THEN next + i ELSE (next + i) - n

\* The circle holds the samples seen, from the oldest to the newest, and their sum.
Holds(m, window, seen) ==
    /\ m \in MovingAverage /\ seen \in Seq(Int)
    /\ Len(m.samples) = Len(seen) /\ Len(seen) <= window
    /\ m.next <= Len(seen)
    /\ Len(seen) < window => m.next = Len(seen)
    /\ seen # <<>> => m.next >= 1
    /\ \A i \in 1..Len(seen) : seen[i] = m.samples[Slot(m.next, Len(seen), i)]
    /\ m.sum = SumOf(seen)

Inv ==
    /\ Holds(loads, WindowIn, loadsSeen)
    /\ Holds(targets, WindowTarget, targetsSeen)
    /\ loadsSeen = <<>> <=> targetsSeen = <<>>
    /\ \A i \in 1..Len(targetsSeen) : targetsSeen[i] \in Minimum..MaxInstances
    /\ target \in Int /\ demand \in 0..MaxDemand /\ changes \in 0..MaxChanges
    /\ TargetWithinLimits

\* The position before the one that is overwritten when n samples are there.
Wrap(next, n) == IF next = n THEN 0 ELSE next

\* Overwriting the oldest sample moves every other one to the next older place.
LEMMA SlotNext ==
    ASSUME NEW n \in Nat \ {0}, NEW next \in 1..n
    PROVE  /\ Slot(next, n, 1) = Wrap(next, n) + 1
           /\ Slot(Wrap(next, n) + 1, n, n) = Wrap(next, n) + 1
           /\ \A i \in 1..(n - 1) :
                  /\ Slot(Wrap(next, n) + 1, n, i) = Slot(next, n, i + 1)
                  /\ Slot(Wrap(next, n) + 1, n, i) \in 1..n
                  /\ Slot(Wrap(next, n) + 1, n, i) # Wrap(next, n) + 1
BY DEF Slot, Wrap

LEMMA WrapMod ==
    ASSUME NEW n \in Nat \ {0}, NEW next \in 1..n
    PROVE  next % n = Wrap(next, n)
<1>1. CASE next = n
  BY <1>1 DEF Wrap
<1>2. CASE next < n
  BY <1>2 DEF Wrap
<1> QED BY <1>1, <1>2

LEMMA NewHolds ==
    ASSUME NEW window \in Nat \ {0}
    PROVE  Holds(newMovingAverage, window, <<>>)
<1>1. <<>> \in Seq(Int) /\ Len(<<>>) = 0
  OBVIOUS
<1>2. SumOf(<<>>) = 0
  BY <1>1, SumInt, Zenon
<1> QED BY <1>1, <1>2 DEF Holds, newMovingAverage, MovingAverage

\* While there is capacity, AddSample appends.
LEMMA AddSampleAppends ==
    ASSUME NEW m, NEW window \in Nat \ {0}, NEW seen, NEW v \in Int,
           Holds(m, window, seen), Len(seen) < window
    PROVE  /\ Recent(Append(seen, v), window) = Append(seen, v)
           /\ Holds(AddSample(m, window, v), window, Append(seen, v))
<1> DEFINE n == Len(seen)
           w == AddSample(m, window, v)
           t == Append(seen, v)
<1>1. /\ m \in MovingAverage /\ seen \in Seq(Int) /\ n \in Nat
      /\ Len(m.samples) = n /\ m.next = n /\ m.sum = SumOf(seen)
      /\ \A i \in 1..n : seen[i] = m.samples[Slot(m.next, n, i)]
  BY DEF Holds
<1>2. /\ m.samples \in Seq(Int) /\ m.next \in Nat /\ m.sum \in Int
  BY <1>1 DEF MovingAverage
<1>3. /\ w = [samples |-> Append(m.samples, v), next |-> n + 1, sum |-> m.sum + v]
  BY <1>1 DEF AddSample
<1>4. t \in Seq(Int) /\ Len(t) = n + 1 /\ \A i \in 1..(n + 1) : t[i] = IF i = n + 1 THEN v ELSE seen[i]
  BY <1>1
<1>5. Recent(t, window) = t
  BY <1>1, <1>4 DEF Recent
<1>6. \A i \in 1..(n + 1) : t[i] = Append(m.samples, v)[Slot(n + 1, n + 1, i)]
  <2>1. \A i \in 1..n : m.samples[i] = seen[i]
    BY <1>1 DEF Slot
  <2> QED BY <1>1, <1>2, <1>4, <2>1 DEF Slot
<1>7. SumOf(t) = m.sum + v
  BY <1>1, SumAppend
<1>8. /\ w \in MovingAverage /\ w.samples = Append(m.samples, v) /\ w.next = n + 1
      /\ w.sum = m.sum + v /\ Len(w.samples) = n + 1
  BY <1>1, <1>2, <1>3 DEF MovingAverage
<1>9. Holds(w, window, t)
  <2> HIDE DEF w, t
  <2>1. \A i \in 1..Len(t) : t[i] = w.samples[Slot(w.next, Len(t), i)]
    BY <1>4, <1>6, <1>8, Zenon
  <2>2. Len(t) <= window /\ w.next <= Len(t) /\ w.next >= 1 /\ w.next = Len(t)
    BY <1>1, <1>4, <1>8
  <2> QED BY <1>4, <1>7, <1>8, <2>1, <2>2, Zenon DEF Holds
<1> QED BY <1>5, <1>9

\* In a full window, AddSample overwrites the oldest sample and takes it out of
\* the sum.
LEMMA AddSampleOverwrites ==
    ASSUME NEW m, NEW window \in Nat \ {0}, NEW seen, NEW v \in Int,
           Holds(m, window, seen), Len(seen) = window
    PROVE  /\ Recent(Append(seen, v), window) = Tail(Append(seen, v))
           /\ Holds(AddSample(m, window, v), window, Tail(Append(seen, v)))
<1> DEFINE n == Len(seen)
           w == AddSample(m, window, v)
           u == Append(seen, v)
           t == Tail(u)
           x == m.next % window
           c == [m.samples EXCEPT ![x + 1] = v]
<1>1. /\ m \in MovingAverage /\ seen \in Seq(Int) /\ n = window /\ seen # <<>>
      /\ Len(m.samples) = n /\ m.next \in 1..n /\ m.sum = SumOf(seen)
      /\ \A i \in 1..n : seen[i] = m.samples[Slot(m.next, n, i)]
  BY DEF Holds, MovingAverage
<1>2. m.samples \in Seq(Int) /\ m.next \in Nat /\ m.sum \in Int
  BY <1>1 DEF MovingAverage
<1>3. x = Wrap(m.next, n)
  BY <1>1, WrapMod
<1>4. x \in 0..(n - 1)
  BY <1>1, <1>3 DEF Wrap
<1> HIDE DEF x
<1>5. w = [samples |-> c, next |-> x + 1, sum |-> (m.sum + v) - m.samples[x + 1]]
  BY <1>1 DEF AddSample, x
<1>6. seen[1] = m.samples[x + 1] /\ seen[1] \in Int
  <2>1. 1 \in 1..n /\ n \in Nat
    BY <1>1
  <2>2. Slot(m.next, n, 1) = x + 1
    BY <1>1, <1>3, <2>1, SlotNext
  <2> QED BY <1>1, <2>1, <2>2
<1>7. u \in Seq(Int) /\ Len(u) = n + 1 /\ u # <<>> /\ u[1] = seen[1]
  BY <1>1
<1>8. t \in Seq(Int) /\ Len(t) = n
      /\ \A i \in 1..n : t[i] = IF i = n THEN v ELSE seen[i + 1]
  BY <1>1
<1>9. Recent(u, window) = t
  BY <1>1, <1>7 DEF Recent
<1>10. c \in Seq(Int) /\ Len(c) = n
       /\ \A i \in 1..n : c[i] = IF i = x + 1 THEN v ELSE m.samples[i]
  BY <1>1, <1>2, <1>4
<1>11. ASSUME NEW i \in 1..n PROVE t[i] = c[Slot(x + 1, n, i)]
  <2>1. CASE i = n
    <3>1. Slot(x + 1, n, i) = x + 1
      BY <1>1, <1>4, <2>1 DEF Slot
    <3> QED BY <1>4, <1>8, <1>10, <2>1, <3>1
  <2>2. CASE i < n
    <3>1. Slot(x + 1, n, i) = Slot(m.next, n, i + 1) /\ Slot(x + 1, n, i) \in 1..n
          /\ Slot(x + 1, n, i) # x + 1
      BY <1>1, <1>3, <2>2, SlotNext
    <3>2. t[i] = seen[i + 1]
      BY <1>1, <1>8, <2>2
    <3>3. seen[i + 1] = m.samples[Slot(m.next, n, i + 1)]
      BY <1>1, <2>2
    <3> QED BY <1>10, <3>1, <3>2, <3>3
  <2> QED BY <1>1, <2>1, <2>2
<1>12. SumOf(t) = (m.sum + v) - m.samples[x + 1]
  <2>1. SumOf(t) = SumOf(u) - u[1]
    BY <1>7, SumTail, Zenon
  <2>2. SumOf(u) = SumOf(seen) + v
    BY <1>1, SumAppend
  <2> QED BY <1>1, <1>6, <1>7, <2>1, <2>2
<1>13. /\ w.samples = c /\ w.next = x + 1 /\ w.sum = (m.sum + v) - m.samples[x + 1]
       /\ w \in MovingAverage
  <2> HIDE DEF c, w
  <2> QED BY <1>1, <1>2, <1>4, <1>5, <1>6, <1>10 DEF MovingAverage
<1>14. Holds(w, window, t)
  <2> HIDE DEF w, t, c
  <2> QED BY <1>1, <1>4, <1>8, <1>10, <1>11, <1>12, <1>13 DEF Holds
<1> QED BY <1>9, <1>14

LEMMA AddSampleHolds ==
    ASSUME NEW m, NEW window \in Nat \ {0}, NEW seen, NEW v \in Int,
           Holds(m, window, seen)
    PROVE  Holds(AddSample(m, window, v), window, Recent(Append(seen, v), window))
<1>1. Len(seen) \in Nat /\ Len(seen) <= window
  BY DEF Holds
<1>2. CASE Len(seen) < window
  BY <1>2, AddSampleAppends, Zenon
<1>3. CASE Len(seen) = window
  <2>1. /\ Recent(Append(seen, v), window) = Tail(Append(seen, v))
        /\ Holds(AddSample(m, window, v), window, Tail(Append(seen, v)))
    BY <1>3, AddSampleOverwrites, ZenonT(60)
  <2> QED BY <2>1
<1> QED BY <1>1, <1>2, <1>3

LEMMA RecentAppend ==
    ASSUME NEW seen \in Seq(Int), NEW window \in Nat \ {0}, NEW v \in Int,
           Len(seen) <= window
    PROVE  /\ Recent(Append(seen, v), window) # <<>>
           /\ \A i \in 1..Len(Recent(Append(seen, v), window)) :
                  \/ Recent(Append(seen, v), window)[i] = v
                  \/ \E j \in 1..Len(seen) : Recent(Append(seen, v), window)[i] = seen[j]
<1> DEFINE u == Append(seen, v)
<1>1. u \in Seq(Int) /\ Len(u) = Len(seen) + 1
      /\ \A i \in 1..Len(u) : u[i] = IF i = Len(u) THEN v ELSE seen[i]
  OBVIOUS
<1>2. CASE Len(u) > window
  <2>1. Recent(u, window) = Tail(u)
    BY <1>2 DEF Recent
  <2>2. Len(Tail(u)) = Len(u) - 1 /\ Tail(u) # <<>>
        /\ \A i \in 1..Len(Tail(u)) : Tail(u)[i] = u[i + 1]
    BY <1>1, <1>2
  <2>3. ASSUME NEW i \in 1..Len(Tail(u))
        PROVE  Tail(u)[i] = v \/ \E j \in 1..Len(seen) : Tail(u)[i] = seen[j]
    <3>1. i + 1 \in 1..Len(u) /\ Tail(u)[i] = u[i + 1]
      BY <1>1, <2>2
    <3>2. CASE i + 1 = Len(u)
      BY <1>1, <3>1, <3>2
    <3>3. CASE i + 1 # Len(u)
      <4>1. i + 1 \in 1..Len(seen) /\ Tail(u)[i] = seen[i + 1]
        BY <1>1, <3>1, <3>3
      <4> QED BY <4>1
    <3> QED BY <3>2, <3>3
  <2> QED BY <2>1, <2>2, <2>3
<1>3. CASE ~(Len(u) > window)
  <2>1. Recent(u, window) = u
    BY <1>3 DEF Recent
  <2> QED BY <1>1, <2>1
<1> QED BY <1>2, <1>3

\* The average of a window is the mean of the samples seen, rounded up; it is
\* within limits that all of them are within.
LEMMA AverageHolds ==
    ASSUME NEW m, NEW window \in Nat \ {0}, NEW seen, Holds(m, window, seen), seen # <<>>
    PROVE  /\ Average(m) = MeanOf(seen)
           /\ Average(m) \in Int
           /\ \A a, b \in Int :
                  (\A i \in 1..Len(seen) : a <= seen[i] /\ seen[i] <= b)
                     => a <= Average(m) /\ Average(m) <= b
<1>1. /\ seen \in Seq(Int) /\ m.sum = SumOf(seen) /\ Len(m.samples) = Len(seen)
  BY DEF Holds
<1>2. Len(seen) \in Nat \ {0} /\ SumOf(seen) \in Int
  BY <1>1, SumInt
<1>3. Average(m) = CeilDiv(SumOf(seen), Len(seen))
  BY <1>1 DEF Average
<1>4. ASSUME NEW a \in Int, NEW b \in Int,
             \A i \in 1..Len(seen) : a <= seen[i] /\ seen[i] <= b
      PROVE  a <= Average(m) /\ Average(m) <= b
  <2>1. Len(seen) * a <= SumOf(seen) /\ SumOf(seen) <= Len(seen) * b
    BY <1>1, <1>4, SumBounds
  <2> QED BY <1>2, <1>3, <2>1, CeilDivAtMost, CeilDivAtLeast
<1>5. Average(m) \in Int
  BY <1>2, <1>3, CeilDivDef
<1> QED BY <1>3, <1>4, <1>5 DEF MeanOf

\* A larger sample never makes the average smaller.
LEMMA AverageMono ==
    ASSUME NEW m, NEW window \in Nat \ {0}, NEW seen, Holds(m, window, seen),
           NEW v \in Int, NEW w \in Int, v <= w
    PROVE  /\ Average(AddSample(m, window, v)) \in Int
           /\ Average(AddSample(m, window, w)) \in Int
           /\ Average(AddSample(m, window, v)) <= Average(AddSample(m, window, w))
<1> DEFINE a == AddSample(m, window, v)
           b == AddSample(m, window, w)
           x == m.next % window
<1>1. /\ m.samples \in Seq(Int) /\ m.next \in 0..window /\ m.sum \in Int
      /\ Len(m.samples) <= window /\ Len(m.samples) \in Nat
  BY DEF Holds, MovingAverage
<1>2. x \in 0..(window - 1)
  BY <1>1
<1> HIDE DEF x
<1>3. /\ Len(a.samples) = Len(b.samples) /\ Len(a.samples) \in Nat \ {0}
      /\ a.sum \in Int /\ b.sum \in Int /\ a.sum <= b.sum
  <2>1. CASE Len(m.samples) < window
    <3>1. /\ a.samples = Append(m.samples, v) /\ a.sum = m.sum + v
          /\ b.samples = Append(m.samples, w) /\ b.sum = m.sum + w
      BY <2>1 DEF AddSample
    <3> HIDE DEF a, b
    <3> QED BY <1>1, <3>1
  <2>2. CASE Len(m.samples) = window
    <3>1. /\ a.samples = [m.samples EXCEPT ![x + 1] = v]
          /\ a.sum = (m.sum + v) - m.samples[x + 1]
          /\ b.samples = [m.samples EXCEPT ![x + 1] = w]
          /\ b.sum = (m.sum + w) - m.samples[x + 1]
      BY <2>2 DEF AddSample, x
    <3>2. m.samples[x + 1] \in Int
      BY <1>1, <1>2, <2>2
    <3> HIDE DEF a, b
    <3> QED BY <1>1, <2>2, <3>1, <3>2
  <2> QED BY <1>1, <2>1, <2>2
<1> HIDE DEF a, b
<1>4. CeilDiv(a.sum, Len(a.samples)) <= CeilDiv(b.sum, Len(a.samples))
  BY <1>3, CeilDivMono
<1> QED BY <1>3, <1>4, CeilDivDef, Zenon DEF a, b, Average

-----------------------------------------------------------------------------
(* AIMD and MinMax.                                                        *)

LEMMA LimitsOK == Minimum \in Nat \ {0} /\ MaxInstances \in Nat /\ Minimum <= MaxInstances
BY PolicyAssumption DEF Minimum

LEMMA MinMaxInLimits ==
    ASSUME NEW v \in Int
    PROVE  MinMax(v) \in Minimum..MaxInstances
BY LimitsOK DEF MinMax

LEMMA MinMaxMono ==
    ASSUME NEW v \in Int, NEW w \in Int, v <= w
    PROVE  MinMax(v) <= MinMax(w)
BY LimitsOK DEF MinMax

\* The part of the instances that a negative load gives back.
LEMMA DecreaseOK ==
    ASSUME NEW l \in Int, l <= 0
    PROVE  -l * MulNum \in Nat /\ CeilDiv(-l * MulNum, MulDen) \in Nat
<1>1. -l * MulNum \in Int /\ -l * MulNum >= 0
  BY PolicyAssumption
<1>2. MulDen * 0 <= -l * MulNum /\ MulDen \in Nat \ {0}
  BY <1>1, PolicyAssumption
<1> DEFINE d == -l * MulNum
<1> HIDE DEF d
<1>3. d \in Int /\ d >= 0 /\ MulDen * 0 <= d
  BY <1>1, <1>2 DEF d
<1>4. CeilDiv(d, MulDen) \in Int /\ 0 <= CeilDiv(d, MulDen)
  BY <1>2, <1>3, CeilDivDef, CeilDivAtLeast
<1> QED BY <1>3, <1>4 DEF d

LEMMA DecreaseMono ==
    ASSUME NEW l \in Int, NEW k \in Int, l <= k, k <= 0
    PROVE  CeilDiv(-k * MulNum, MulDen) <= CeilDiv(-l * MulNum, MulDen)
<1>1. -k * MulNum \in Int /\ -l * MulNum \in Int /\ -k * MulNum <= -l * MulNum
  <2>1. MulNum \in Nat /\ -k <= -l /\ -k \in Nat /\ -l \in Nat
    BY PolicyAssumption
  <2> QED BY <2>1
<1> QED BY <1>1, CeilDivMono, PolicyAssumption

\* AIMD grows with the load.
LEMMA AIMDMono ==
    ASSUME NEW total \in Int, NEW i \in Int, NEW w \in Int, NEW j \in Int, NEW x \in Int,
           w - i <= x - j
    PROVE  /\ AIMD(total, i, w) \in Int /\ AIMD(total, j, x) \in Int
           /\ AIMD(total, i, w) <= AIMD(total, j, x)
<1> DEFINE Size(l) == IF l >= 0 THEN total + (IF Add > l THEN l ELSE Add)
                      ELSE total - CeilDiv(-l * MulNum, MulDen)
<1>1. Add \in Nat
  BY PolicyAssumption
<1>2. ASSUME NEW l \in Int PROVE Size(l) \in Int
  BY <1>1, DecreaseOK
<1>3. ASSUME NEW l \in Int, NEW k \in Int, l <= k PROVE Size(l) <= Size(k)
  <2>1. CASE l >= 0
    BY <1>1, <1>3, <2>1
  <2>2. CASE l < 0 /\ k >= 0
    BY <1>1, <2>2, DecreaseOK
  <2>3. CASE k < 0
    <3>1. CeilDiv(-k * MulNum, MulDen) <= CeilDiv(-l * MulNum, MulDen)
      BY <1>3, <2>3, DecreaseMono
    <3>2. CeilDiv(-k * MulNum, MulDen) \in Int /\ CeilDiv(-l * MulNum, MulDen) \in Int
      BY <1>3, <2>3, DecreaseOK
    <3> QED BY <1>3, <2>3, <3>1, <3>2
  <2> QED BY <1>3, <2>1, <2>2, <2>3
<1>4. /\ AIMD(total, i, w) = IF Size(w - i) < 1 THEN 1 ELSE Size(w - i)
      /\ AIMD(total, j, x) = IF Size(x - j) < 1 THEN 1 ELSE Size(x - j)
  BY DEF AIMD
<1> HIDE DEF Size
<1>5. Size(w - i) \in Int /\ Size(x - j) \in Int /\ Size(w - i) <= Size(x - j)
  BY <1>2, <1>3
<1> QED BY <1>4, <1>5

-----------------------------------------------------------------------------
(* The policy.                                                             *)

\* What SubTarget answers is within the limits.
LEMMA SubTargetInLimits ==
    ASSUME Inv, NEW total \in Int, NEW idle \in Int, NEW waiting \in Int
    PROVE  SubTarget(total, idle, waiting) \in Minimum..MaxInstances
<1> DEFINE a == Average(AddSample(loads, WindowIn, waiting))
<1>1. a \in Int
  <2>1. WindowIn \in Nat \ {0} /\ Holds(loads, WindowIn, loadsSeen) /\ waiting <= waiting
    BY WindowAssumption DEF Inv
  <2> QED BY <2>1, AverageMono
<1> HIDE DEF a
<1>2. AIMD(total, idle, a) \in Int
  BY <1>1, AIMDMono
<1> QED BY <1>2, MinMaxInLimits DEF SubTarget, a

LEMMA InvInit == Init => Inv
<1> SUFFICES ASSUME Init PROVE Inv
  OBVIOUS
<1>1. /\ Holds(loads, WindowIn, loadsSeen) /\ Holds(targets, WindowTarget, targetsSeen)
  BY NewHolds, WindowAssumption DEF Init
<1>2. targetsSeen = <<>> /\ Len(targetsSeen) = 0
  BY DEF Init
<1> QED BY <1>1, <1>2, PolicyAssumption DEF Init, Inv, TargetWithinLimits

LEMMA InvTick == Inv /\ Tick => Inv'
<1> SUFFICES ASSUME Inv, Tick PROVE Inv'
  OBVIOUS
<1> DEFINE v == SubTarget(target, Idle, Waiting)
<1>1. target \in Int /\ demand \in Nat /\ Idle \in Int /\ Waiting \in Int
  BY PolicyAssumption DEF Inv, Idle, Waiting
<1>2. v \in Minimum..MaxInstances /\ v \in Int
  BY <1>1, SubTargetInLimits, LimitsOK
<1>3. /\ loads' = AddSample(loads, WindowIn, Waiting)
      /\ targets' = AddSample(targets, WindowTarget, v)
      /\ target' = (LET t == Average(targets') IN IF t < 1 THEN 1 ELSE t)
      /\ loadsSeen' = Recent(Append(loadsSeen, Waiting), WindowIn)
      /\ targetsSeen' = Recent(Append(targetsSeen, v), WindowTarget)
      /\ UNCHANGED <<demand, changes>>
  BY DEF Tick, Scale
<1> HIDE DEF v
<1>4. Holds(loads', WindowIn, loadsSeen') /\ Holds(targets', WindowTarget, targetsSeen')
  BY <1>1, <1>2, <1>3, AddSampleHolds, WindowAssumption DEF Inv
<1>5. /\ loadsSeen \in Seq(Int) /\ Len(loadsSeen) <= WindowIn
      /\ targetsSeen \in Seq(Int) /\ Len(targetsSeen) <= WindowTarget
  BY DEF Inv, Holds
<1>6. loadsSeen' # <<>>
  BY <1>1, <1>3, <1>5, RecentAppend, WindowAssumption
<1>7. /\ targetsSeen' # <<>>
      /\ \A i \in 1..Len(targetsSeen') :
            targetsSeen'[i] = v \/ \E j \in 1..Len(targetsSeen) : targetsSeen'[i] = targetsSeen[j]
  BY <1>2, <1>3, <1>5, RecentAppend, WindowAssumption
<1>8. \A i \in 1..Len(targetsSeen') : targetsSeen'[i] \in Minimum..MaxInstances
  BY <1>2, <1>7 DEF Inv
<1>9. Average(targets') \in Minimum..MaxInstances
  <2>1. Average(targets') \in Int /\ Minimum <= Average(targets') /\ Average(targets') <= MaxInstances
    <3>1. WindowTarget \in Nat \ {0} /\ Minimum \in Int /\ MaxInstances \in Int
      BY LimitsOK, WindowAssumption
    <3>2. \A i \in 1..Len(targetsSeen') : Minimum <= targetsSeen'[i] /\ targetsSeen'[i] <= MaxInstances
      BY <1>8, <3>1
    <3>3. /\ Average(targets') \in Int
          /\ \A a, b \in Int :
                (\A i \in 1..Len(targetsSeen') : a <= targetsSeen'[i] /\ targetsSeen'[i] <= b)
                   => a <= Average(targets') /\ Average(targets') <= b
      BY <1>4, <1>7, <3>1, AverageHolds, Zenon
    <3> QED BY <3>1, <3>2, <3>3, Zenon
  <2> QED BY <2>1, LimitsOK
<1>10. target' = Average(targets') /\ target' \in Minimum..MaxInstances /\ target' >= 1 /\ target' \in Int
  BY <1>3, <1>9, LimitsOK
<1>11. TargetWithinLimits'
  BY <1>10 DEF TargetWithinLimits
<1> QED BY <1>3, <1>4, <1>6, <1>7, <1>8, <1>10, <1>11 DEF Inv

LEMMA InvChangeDemand == Inv /\ ChangeDemand => Inv'
<1> SUFFICES ASSUME Inv, ChangeDemand PROVE Inv'
  OBVIOUS
<1>1. demand' \in 0..MaxDemand /\ changes' \in 0..MaxChanges
  BY PolicyAssumption DEF Inv, ChangeDemand
<1>2. UNCHANGED <<loads, targets, target, loadsSeen, targetsSeen>>
  BY DEF ChangeDemand
<1> QED BY <1>1, <1>2 DEF Inv, TargetWithinLimits

\* The circle of each moving average holds the samples of its window in their
\* order, with their sum, however often AddSample went round; every target that
\* was averaged is within the limits of MinMax, and so is the average.
THEOREM ScalingInvariant == Spec => []Inv
<1>1. ASSUME Inv, [Next]_vars PROVE Inv'
  <2>1. CASE Tick
    BY <1>1, <2>1, InvTick
  <2>2. CASE ChangeDemand
    BY <1>1, <2>2, InvChangeDemand
  <2>3. CASE UNCHANGED vars
    BY <1>1, <2>3 DEF vars, Inv, TargetWithinLimits
  <2> QED BY <1>1, <2>1, <2>2, <2>3 DEF Next
<1> QED BY <1>1, InvInit, PTL DEF Spec

\* The windows of AddSample never outgrow their capacity, and next stays in it.
THEOREM ScalingTypes == Spec => []TypeOK
<1>1. Inv => TypeOK
  BY WindowAssumption DEF Inv, TypeOK, Holds, MovingAverage
<1> QED BY <1>1, ScalingInvariant, PTL

\* AddSample's running sum, divided, is the mean of the last samples rounded up,
\* for windows of every size.
THEOREM ScalingWindowAverage == Spec => []WindowAverage
<1>1. Inv => WindowAverage
  BY AverageHolds, WindowAssumption DEF Inv, WindowAverage
<1> QED BY <1>1, ScalingInvariant, PTL

\* The averaged target is within the limits that MinMax sets, and at least one,
\* for all limits and windows.
THEOREM ScalingTargetWithinLimits == Spec => []TargetWithinLimits
<1>1. Inv => TargetWithinLimits
  BY DEF Inv
<1> QED BY <1>1, ScalingInvariant, PTL

\* With one more waiting request the policy asks for no fewer instances, with one
\* more idle instance for no more, for all factors of AIMD.
THEOREM ScalingMonotone == Spec => []Monotone
<1>1. ASSUME Inv, NEW total \in 0..MaxInstances, NEW idle \in 0..MaxDemand,
             NEW waiting \in 0..MaxDemand
      PROVE  /\ SubTarget(total, idle, waiting) <= SubTarget(total, idle, waiting + 1)
             /\ SubTarget(total, idle + 1, waiting) <= SubTarget(total, idle, waiting)
  <2> DEFINE a == Average(AddSample(loads, WindowIn, waiting))
             b == Average(AddSample(loads, WindowIn, waiting + 1))
  <2>1. total \in Int /\ idle \in Int /\ waiting \in Int
    BY <1>1, PolicyAssumption
  <2>2. a \in Int /\ b \in Int /\ a <= b
    BY <1>1, <2>1, AverageMono, WindowAssumption DEF Inv
  <2> HIDE DEF a, b
  <2>3. /\ AIMD(total, idle, a) \in Int /\ AIMD(total, idle, b) \in Int
        /\ AIMD(total, idle, a) <= AIMD(total, idle, b)
    <3>1. a - idle <= b - idle
      BY <2>1, <2>2
    <3> QED BY <2>1, <2>2, <3>1, AIMDMono, Zenon
  <2>4. /\ AIMD(total, idle + 1, a) \in Int
        /\ AIMD(total, idle + 1, a) <= AIMD(total, idle, a)
    <3>1. idle + 1 \in Int /\ a - (idle + 1) <= a - idle
      BY <2>1, <2>2
    <3> QED BY <2>1, <2>2, <3>1, AIMDMono, Zenon
  <2>5. /\ MinMax(AIMD(total, idle, a)) <= MinMax(AIMD(total, idle, b))
        /\ MinMax(AIMD(total, idle + 1, a)) <= MinMax(AIMD(total, idle, a))
    BY <2>3, <2>4, MinMaxMono
  <2> QED BY <2>5 DEF SubTarget, a, b
<1>2. Inv => Monotone
  BY <1>1 DEF Monotone
<1> QED BY <1>2, ScalingInvariant, PTL

=============================================================================
