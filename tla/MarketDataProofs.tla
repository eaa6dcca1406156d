-------------------------- MODULE MarketDataProofs --------------------------
(* Proofs about what MCMarketData.tla puts side by side: the bars of the       *)
(* runtime and of the script (BarBuilding.tla), and the monthly files          *)
(* (TickDownload.tla), from "The monthly files" on.                            *)
EXTENDS MCMarketData, TLAPS, SequenceTheorems, FiniteSetTheorems,
        WellFoundedInduction

Bar == [from : Nat, to : Nat, open : Nat, close : Nat, high : Nat, low : Nat,
        hpos : Nat, lpos : Nat, sign : {"up", "down", "flat"}, revisions : Nat]

\* IsBar and Changes of a market m.
BarIn(m, b, from, to, previous) ==
    /\ b.from = from /\ b.to = to
    /\ b.open = m[from] /\ b.close = m[to]
    /\ {b.hpos, b.lpos} \subseteq 0 .. to - from
    /\ m[from + b.hpos] = b.high /\ m[from + b.lpos] = b.low
    /\ \A t \in from .. to : b.low <= m[t] /\ m[t] <= b.high
    /\ b.high \notin {m[t] : t \in from .. from + b.hpos - 1}
    /\ b.low \notin {m[t] : t \in from .. from + b.lpos - 1}
    /\ b.sign = IF previous = 0 THEN "flat" ELSE Sign(b.close, previous)

ChangesIn(m, from, to, n) ==
    Cardinality({t \in from + 1 .. to : (t - from) % n # 0 /\ m[t] # m[t - 1]})

\* A bar of d ticks; first: it has no sign.
BarOf(m, b, d, first) ==
    /\ BarIn(m, b, b.from, b.from + d - 1, IF first THEN 0 ELSE m[b.from - 1])
    /\ b.revisions = ChangesIn(m, b.from, b.to, d)

\* The buffer is the end of the market, which began on the grid; so did every
\* bar since the restart, and the last of them ends where the buffer begins.
LiveShape ==
    /\ ticks \in Seq(Nat) /\ buffer \in Seq(Nat) /\ live \in Seq(Bar)
    /\ grid \in 0 .. Len(ticks) /\ Len(buffer) < LiveTicks
    /\ alone \subseteq 1 .. Len(live)
    /\ \E q \in Nat : Len(ticks) = grid + q * LiveTicks + Len(buffer)
    /\ \A j \in 1 .. Len(buffer) : buffer[j] = Len(ticks) - Len(buffer) + j
    /\ \A i \in 1 .. Len(live) :
         /\ live[i].from > 0 /\ live[i].to + Len(buffer) <= Len(ticks)
         /\ BarOf(ticks, live[i], LiveTicks, i \in alone)
         /\ live[i].from > grid =>
                \E k \in Nat : live[i].from = grid + k * LiveTicks + 1
         /\ i \notin alone => i > 1 /\ live[i - 1].to + 1 = live[i].from
    /\ Len(live) > 0 /\ live[Len(live)].from > grid =>
           live[Len(live)].to + Len(buffer) = Len(ticks)

-----------------------------------------------------------------------------
(* Least and greatest elements. *)

LEMMA Least ==
    ASSUME NEW S \in SUBSET Nat, S # {}
    PROVE  \E x \in S : \A y \in S : x <= y
<1>1. PICK x \in S : \A y \in S : ~ (<<y, x>> \in OpToRel(<, Nat))
  BY NatLessThanWellFounded, WFMin
<1>2. \A y \in S : ~ y < x
  BY <1>1 DEF OpToRel
<1> QED BY <1>2

LEMMA MinIsLeast ==
    ASSUME NEW S \in SUBSET Nat, S # {}
    PROVE  Min(S) \in S /\ \A y \in S : Min(S) <= y
BY Least DEF Min

\* The first part of a sequence without a greatest element would be longer than
\* one that has one by a single element.
LEMMA Greatest ==
    ASSUME NEW p \in Seq(Nat), p # <<>>
    PROVE  \E i \in 1 .. Len(p) : \A j \in 1 .. Len(p) : p[j] <= p[i]
<1> DEFINE Top(n) == \E i \in 1 .. n : \A j \in 1 .. n : p[j] <= p[i]
           bad == {n \in 1 .. Len(p) : ~Top(n)}
<1>1. Len(p) \in Nat \ {0} /\ \A i \in 1 .. Len(p) : p[i] \in Nat
  OBVIOUS
<1>2. SUFFICES ASSUME bad # {} PROVE FALSE
  <2>1. bad = {}
    BY <1>2
  <2>2. Len(p) \in 1 .. Len(p) /\ Len(p) \notin bad
    <3> HIDE DEF Top
    <3> QED BY <1>1, <2>1
  <2>3. Top(Len(p))
    <3> HIDE DEF Top
    <3> QED BY <2>2
  <2> QED BY <2>3
<1>3. PICK n \in bad : \A k \in bad : n <= k
  <2>1. bad \in SUBSET Nat
    <3> HIDE DEF Top
    <3> QED BY <1>1
  <2> QED BY <1>2, <2>1, Least
<1>4. n # 1
  <2>1. Top(1)
    <3>1. 1 \in 1 .. Len(p)
      BY <1>1
    <3>2. p[1] \in Nat
      BY <1>1, <3>1
    <3>3. p[1] <= p[1]
      <4>1. \A x \in Nat : x <= x
        OBVIOUS
      <4> HIDE DEF bad, Top
      <4> QED BY <3>2, <4>1, Zenon
    <3>4. \A j \in 1 .. 1 : j = 1
      OBVIOUS
    <3>5. \A j \in 1 .. 1 : p[j] <= p[1]
      BY <3>3, <3>4
    <3>6. 1 \in 1 .. 1
      OBVIOUS
    <3> QED BY <3>5, <3>6
  <2> QED BY <1>3, <2>1
<1>n. n \in 1 .. Len(p) /\ ~Top(n)
  <2> HIDE DEF Top
  <2> QED BY <1>3
<1>5. n - 1 \in 1 .. Len(p) /\ n \in 1 .. Len(p)
  <2> HIDE DEF bad, Top
  <2> QED BY <1>1, <1>4, <1>n
<1>6. Top(n - 1)
  <2>1. ~ n <= n - 1
    BY <1>5
  <2>2. n - 1 \notin bad
    BY <1>3, <2>1
  <2> HIDE DEF Top
  <2> QED BY <1>5, <2>2
<1>7. PICK i \in 1 .. n - 1 : \A j \in 1 .. n - 1 : p[j] <= p[i]
  BY <1>6
<1>8. p[n] \in Nat /\ p[i] \in Nat /\ \A j \in 1 .. n - 1 : p[j] \in Nat
  <2>1. n - 1 \in Nat /\ n - 1 <= Len(p)
    BY <1>1, <1>5
  <2>2. i \in 1 .. Len(p) /\ \A j \in 1 .. n - 1 : j \in 1 .. Len(p)
    <3> HIDE DEF bad, Top
    <3> QED BY <1>1, <2>1
  <2> HIDE DEF bad, Top
  <2> QED BY <1>1, <1>5, <2>2
<1>9. \A j \in 1 .. n : j = n \/ j \in 1 .. n - 1
  BY <1>5
<1>10. Top(n)
  <2>1. CASE p[n] <= p[i]
    <3>1. i \in 1 .. n /\ \A j \in 1 .. n : p[j] <= p[i]
      <4>1. n \in Nat /\ i \in Nat /\ i <= n /\ i >= 1
        <5> HIDE DEF bad, Top
        <5> QED BY <1>5
      <4>2. ASSUME NEW j \in 1 .. n PROVE p[j] <= p[i]
        BY <1>7, <1>9, <2>1, Zenon
      <4>3. i \in 1 .. n
        <5> HIDE DEF bad, Top
        <5> QED BY <4>1
      <4> QED BY <4>2, <4>3
    <3> QED BY <3>1
  <2>2. CASE ~ p[n] <= p[i]
    <3>1. \A j \in 1 .. n - 1 : p[j] <= p[n]
      <4> SUFFICES ASSUME NEW j \in 1 .. n - 1 PROVE p[j] <= p[n]
        OBVIOUS
      <4> DEFINE a == p[j]
                 b == p[i]
                 c == p[n]
      <4>1. a \in Nat /\ b \in Nat /\ c \in Nat /\ a <= b /\ ~ c <= b
        BY <1>7, <1>8, <2>2
      <4> HIDE DEF a, b, c
      <4>2. a <= c
        BY <4>1
      <4> QED BY <4>2 DEF a, c
    <3>2. n \in 1 .. n /\ p[n] <= p[n]
      <4>1. n \in 1 .. n
        BY <1>5
      <4>2. \A x \in Nat : x <= x
        OBVIOUS
      <4> QED BY <1>8, <4>1, <4>2
    <3>3. \A j \in 1 .. n : p[j] <= p[n]
      BY <1>9, <3>1, <3>2
    <3> QED BY <3>2, <3>3
  <2> QED BY <2>1, <2>2
<1> QED BY <1>3, <1>10

\* The extremes of a bar's prices.
LEMMA Extremes ==
    ASSUME NEW p \in Seq(Nat), p # <<>>
    PROVE  /\ Max(Range(p)) \in Range(p) /\ Min(Range(p)) \in Range(p)
           /\ \A j \in 1 .. Len(p) :
                  Min(Range(p)) <= p[j] /\ p[j] <= Max(Range(p))
<1>1. Range(p) = {p[j] : j \in 1 .. Len(p)}
  BY RangeEquality
<1>2. Range(p) \subseteq Nat /\ Len(p) \in Nat \ {0}
  BY <1>1
<1>3. Range(p) # {}
  BY <1>1, <1>2
<1>4. Min(Range(p)) \in Range(p) /\ \A y \in Range(p) : Min(Range(p)) <= y
  BY <1>2, <1>3, MinIsLeast
<1>5. Max(Range(p)) \in Range(p) /\ \A y \in Range(p) : Max(Range(p)) >= y
  <2>1. PICK i \in 1 .. Len(p) : \A j \in 1 .. Len(p) : p[j] <= p[i]
    BY Greatest
  <2>2. p[i] \in Range(p) /\ \A y \in Range(p) : p[i] >= y
    BY <1>1, <2>1
  <2> QED BY <2>2 DEF Max
<1> QED BY <1>1, <1>2, <1>4, <1>5

\* prices.index
LEMMA IndexIsFirst ==
    ASSUME NEW p \in Seq(Nat), NEW v \in Range(p)
    PROVE  /\ Index(p, v) \in 0 .. Len(p) - 1 /\ p[Index(p, v) + 1] = v
           /\ \A j \in 1 .. Index(p, v) : p[j] # v
<1> DEFINE at == {i \in 1 .. Len(p) : p[i] = v}
           first == CHOOSE i \in DOMAIN p : p[i] = v /\ \A j \in 1 .. i - 1 : p[j] # v
<1>1. DOMAIN p = 1 .. Len(p) /\ Len(p) \in Nat
  OBVIOUS
<1>2. at # {} /\ at \in SUBSET Nat
  BY <1>1 DEF Range
<1>3. PICK i \in at : \A j \in at : i <= j
  BY <1>2, Least
<1>4. i \in DOMAIN p /\ p[i] = v /\ \A j \in 1 .. i - 1 : p[j] # v
  BY <1>1, <1>3
<1>5. first \in DOMAIN p /\ p[first] = v /\ \A j \in 1 .. first - 1 : p[j] # v
  <2> HIDE DEF at
  <2> QED BY <1>4
<1>6. Index(p, v) = first - 1
  BY DEF Index
<1> HIDE DEF first
<1>7. first - 1 \in 0 .. Len(p) - 1 /\ first - 1 + 1 = first
  BY <1>1, <1>5
<1> QED BY <1>5, <1>6, <1>7

-----------------------------------------------------------------------------
(* Arithmetic of blocks. *)

LEMMA Division ==
    ASSUME NEW n \in Nat, NEW d \in Nat \ {0}
    PROVE  /\ n \div d \in Nat /\ n % d \in 0 .. d - 1
           /\ (n \div d) * d \in Nat /\ n = (n \div d) * d + (n % d)
BY SMTT(30)

LEMMA Remainder ==
    ASSUME NEW q \in Int, NEW d \in Nat \ {0}, NEW r \in 0 .. d - 1
    PROVE  (q * d + r) % d = r
BY SMTT(30)

LEMMA Small ==
    ASSUME NEW d \in Nat \ {0}, NEW r \in 0 .. d - 1
    PROVE  r % d = r
<1>1. (0 * d + r) % d = r
  BY Remainder
<1>2. 0 * d + r = r
  OBVIOUS
<1> QED BY <1>1, <1>2

-----------------------------------------------------------------------------
(* A bar. *)

LEMMA SignType ==
    ASSUME NEW close \in Nat, NEW previous \in Nat
    PROVE  Sign(close, previous) \in {"up", "down", "flat"}
<1>1. close > previous \/ close < previous \/ (~ close > previous /\ ~ close < previous)
  OBVIOUS
<1> QED BY <1>1 DEF Sign

\* A change between two prices of the bar is one between two ticks.
LEMMA SameChanges ==
    ASSUME NEW p \in Seq(Nat), NEW m \in Seq(Nat), NEW from \in Nat \ {0},
           NEW d \in Nat \ {0},
           Len(p) = d,
           \A j \in 1 .. d : p[j] = m[from + j - 1]
    PROVE  /\ Cardinality({i \in 2 .. Len(p) : p[i] # p[i - 1]}) =
                  ChangesIn(m, from, from + d - 1, d)
           /\ ChangesIn(m, from, from + d - 1, d) \in Nat
<1> DEFINE S == {i \in 2 .. Len(p) : p[i] # p[i - 1]}
           to == from + d - 1
           T == {t \in from + 1 .. to :
                    (t - from) % d # 0 /\ m[t] # m[t - 1]}
           U == {t \in from + 1 .. to : m[t] # m[t - 1]}
           f == [i \in S |-> from + i - 1]
<1>1. d \in Nat \ {0}
  BY BarConstants
<1>2. T = U
  <2> SUFFICES ASSUME NEW t \in from + 1 .. to
               PROVE  (t - from) % d # 0
    OBVIOUS
  <2>1. t - from \in 1 .. d - 1
    BY <1>1
  <2>2. \A r \in 1 .. d - 1 : r % d = r
    <3> SUFFICES ASSUME NEW r \in 1 .. d - 1 PROVE r % d = r
      OBVIOUS
    <3>1. r \in 0 .. d - 1
      OBVIOUS
    <3> QED BY <3>1, Small
  <2>3. (t - from) % d = t - from
    <3> DEFINE z == t - from
    <3> HIDE DEF z
    <3>1. z \in 1 .. d - 1
      BY <2>1 DEF z
    <3>2. z % d = z
      BY <2>2, <3>1
    <3> QED BY <3>2 DEF z
  <2> QED BY <2>1, <2>3
<1>3. \A i \in 2 .. d :
          /\ from + i - 1 \in from + 1 .. to
          /\ p[i] = m[from + i - 1] /\ p[i - 1] = m[(from + i - 1) - 1]
  <2> SUFFICES ASSUME NEW i \in 2 .. d
               PROVE  /\ from + i - 1 \in from + 1 .. to
                      /\ p[i] = m[from + i - 1] /\ p[i - 1] = m[(from + i - 1) - 1]
    OBVIOUS
  <2>1. /\ from + i - 1 \in from + 1 .. to
        /\ i \in 1 .. d /\ i - 1 \in 1 .. d
        /\ from + (i - 1) - 1 = (from + i - 1) - 1
    BY <1>1
  <2>2. p[i] = m[from + i - 1]
    BY <2>1
  <2>3. p[i - 1] = m[from + (i - 1) - 1]
    BY <2>1
  <2> QED BY <2>1, <2>2, <2>3
<1>4. f \in Bijection(S, U)
  <2>1. \A i \in S : f[i] = from + i - 1 /\ f[i] \in U
    BY <1>3
  <2>2. \A i, j \in S : f[i] = f[j] => i = j
    <3> SUFFICES ASSUME NEW i \in S, NEW j \in S, f[i] = f[j] PROVE i = j
      OBVIOUS
    <3>1. i \in Int /\ j \in Int /\ from + i - 1 = from + j - 1
      BY <2>1
    <3> QED BY <3>1
  <2>3. \A u \in U : \E i \in S : f[i] = u
    <3> SUFFICES ASSUME NEW u \in U PROVE u - from + 1 \in S /\ f[u - from + 1] = u
      OBVIOUS
    <3>0. u \in from + 1 .. to
      OBVIOUS
    <3>1. u - from + 1 \in 2 .. d /\ from + (u - from + 1) - 1 = u
      BY <1>1, <3>0
    <3>2. m[u] # m[u - 1]
      OBVIOUS
    <3>3. u - from + 1 \in S
      BY <1>3, <3>1, <3>2
    <3> QED BY <2>1, <3>1, <3>3
  <2> QED BY <2>1, <2>2, <2>3 DEF Bijection, Injection, Surjection, IsInjective
<1>5. IsFiniteSet(S)
  <2>1. IsFiniteSet(2 .. d)
    BY <1>1, FS_Interval
  <2> QED BY <2>1, FS_Subset
<1>6. Cardinality(U) = Cardinality(S) /\ Cardinality(S) \in Nat
  <2> HIDE DEF S, U, f
  <2> QED BY <1>4, <1>5, FS_Bijection, FS_CardinalityType DEF ExistsBijection
<1> QED BY <1>2, <1>6 DEF ChangesIn

\* A bar of d ticks from tick from on, after a bar that ended at price previous.
Built(m, b, from, d, previous) ==
    /\ b \in Bar /\ BarIn(m, b, from, from + d - 1, previous)
    /\ b.revisions = ChangesIn(m, from, from + d - 1, d)

\* _build_bar of d prices
LEMMA BuiltBar ==
    ASSUME NEW p \in Seq(Nat), NEW m \in Seq(Nat), NEW from \in Nat \ {0},
           NEW d \in Nat \ {0},
           NEW previous \in Nat, Len(p) = d,
           \A j \in 1 .. d : p[j] = m[from + j - 1]
    PROVE  Built(m, BuildBar(p, from, from + d - 1, previous), from, d, previous)
<1> DEFINE to == from + d - 1
           b == BuildBar(p, from, to, previous)
           high == Max(Range(p))
           low == Min(Range(p))
           hpos == Index(p, high)
           lpos == Index(p, low)
<1>1. d \in Nat \ {0} /\ p # <<>> /\ to \in Nat
  BY BarConstants
<1>2. \A j \in 1 .. d : p[j] \in Nat
  OBVIOUS
<1>3. /\ high \in Range(p) /\ low \in Range(p)
      /\ \A j \in 1 .. d : low <= p[j] /\ p[j] <= high
  BY <1>1, Extremes
<1>4. high \in Nat /\ low \in Nat
  <2>1. Range(p) = {p[j] : j \in 1 .. Len(p)}
    BY RangeEquality
  <2> QED BY <1>2, <1>3, <2>1
<1>5. /\ hpos \in 0 .. d - 1 /\ p[hpos + 1] = high
      /\ \A j \in 1 .. hpos : p[j] # high
  BY <1>3, IndexIsFirst
<1>6. /\ lpos \in 0 .. d - 1 /\ p[lpos + 1] = low
      /\ \A j \in 1 .. lpos : p[j] # low
  BY <1>3, IndexIsFirst
<1> DEFINE revisions == Cardinality({i \in 2 .. Len(p) : p[i] # p[i - 1]})
           sign == IF previous = 0 THEN "flat" ELSE Sign(Last(p), previous)
<1>7. revisions \in Nat /\ revisions = ChangesIn(m, from, to, d)
  <2> HIDE DEF b, high, low, hpos, lpos, sign
  <2>1. /\ revisions = ChangesIn(m, from, from + d - 1, d)
        /\ ChangesIn(m, from, from + d - 1, d) \in Nat
    BY <1>1, SameChanges
  <2> QED BY <2>1
<1>8. /\ Head(p) = p[1] /\ Last(p) = p[d]
      /\ Head(p) \in Nat /\ Last(p) \in Nat
  BY <1>1, <1>2 DEF Last
<1>9. sign \in {"up", "down", "flat"}
  BY <1>8, SignType
<1> HIDE DEF high, low, hpos, lpos, revisions, sign, to
<1>10. b = [from |-> from, to |-> to, open |-> Head(p), close |-> Last(p),
            high |-> high, low |-> low, hpos |-> hpos, lpos |-> lpos,
            sign |-> sign, revisions |-> revisions]
  BY DEF BuildBar, high, low, hpos, lpos, revisions, sign
<1> HIDE DEF b
<1>11. b \in Bar
  BY <1>1, <1>4, <1>5, <1>6, <1>7, <1>8, <1>9, <1>10 DEF Bar
<1>12. \A j \in 0 .. d - 1 : p[j + 1] = m[from + j]
  <2> SUFFICES ASSUME NEW j \in 0 .. d - 1 PROVE p[j + 1] = m[from + j]
    OBVIOUS
  <2>1. j + 1 \in 1 .. d /\ from + (j + 1) - 1 = from + j
    BY <1>1
  <2>2. p[j + 1] = m[from + (j + 1) - 1]
    BY <2>1
  <2> QED BY <2>1, <2>2
<1>13. \A t \in from .. to : t - from + 1 \in 1 .. d
                             /\ m[t] = p[t - from + 1]
  <2> SUFFICES ASSUME NEW t \in from .. to
               PROVE  t - from + 1 \in 1 .. d /\ m[t] = p[t - from + 1]
    OBVIOUS
  <2>1. t - from \in 0 .. d - 1 /\ from + (t - from) = t
    BY <1>1 DEF to
  <2>2. t - from + 1 \in 1 .. d
    BY <1>1, <2>1
  <2> QED BY <1>12, <2>1, <2>2
<1>14. ASSUME NEW pos \in 0 .. d - 1, NEW v,
              \A j \in 1 .. pos : p[j] # v
       PROVE  v \notin {m[t] : t \in from .. from + pos - 1}
  <2> SUFFICES ASSUME NEW t \in from .. from + pos - 1 PROVE m[t] # v
    OBVIOUS
  <2>1. t \in from .. to /\ t - from + 1 \in 1 .. pos
    BY <1>1, <1>14 DEF to
  <2> QED BY <1>13, <1>14, <2>1
<1>15. p[1] = m[from] /\ p[d] = m[to]
  <2>1. 1 \in 1 .. d /\ d \in 1 .. d
        /\ from + 1 - 1 = from
    BY <1>1
  <2> QED BY <2>1 DEF to
<1>16. {hpos, lpos} \subseteq 0 .. to - from
  BY <1>1, <1>5, <1>6 DEF to
<1>17. \A t \in from .. to : low <= m[t] /\ m[t] <= high
  BY <1>3, <1>13
<1>18. m[from + hpos] = high /\ m[from + lpos] = low
  BY <1>5, <1>6, <1>12
<1>19. /\ high \notin {m[t] : t \in from .. from + hpos - 1}
       /\ low \notin {m[t] : t \in from .. from + lpos - 1}
  BY <1>5, <1>6, <1>14
<1>20. sign = IF previous = 0 THEN "flat" ELSE Sign(Last(p), previous)
  BY DEF sign
<1>21. BarIn(m, b, from, to, previous)
  BY <1>8, <1>10, <1>15, <1>16, <1>17, <1>18, <1>19, <1>20 DEF BarIn
<1>22. b.revisions = revisions
  BY <1>10
<1> QED BY <1>7, <1>11, <1>21, <1>22 DEF Built, b, to

-----------------------------------------------------------------------------
(* The bars of a call. *)

\* Of k < n blocks of d the next one is within n blocks.
LEMMA BlockEnds ==
    ASSUME NEW n \in Nat, NEW d \in Nat \ {0}, NEW i \in 1 .. n
    PROVE  /\ (i - 1) * d \in Nat /\ i * d = (i - 1) * d + d
           /\ i * d <= n * d
<1>1. \A k \in Nat : k < n => (k + 1) * d <= n * d
  BY SMTT(30)
<1>2. i - 1 \in Nat /\ i - 1 < n /\ i = (i - 1) + 1
  OBVIOUS
<1>3. \A k \in Nat : k * d \in Nat /\ (k + 1) * d = k * d + d
  BY SMTT(30)
<1> QED BY <1>1, <1>2, <1>3

\* The n bars of a market behind tick s.
BarsBehind(m, bars, s, n) ==
    /\ bars \in Seq(Bar) /\ Len(bars) = n
    /\ \A i \in 1 .. n : /\ bars[i].from = s + (i - 1) * LiveTicks + 1
                         /\ bars[i].to = s + i * LiveTicks
                         /\ BarOf(m, bars[i], LiveTicks, i = 1)

\* align cuts a buffer that starts behind tick s of the market m.
LEMMA AlignBars ==
    ASSUME NEW m \in Seq(Nat), NEW buf \in Seq(Nat), NEW s \in Nat,
           s + Len(buf) = Len(m), \A j \in 1 .. Len(buf) : buf[j] = s + j
    PROVE  /\ Len(buf) \div LiveTicks \in Nat
           /\ BarsBehind(m, Align(m, buf), s, Len(buf) \div LiveTicks)
<1> DEFINE n == Len(buf) \div LiveTicks
           chunk(i) == Block(buf, i, LiveTicks)
           prices(i) == [j \in 1 .. LiveTicks |-> m[chunk(i)[j]]]
           previous(i) == IF i = 1 THEN 0 ELSE Last(prices(i - 1))
           bar(i) == BuildBar(prices(i), Head(chunk(i)), Last(chunk(i)), previous(i))
<1>1. LiveTicks \in Nat \ {0} /\ Len(buf) \in Nat
  BY BarConstants
<1>2. n \in Nat /\ n * LiveTicks <= Len(buf)
  <2> DEFINE c == n * LiveTicks
             r == Len(buf) % LiveTicks
  <2>1. n \in Nat /\ c \in Nat /\ r \in 0 .. LiveTicks - 1 /\ Len(buf) = c + r
    BY <1>1, Division
  <2> HIDE DEF c, r
  <2>2. c <= Len(buf)
    BY <1>1, <2>1
  <2> QED BY <2>1, <2>2 DEF c
<1> HIDE DEF n
<1>3. ASSUME NEW i \in 1 .. n
      PROVE  /\ prices(i) \in Seq(Nat) /\ Len(prices(i)) = LiveTicks
             /\ \A j \in 1 .. LiveTicks :
                    /\ prices(i)[j] = m[s + (i - 1) * LiveTicks + j]
                    /\ prices(i)[j] \in Nat
             /\ Head(chunk(i)) = s + (i - 1) * LiveTicks + 1
             /\ Last(chunk(i)) = s + i * LiveTicks
             /\ (i - 1) * LiveTicks \in Nat
             /\ i * LiveTicks = (i - 1) * LiveTicks + LiveTicks
             /\ i * LiveTicks <= Len(buf)
  <2> DEFINE x == (i - 1) * LiveTicks
             y == i * LiveTicks
             c == chunk(i)
  <2>1. x \in Nat /\ y = x + LiveTicks /\ y <= Len(buf)
    <3>1. x \in Nat /\ y = x + LiveTicks /\ y <= n * LiveTicks
      BY <1>1, <1>2, BlockEnds
    <3> DEFINE z == n * LiveTicks
    <3>2. z <= Len(buf) /\ z \in Nat
      BY <1>1, <1>2
    <3> HIDE DEF x, y, z
    <3>3. y <= z
      BY <3>1 DEF z
    <3> QED BY <1>1, <3>1, <3>2, <3>3
  <2>2. c = SubSeq(buf, x + 1, y)
    BY DEF Block
  <2> HIDE DEF x, y, c
  <2>3. /\ c \in Seq(Nat) /\ Len(c) = LiveTicks
        /\ \A j \in 1 .. LiveTicks : c[j] = buf[x + j]
    <3>1. \A j \in x + 1 .. y : buf[j] \in Nat
      BY <1>1, <2>1
    <3>2. x + 1 \in Int /\ y \in Int /\ y - (x + 1) + 1 = LiveTicks /\ x + 1 <= y
      BY <1>1, <2>1
    <3>3. /\ c \in Seq(Nat) /\ Len(c) = LiveTicks
          /\ \A j \in 1 .. LiveTicks : c[j] = buf[x + 1 + j - 1]
      BY <2>2, <3>1, <3>2, SubSeqProperties
    <3>4. \A j \in 1 .. LiveTicks : x + 1 + j - 1 = x + j
      BY <2>1
    <3> QED BY <3>3, <3>4
  <2>4. \A j \in 1 .. LiveTicks : c[j] = s + x + j /\ c[j] \in 1 .. Len(m)
    <3> SUFFICES ASSUME NEW j \in 1 .. LiveTicks
                 PROVE  c[j] = s + x + j /\ c[j] \in 1 .. Len(m)
      OBVIOUS
    <3>1. x + j \in 1 .. Len(buf)
      BY <1>1, <2>1
    <3>2. c[j] = s + (x + j)
      BY <2>3, <3>1
    <3> QED BY <2>1, <3>1, <3>2
  <2>5. \A j \in 1 .. LiveTicks : m[c[j]] \in Nat
    BY <2>4
  <2>6. prices(i) = [j \in 1 .. LiveTicks |-> m[c[j]]]
    BY DEF c
  <2>7. /\ prices(i) \in Seq(Nat) /\ Len(prices(i)) = LiveTicks
        /\ \A j \in 1 .. LiveTicks : prices(i)[j] = m[s + x + j] /\ prices(i)[j] \in Nat
    <3> DEFINE q == [j \in 1 .. LiveTicks |-> m[c[j]]]
    <3>1. q \in Seq(Nat) /\ Len(q) = LiveTicks
      BY <1>1, <2>5
    <3>2. \A j \in 1 .. LiveTicks : q[j] = m[s + x + j] /\ q[j] \in Nat
      BY <2>4, <2>5
    <3> QED BY <2>6, <3>1, <3>2
  <2>8. Head(c) = c[1] /\ Last(c) = c[LiveTicks]
    BY <1>1, <2>3 DEF Last
  <2>9. Head(c) = s + x + 1 /\ Last(c) = s + y
    <3>1. 1 \in 1 .. LiveTicks /\ LiveTicks \in 1 .. LiveTicks
      BY <1>1
    <3> QED BY <1>1, <2>1, <2>4, <2>8, <3>1
  <2> QED BY <2>1, <2>7, <2>9 DEF x, y, c
<1> HIDE DEF chunk, prices
<1>4. ASSUME NEW i \in 1 .. n
      PROVE  /\ previous(i) \in Nat
             /\ i # 1 => previous(i) = m[s + (i - 1) * LiveTicks]
  <2>1. CASE i = 1
    BY <2>1
  <2>2. CASE i # 1
    <3>1. i - 1 \in 1 .. n
      BY <1>2, <2>2
    <3>2. Last(prices(i - 1)) = prices(i - 1)[LiveTicks]
      BY <1>3, <3>1 DEF Last
    <3>3. LiveTicks \in 1 .. LiveTicks
      BY <1>1
    <3> DEFINE x == (i - 1 - 1) * LiveTicks
               y == (i - 1) * LiveTicks
    <3>4. prices(i - 1)[LiveTicks] = m[s + x + LiveTicks]
          /\ prices(i - 1)[LiveTicks] \in Nat /\ x \in Nat /\ y = x + LiveTicks
      BY <1>3, <3>1, <3>3
    <3> HIDE DEF x, y
    <3>5. s + x + LiveTicks = s + y
      BY <1>1, <3>4
    <3> QED BY <2>2, <3>2, <3>4, <3>5 DEF y
  <2> QED BY <2>1, <2>2
<1> HIDE DEF previous
<1>5. ASSUME NEW i \in 1 .. n
      PROVE  /\ bar(i) \in Bar
             /\ bar(i).from = s + (i - 1) * LiveTicks + 1
             /\ bar(i).to = s + i * LiveTicks
             /\ BarOf(m, bar(i), LiveTicks, i = 1)
  <2> DEFINE x == (i - 1) * LiveTicks
             y == i * LiveTicks
             from == s + x + 1
             b == bar(i)
             p == prices(i)
  <2>1. /\ p \in Seq(Nat) /\ Len(p) = LiveTicks
        /\ \A j \in 1 .. LiveTicks : p[j] = m[s + x + j]
        /\ b = BuildBar(p, from, s + y, previous(i))
        /\ x \in Nat /\ y = x + LiveTicks
    BY <1>3
  <2>2. previous(i) \in Nat /\ (i # 1 => previous(i) = m[s + x])
    BY <1>4
  <2> HIDE DEF x, y, p, b
  <2>3. from \in Nat \ {0} /\ s + y = from + LiveTicks - 1 /\ from - 1 = s + x
    BY <1>1, <2>1
  <2>4. \A j \in 1 .. LiveTicks : p[j] = m[from + j - 1]
    <3>1. \A j \in 1 .. LiveTicks : from + j - 1 = s + x + j
      BY <2>1
    <3> QED BY <2>1, <3>1
  <2> HIDE DEF from
  <2>5. /\ b \in Bar /\ BarIn(m, b, from, from + LiveTicks - 1, previous(i))
        /\ b.revisions = ChangesIn(m, from, from + LiveTicks - 1, LiveTicks)
    <3> DEFINE z == previous(i)
    <3>1. b = BuildBar(p, from, from + LiveTicks - 1, z) /\ z \in Nat
      BY <2>1, <2>2, <2>3 DEF from
    <3> HIDE DEF z
    <3>2. Built(m, BuildBar(p, from, from + LiveTicks - 1, z), from, LiveTicks, z)
      BY <1>1, <2>1, <2>3, <2>4, <3>1, BuiltBar
    <3> QED BY <3>1, <3>2 DEF Built, z
  <2>6. b.from = from /\ b.to = from + LiveTicks - 1
    BY <2>5 DEF BarIn
  <2>7. BarIn(m, b, b.from, b.from + LiveTicks - 1,
              IF i = 1 THEN 0 ELSE m[b.from - 1])
    <3>1. previous(i) = IF i = 1 THEN 0 ELSE m[b.from - 1]
      BY <2>2, <2>3, <2>6 DEF previous
    <3> QED BY <2>5, <2>6, <3>1
  <2>8. BarOf(m, b, LiveTicks, i = 1)
    BY <2>5, <2>6, <2>7 DEF BarOf
  <2> QED BY <2>3, <2>5, <2>6, <2>8 DEF b, from, x, y
<1>6. Align(m, buf) = [i \in 1 .. n |-> bar(i)]
  BY DEF Align, n, bar, previous, prices, chunk
<1> HIDE DEF bar
<1>7. Align(m, buf) \in Seq(Bar) /\ Len(Align(m, buf)) = n
  BY <1>2, <1>5, <1>6
<1>8. \A i \in 1 .. n : Align(m, buf)[i] = bar(i)
  BY <1>6
<1>9. BarsBehind(m, Align(m, buf), s, n)
  BY <1>5, <1>7, <1>8 DEF BarsBehind
<1> QED BY <1>2, <1>9 DEF n

-----------------------------------------------------------------------------
(* The steps of the runtime. *)

\* A bar stays what it is when the market grows.
LEMMA BarKept ==
    ASSUME NEW m \in Seq(Nat), NEW m2 \in Seq(Nat), NEW b \in Bar, NEW first,
           NEW d \in Nat \ {0},
           NEW n \in Nat, \A t \in 1 .. n : m2[t] = m[t],
           b.from > 0, b.to <= n, first \/ b.from > 1, BarOf(m, b, d, first)
    PROVE  BarOf(m2, b, d, first)
<1> DEFINE from == b.from
           to == b.from + d - 1
           previous == IF first THEN 0 ELSE m[from - 1]
<1>1. /\ d \in Nat \ {0} /\ from \in Nat /\ b.to \in Nat
      /\ b.hpos \in Nat /\ b.lpos \in Nat
  BY BarConstants DEF Bar
<1>2. BarIn(m, b, from, to, previous) /\ b.to = to
      /\ b.revisions = ChangesIn(m, from, to, d)
  BY DEF BarOf, BarIn
<1>3. from > 0 /\ to \in Nat /\ to <= n
  BY <1>1, <1>2
<1> HIDE DEF from, to
<1>4. \A t \in from .. to : m2[t] = m[t]
  BY <1>1, <1>3
<1>5. previous = IF first THEN 0 ELSE m2[from - 1]
  <2>1. CASE first
    BY <2>1
  <2>2. CASE ~first
    <3>1. from - 1 \in 1 .. n
      BY <1>1, <1>3, <2>2 DEF from, to
    <3> QED BY <2>2, <3>1
  <2> QED BY <2>1, <2>2
<1> HIDE DEF previous
<1>6. b.hpos \in 0 .. to - from /\ b.lpos \in 0 .. to - from
  BY <1>2 DEF BarIn
<1>7. ASSUME NEW pos \in 0 .. to - from
      PROVE  /\ m2[from + pos] = m[from + pos]
             /\ {m2[t] : t \in from .. from + pos - 1} =
                    {m[t] : t \in from .. from + pos - 1}
  <2>1. from + pos \in from .. to
    BY <1>1, <1>3
  <2>2. \A t \in from .. from + pos - 1 : t \in from .. to
    BY <1>1, <1>3
  <2> QED BY <1>4, <2>1, <2>2
<1>8. from \in from .. to /\ to \in from .. to
  BY <1>1, <1>3 DEF from, to
<1>9. BarIn(m2, b, from, to, previous)
  BY <1>2, <1>4, <1>6, <1>7, <1>8 DEF BarIn
<1>10. ChangesIn(m2, from, to, d) = ChangesIn(m, from, to, d)
  <2>1. \A t \in from + 1 .. to : m2[t] = m[t] /\ m2[t - 1] = m[t - 1]
    <3>1. \A t \in from + 1 .. to : t \in from .. to /\ t - 1 \in from .. to
      BY <1>1, <1>3
    <3> QED BY <1>4, <3>1
  <2>2. {t \in from + 1 .. to : (t - from) % d # 0 /\ m2[t] # m2[t - 1]} =
            {t \in from + 1 .. to : (t - from) % d # 0 /\ m[t] # m[t - 1]}
    BY <2>1
  <2> QED BY <2>2 DEF ChangesIn
<1> QED BY <1>2, <1>5, <1>9, <1>10 DEF BarOf, from, to

LEMMA LiveInit == Init => LiveShape
<1> SUFFICES ASSUME Init PROVE LiveShape
  OBVIOUS
<1>1. /\ ticks = <<>> /\ buffer = <<>> /\ live = <<>> /\ grid = 0 /\ alone = {}
      /\ Len(<<>>) = 0 /\ LiveTicks \in Nat \ {0}
  BY BarConstants DEF Init
<1>2. 0 = 0 + 0 * LiveTicks + 0
  BY <1>1
<1> QED BY <1>1, <1>2 DEF LiveShape

\* A step of add_ticks: behind tick s, where the buffer starts, it cuts n bars.
Cut(n, s, q, bars) ==
    /\ ticks' \in Seq(Nat) /\ buffer' \in Seq(Nat)
    /\ Len(ticks) = s + Len(buffer) /\ s = grid + q * LiveTicks
    /\ Len(ticks') = s + n * LiveTicks + Len(buffer')
    /\ Len(ticks') >= Len(ticks)
    /\ \A t \in 1 .. Len(ticks) : ticks'[t] = ticks[t]
    /\ Len(buffer') < LiveTicks
    /\ \A j \in 1 .. Len(buffer') : buffer'[j] = s + n * LiveTicks + j
    /\ live' = live \o bars /\ Len(bars) = n
    /\ \A i \in 1 .. n : /\ bars[i].from = s + (i - 1) * LiveTicks + 1
                         /\ bars[i].to = s + i * LiveTicks
                         /\ BarOf(ticks', bars[i], LiveTicks, i = 1)
    /\ alone' = IF n = 0 THEN alone ELSE alone \union {Len(live) + 1}
    /\ grid' = grid

LEMMA AddedTicks ==
    ASSUME LiveShape, NEW batch \in Seq(Nat), AddTicks(batch)
    PROVE  \E n, s, q \in Nat, bars \in Seq(Bar) : Cut(n, s, q, bars)
<1> DEFINE more == [i \in DOMAIN batch |-> Len(ticks) + i]
           m == ticks \o batch
           buf == buffer \o more
           s == Len(ticks) - Len(buffer)
           n == Len(buf) \div LiveTicks
           c == n * LiveTicks
           bars == Align(m, buf)
<1>1. /\ LiveTicks \in Nat \ {0} /\ ticks \in Seq(Nat) /\ buffer \in Seq(Nat)
      /\ DOMAIN batch = 1 .. Len(batch)
  BY BarConstants DEF LiveShape
<1>2. Len(ticks) \in Nat /\ Len(buffer) \in Nat /\ Len(batch) \in Nat
  BY <1>1
<1>3. PICK q \in Nat : Len(ticks) = grid + q * LiveTicks + Len(buffer)
  BY DEF LiveShape
<1>4. s \in Nat /\ s + Len(buffer) = Len(ticks) /\ s = grid + q * LiveTicks
  <2>1. grid \in Nat
    BY DEF LiveShape
  <2> DEFINE z == q * LiveTicks
  <2>2. z \in Nat
    BY <1>1
  <2>3. Len(ticks) = grid + z + Len(buffer)
    BY <1>3
  <2> HIDE DEF z
  <2>4. s \in Nat /\ s + Len(buffer) = Len(ticks) /\ s = grid + z
    BY <1>2, <2>1, <2>2, <2>3
  <2> QED BY <2>4 DEF z
<1>5. /\ more \in Seq(Nat) /\ Len(more) = Len(batch)
      /\ \A i \in 1 .. Len(batch) : more[i] = Len(ticks) + i
  BY <1>1, <1>2
<1>6. /\ m \in Seq(Nat) /\ Len(m) = Len(ticks) + Len(batch)
      /\ \A t \in 1 .. Len(ticks) : m[t] = ticks[t]
  <2>1. /\ m \in Seq(Nat) /\ Len(m) = Len(ticks) + Len(batch)
        /\ \A t \in 1 .. Len(ticks) + Len(batch) :
               m[t] = IF t <= Len(ticks) THEN ticks[t] ELSE batch[t - Len(ticks)]
    BY <1>1, ConcatProperties
  <2>2. \A t \in 1 .. Len(ticks) : t \in 1 .. Len(ticks) + Len(batch) /\ t <= Len(ticks)
    BY <1>2
  <2> QED BY <2>1, <2>2
<1> HIDE DEF more
<1>7. /\ buf \in Seq(Nat) /\ Len(buf) = Len(buffer) + Len(batch)
      /\ \A j \in 1 .. Len(buf) : buf[j] = s + j
  <2>1. /\ buf \in Seq(Nat) /\ Len(buf) = Len(buffer) + Len(more)
        /\ \A j \in 1 .. Len(buffer) + Len(more) :
               buf[j] = IF j <= Len(buffer) THEN buffer[j] ELSE more[j - Len(buffer)]
    BY <1>1, <1>5, ConcatProperties
  <2>2. ASSUME NEW j \in 1 .. Len(buffer) + Len(batch) PROVE buf[j] = s + j
    <3>1. CASE j <= Len(buffer)
      <4>1. j \in 1 .. Len(buffer)
        BY <1>2, <3>1
      <4>2. buffer[j] = Len(ticks) - Len(buffer) + j
        BY <4>1 DEF LiveShape
      <4> QED BY <1>5, <2>1, <3>1, <4>2
    <3>2. CASE ~ j <= Len(buffer)
      <4>1. j - Len(buffer) \in 1 .. Len(batch)
        BY <1>2, <3>2
      <4>2. more[j - Len(buffer)] = Len(ticks) + (j - Len(buffer))
        BY <1>5, <4>1
      <4>3. Len(ticks) + (j - Len(buffer)) = s + j
        BY <1>2
      <4> QED BY <1>5, <2>1, <3>2, <4>2, <4>3
    <3> QED BY <3>1, <3>2
  <2> QED BY <1>5, <2>1, <2>2
<1> HIDE DEF m, buf, s
<1>8. s + Len(buf) = Len(m) /\ Len(buf) \in Nat
  <2> DEFINE t == Len(ticks)
             b == Len(buffer)
             k == Len(batch)
  <2>1. /\ Len(buf) = b + k /\ Len(m) = t + k /\ s + b = t
        /\ t \in Nat /\ b \in Nat /\ k \in Nat /\ s \in Nat
    BY <1>2, <1>4, <1>6, <1>7
  <2> HIDE DEF t, b, k
  <2> QED BY <2>1
<1>9. /\ n \in Nat /\ bars \in Seq(Bar) /\ Len(bars) = n
      /\ \A i \in 1 .. n : /\ bars[i].from = s + (i - 1) * LiveTicks + 1
                           /\ bars[i].to = s + i * LiveTicks
                           /\ BarOf(m, bars[i], LiveTicks, i = 1)
  <2>1. m \in Seq(Nat) /\ buf \in Seq(Nat) /\ s \in Nat
        /\ s + Len(buf) = Len(m) /\ \A j \in 1 .. Len(buf) : buf[j] = s + j
    BY <1>4, <1>6, <1>7, <1>8
  <2>2. n \in Nat /\ BarsBehind(m, bars, s, n)
    BY <2>1, AlignBars
  <2> QED BY <2>2 DEF BarsBehind
<1>10. c \in Nat /\ Len(buf) - c \in 0 .. LiveTicks - 1
  <2> DEFINE r == Len(buf) % LiveTicks
  <2>1. c \in Nat /\ r \in 0 .. LiveTicks - 1 /\ Len(buf) = c + r
    BY <1>1, <1>8, Division
  <2> HIDE DEF c, r
  <2> QED BY <1>1, <2>1
<1> HIDE DEF n, bars
<1>11. /\ ticks' = m /\ buffer' = SubSeq(buf, c + 1, Len(buf))
       /\ live' = live \o bars /\ grid' = grid
       /\ alone' = IF n = 0 THEN alone ELSE alone \union {Len(live) + 1}
  <2>1. /\ ticks' = m /\ buffer' = SubSeq(buf, Len(bars) * LiveTicks + 1, Len(buf))
        /\ live' = live \o bars /\ grid' = grid
        /\ alone' = IF bars = <<>> THEN alone ELSE alone \union {Len(live) + 1}
    BY DEF AddTicks, m, buf, bars, more
  <2>2. bars = <<>> <=> n = 0
    BY <1>9
  <2> QED BY <1>9, <2>1, <2>2
<1> HIDE DEF c
<1>12. /\ buffer' \in Seq(Nat) /\ Len(buffer') = Len(buf) - c
       /\ \A j \in 1 .. Len(buffer') : buffer'[j] = s + c + j
  <2>1. \A j \in c + 1 .. Len(buf) : buf[j] \in Nat
    <3>1. \A j \in c + 1 .. Len(buf) : j \in 1 .. Len(buf)
      BY <1>8, <1>10
    <3> QED BY <1>7, <3>1
  <2>2. c + 1 \in Int /\ Len(buf) \in Int
    BY <1>8, <1>10
  <2>3. /\ buffer' \in Seq(Nat)
        /\ Len(buffer') = IF c + 1 <= Len(buf) THEN Len(buf) - (c + 1) + 1 ELSE 0
        /\ \A j \in 1 .. Len(buf) - (c + 1) + 1 : buffer'[j] = buf[(c + 1) + j - 1]
    BY <1>11, <2>1, <2>2, SubSeqProperties
  <2>4. Len(buffer') = Len(buf) - c
    BY <1>1, <1>8, <1>10, <2>3
  <2>5. ASSUME NEW j \in 1 .. Len(buffer') PROVE buffer'[j] = s + c + j
    <3>1. /\ j \in 1 .. Len(buf) - (c + 1) + 1 /\ (c + 1) + j - 1 = c + j
          /\ c + j \in 1 .. Len(buf) /\ s + (c + j) = s + c + j
      BY <1>1, <1>4, <1>8, <1>10, <2>4, <2>5
    <3>2. buffer'[j] = buf[c + j]
      BY <2>3, <3>1
    <3> QED BY <1>7, <3>1, <3>2
  <2> QED BY <2>3, <2>4, <2>5
<1>13. /\ Len(ticks') = s + c + Len(buffer') /\ Len(ticks') >= Len(ticks)
       /\ Len(buffer') < LiveTicks
  <2> DEFINE l == Len(buf)
             b == Len(buffer')
             t == Len(ticks)
             k == Len(batch)
  <2>1. Len(ticks') = s + l /\ Len(ticks') = t + k
    BY <1>6, <1>8, <1>11
  <2>2. t \in Nat /\ k \in Nat /\ l \in Nat /\ s \in Nat /\ c \in Nat
    BY <1>2, <1>4, <1>8, <1>10
  <2>3. b = l - c /\ l - c \in 0 .. LiveTicks - 1
    BY <1>10, <1>12
  <2> HIDE DEF l, b, t, k
  <2>4. s + l = s + c + b /\ t + k >= t /\ b < LiveTicks
    BY <1>1, <2>2, <2>3
  <2> QED BY <2>1, <2>4 DEF b, t
<1>14. \A i \in 1 .. n : BarOf(ticks', bars[i], LiveTicks, i = 1)
  BY <1>9, <1>11
<1>15. n \in Nat /\ s \in Nat /\ q \in Nat /\ bars \in Seq(Bar)
  BY <1>4, <1>9
<1>16. ticks' \in Seq(Nat) /\ \A t \in 1 .. Len(ticks) : ticks'[t] = ticks[t]
  BY <1>6, <1>11
<1>17. Len(ticks) = s + Len(buffer) /\ s = grid + q * LiveTicks
  BY <1>4
<1>18. Cut(n, s, q, bars)
  BY <1>9, <1>11, <1>12, <1>13, <1>14, <1>16, <1>17 DEF Cut, c
<1> QED BY <1>15, <1>18

\* add_ticks keeps the old bars, and its own are cut on the grid.
LEMMA CutKeepsShape ==
    ASSUME LiveShape, NEW n \in Nat, NEW s \in Nat, NEW q \in Nat,
           NEW bars \in Seq(Bar), Cut(n, s, q, bars)
    PROVE  LiveShape'
<1> DEFINE L == Len(live)
           N == Len(ticks)
           M == Len(ticks')
           B == Len(buffer')
           c == n * LiveTicks
           w == q * LiveTicks
<1>1. /\ LiveTicks \in Nat \ {0} /\ L \in Nat /\ N \in Nat /\ M \in Nat /\ B \in Nat
      /\ grid \in 0 .. N /\ c \in Nat /\ w \in Nat
  <2>1. LiveTicks \in Nat \ {0}
    BY BarConstants
  <2>2. live \in Seq(Bar) /\ ticks \in Seq(Nat) /\ grid \in 0 .. N
    BY DEF LiveShape
  <2>3. ticks' \in Seq(Nat) /\ buffer' \in Seq(Nat)
    BY DEF Cut
  <2>4. c \in Nat /\ w \in Nat
    BY <2>1
  <2> QED BY <2>1, <2>2, <2>3, <2>4
<1>2. /\ N = s + Len(buffer) /\ s = grid + w /\ M = s + c + B /\ M >= N
      /\ B < LiveTicks /\ grid' = grid /\ Len(bars) = n
      /\ Len(buffer) \in Nat
  <2>1. Len(buffer) \in Nat
    BY DEF LiveShape
  <2> QED BY <2>1 DEF Cut
<1>3. /\ live \in Seq(Bar) /\ live' \in Seq(Bar) /\ Len(live') = L + n
      /\ \A i \in 1 .. L : live'[i] = live[i]
      /\ \A e \in 1 .. n : live'[L + e] = bars[e]
  <2>1. live \in Seq(Bar) /\ live' = live \o bars
    BY DEF LiveShape, Cut
  <2>2. /\ live' \in Seq(Bar) /\ Len(live') = L + n
        /\ \A i \in 1 .. L + n :
               live'[i] = IF i <= L THEN live[i] ELSE bars[i - L]
    <3>1. /\ live \o bars \in Seq(Bar) /\ Len(live \o bars) = Len(live) + Len(bars)
          /\ \A i \in 1 .. Len(live) + Len(bars) :
                 (live \o bars)[i] = IF i <= Len(live) THEN live[i]
                                     ELSE bars[i - Len(live)]
      BY <2>1, ConcatProperties
    <3>2. Len(bars) = n /\ live' = live \o bars
      BY <1>2, <2>1
    <3> QED BY <3>1, <3>2, Zenon
  <2>3. \A i \in 1 .. L : i \in 1 .. L + n /\ i <= L
    BY <1>1
  <2>4. \A e \in 1 .. n : L + e \in 1 .. L + n /\ ~ L + e <= L /\ (L + e) - L = e
    BY <1>1
  <2> QED BY <2>1, <2>2, <2>3, <2>4
<1>4. /\ alone \subseteq 1 .. L
      /\ alone' = IF n = 0 THEN alone ELSE alone \union {L + 1}
  BY DEF LiveShape, Cut
<1>5. /\ \A i \in 1 .. L : i \in alone' <=> i \in alone
      /\ \A e \in 1 .. n : L + e \in alone' <=> e = 1
      /\ alone' \subseteq 1 .. L + n
  <2>1. \A e \in 1 .. n : L + e \notin 1 .. L /\ (L + e = L + 1 <=> e = 1)
    BY <1>1
  <2>2. n # 0 => L + 1 \in 1 .. L + n /\ L + 1 \notin 1 .. L
    BY <1>1
  <2>3. 1 .. L \subseteq 1 .. L + n
    BY <1>1
  <2>4. \A e \in 1 .. n : n # 0
    OBVIOUS
  <2> QED BY <1>4, <2>1, <2>2, <2>3, <2>4
<1>6. ASSUME NEW e \in 1 .. n
      PROVE  /\ (e - 1) * LiveTicks \in Nat
             /\ e * LiveTicks = (e - 1) * LiveTicks + LiveTicks
             /\ e * LiveTicks <= c
             /\ live'[L + e].from = s + (e - 1) * LiveTicks + 1
             /\ live'[L + e].to = s + e * LiveTicks
             /\ BarOf(ticks', live'[L + e], LiveTicks, e = 1)
  <2>1. /\ bars[e].from = s + (e - 1) * LiveTicks + 1
        /\ bars[e].to = s + e * LiveTicks
        /\ BarOf(ticks', bars[e], LiveTicks, e = 1)
    BY DEF Cut
  <2> QED BY <1>1, <1>3, <2>1, BlockEnds
<1> DEFINE Fits(i) ==
             /\ live'[i].from > 0 /\ live'[i].to + B <= M
             /\ BarOf(ticks', live'[i], LiveTicks, i \in alone')
             /\ live'[i].from > grid =>
                    \E k \in Nat : live'[i].from = grid + k * LiveTicks + 1
             /\ i \notin alone' => i > 1 /\ live'[i - 1].to + 1 = live'[i].from
<1>7. ASSUME NEW i \in 1 .. L PROVE Fits(i)
  <2> DEFINE b == live[i]
  <2>1. /\ b \in Bar /\ b.from > 0 /\ b.to + Len(buffer) <= N
        /\ BarOf(ticks, b, LiveTicks, i \in alone)
        /\ b.from > grid => \E k \in Nat : b.from = grid + k * LiveTicks + 1
        /\ i \notin alone => i > 1 /\ live[i - 1].to + 1 = b.from
    BY <1>3 DEF LiveShape
  <2>2. b.from \in Nat /\ b.to \in Nat
    BY <2>1 DEF Bar
  <2>3. i \notin alone => live'[i - 1].to + 1 = b.from /\ b.from > 1
    <3> SUFFICES ASSUME i \notin alone
                 PROVE  live'[i - 1].to + 1 = b.from /\ b.from > 1
      OBVIOUS
    <3>1. i - 1 \in 1 .. L
      BY <1>1, <2>1
    <3> DEFINE a == live[i - 1]
    <3>2. a \in Bar /\ a.from > 0 /\ BarOf(ticks, a, LiveTicks, i - 1 \in alone)
      BY <1>3, <3>1 DEF LiveShape
    <3>3. a.from \in Nat /\ a.to = a.from + LiveTicks - 1
      BY <3>2 DEF Bar, BarOf, BarIn
    <3>4. a.to + 1 = b.from /\ live'[i - 1] = a
      BY <1>3, <2>1, <3>1
    <3>5. /\ LiveTicks \in Nat \ {0} /\ a.from \in Nat /\ a.from > 0
          /\ a.to = a.from + LiveTicks - 1 /\ a.to + 1 = b.from
      BY <3>2, <3>3, <3>4, BarConstants
    <3> DEFINE from == a.from
               next == b.from
    <3>6. /\ LiveTicks \in Nat \ {0} /\ from \in Nat /\ from > 0
          /\ next = from + LiveTicks - 1 + 1
      BY <3>5
    <3> HIDE DEF a, b, from, next
    <3>7. next > 1
      BY <3>6
    <3>8. b.from > 1
      BY <3>7 DEF next
    <3> QED BY <3>4, <3>8
  <2>4. BarOf(ticks', b, LiveTicks, i \in alone)
    <3>1. b.to <= N
      BY <1>1, <1>2, <2>1, <2>2
    <3>2. ticks \in Seq(Nat) /\ ticks' \in Seq(Nat)
          /\ \A t \in 1 .. N : ticks'[t] = ticks[t]
      BY DEF LiveShape, Cut
    <3> DEFINE first == i \in alone
    <3>3. first \/ b.from > 1
      BY <2>3
    <3>4. BarOf(ticks, b, LiveTicks, first)
      BY <2>1
    <3> HIDE DEF first, b
    <3>5. BarOf(ticks', b, LiveTicks, first)
      BY <1>1, <2>1, <3>1, <3>2, <3>3, <3>4, BarKept
    <3> QED BY <3>5 DEF first
  <2>5. b.to + B <= M
    <3> DEFINE t == b.to
    <3>1. t \in Nat /\ t + Len(buffer) <= N
      BY <2>1, <2>2
    <3> HIDE DEF t, c, N, M, B
    <3>2. t + B <= M
      BY <1>1, <1>2, <3>1
    <3> QED BY <3>2 DEF t
  <2>6. live'[i] = b /\ (i \in alone' <=> i \in alone)
    BY <1>3, <1>5
  <2>7. BarOf(ticks', b, LiveTicks, i \in alone')
    <3>1. (i \in alone') = (i \in alone)
      BY <2>6
    <3> QED BY <2>4, <3>1
  <2> HIDE DEF b
  <2> QED BY <2>1, <2>3, <2>5, <2>6, <2>7
<1>8. ASSUME NEW e \in 1 .. n PROVE Fits(L + e)
  <2> DEFINE b == live'[L + e]
             x == (e - 1) * LiveTicks
             y == e * LiveTicks
  <2>1. /\ x \in Nat /\ y = x + LiveTicks /\ y <= c
        /\ b.from = s + x + 1 /\ b.to = s + y /\ BarOf(ticks', b, LiveTicks, e = 1)
    BY <1>6
  <2>2. b.from = grid + ((q + (e - 1)) * LiveTicks) + 1
    <3>1. (q + (e - 1)) * LiveTicks = w + x
      BY <1>1
    <3> HIDE DEF x, w
    <3>2. s + x + 1 = grid + (w + x) + 1
      BY <1>1, <1>2, <2>1
    <3> QED BY <2>1, <3>1, <3>2
  <2>3. e # 1 => L + e > 1 /\ live'[(L + e) - 1].to + 1 = b.from
    <3> SUFFICES ASSUME e # 1
                 PROVE  L + e > 1 /\ live'[(L + e) - 1].to + 1 = b.from
      OBVIOUS
    <3>1. e - 1 \in 1 .. n /\ (L + e) - 1 = L + (e - 1) /\ L + e > 1
      BY <1>1
    <3>2. live'[L + (e - 1)].to = s + x
      BY <1>6, <3>1
    <3>3. (s + x) + 1 = s + x + 1
      BY <2>1
    <3> QED BY <2>1, <3>1, <3>2, <3>3
  <2> HIDE DEF x, y, b
  <2>4. b.from > 0 /\ b.to + B <= M
    <3> HIDE DEF c, M, B
    <3> QED BY <1>1, <1>2, <2>1
  <2>5. L + e \in alone' <=> e = 1
    BY <1>5
  <2>6. BarOf(ticks', b, LiveTicks, L + e \in alone')
    <3>1. CASE e = 1
      <4>1. L + e \in alone' /\ BarOf(ticks', b, LiveTicks, TRUE)
        BY <2>1, <2>5, <3>1 DEF BarOf
      <4> QED BY <4>1 DEF BarOf
    <3>2. CASE e # 1
      <4>1. L + e \notin alone' /\ BarOf(ticks', b, LiveTicks, FALSE)
        BY <2>1, <2>5, <3>2 DEF BarOf
      <4> QED BY <4>1 DEF BarOf
    <3> QED BY <3>1, <3>2
  <2>7. q + (e - 1) \in Nat
    OBVIOUS
  <2>8. \E k \in Nat : b.from = grid + k * LiveTicks + 1
    BY <2>2, <2>7
  <2> QED BY <2>3, <2>4, <2>5, <2>6, <2>8 DEF b
<1>9. \A i \in 1 .. L + n : Fits(i)
  <2> SUFFICES ASSUME NEW i \in 1 .. L + n PROVE Fits(i)
    OBVIOUS
  <2> HIDE DEF Fits
  <2>1. CASE i <= L
    <3>1. i \in 1 .. L
      BY <1>1, <2>1
    <3> QED BY <1>7, <3>1
  <2>2. CASE ~ i <= L
    <3>1. i - L \in 1 .. n /\ L + (i - L) = i
      BY <1>1, <2>2
    <3> QED BY <1>8, <3>1
  <2> QED BY <2>1, <2>2
<1>10. ASSUME L + n > 0, live'[L + n].from > grid PROVE live'[L + n].to + B = M
  <2>1. CASE n = 0
    <3>1. L \in 1 .. L /\ L + n = L
      BY <1>1, <1>10, <2>1
    <3>2. live[L].to + Len(buffer) = N
      BY <1>3, <1>10, <3>1 DEF LiveShape
    <3>3. live[L].to \in Nat
      <4>1. live[L] \in Bar
        BY <1>3, <3>1
      <4> QED BY <4>1 DEF Bar
    <3>4. c = 0
      BY <1>1, <2>1
    <3> DEFINE z == live[L].to
    <3>5. live'[L + n].to = z
      BY <1>3, <3>1
    <3> HIDE DEF z
    <3>6. z + B = M
      <4>1. z \in Nat /\ z + Len(buffer) = N
        BY <3>2, <3>3 DEF z
      <4> QED BY <1>1, <1>2, <3>4, <4>1
    <3> QED BY <3>5, <3>6
  <2>2. CASE n # 0
    <3>1. n \in 1 .. n
      BY <2>2
    <3>2. live'[L + n].to = s + c
      BY <1>6, <3>1
    <3> QED BY <1>2, <3>2
  <2> QED BY <2>1, <2>2
<1>11. \A j \in 1 .. B : buffer'[j] = M - B + j
  <2> SUFFICES ASSUME NEW j \in 1 .. B PROVE buffer'[j] = M - B + j
    OBVIOUS
  <2>1. buffer'[j] = s + c + j
    BY DEF Cut
  <2>2. s + c + j = M - B + j
    <3> HIDE DEF c, M, B
    <3> QED BY <1>1, <1>2
  <2> QED BY <2>1, <2>2
<1>12. \E k \in Nat : M = grid + k * LiveTicks + B
  <2>1. (q + n) * LiveTicks = w + c /\ q + n \in Nat
    BY <1>1
  <2>2. M = grid + (w + c) + B
    <3> HIDE DEF c, M, B, w
    <3> QED BY <1>1, <1>2
  <2> QED BY <2>1, <2>2
<1>13. /\ ticks' \in Seq(Nat) /\ buffer' \in Seq(Nat) /\ grid' \in 0 .. M
  <2>1. grid' \in 0 .. M
    <3> HIDE DEF M
    <3> QED BY <1>1, <1>2
  <2> QED BY <2>1 DEF Cut
<1> QED BY <1>2, <1>3, <1>5, <1>9, <1>10, <1>11, <1>12, <1>13 DEF LiveShape

LEMMA LiveNext == LiveShape /\ [Next]_vars => LiveShape'
<1> SUFFICES ASSUME LiveShape, [Next]_vars PROVE LiveShape'
  OBVIOUS
<1>0. Price \subseteq Nat /\ LiveTicks \in Nat \ {0}
  BY BarConstants
<1>1. ASSUME NEW batch \in Seq(Nat), AddTicks(batch) PROVE LiveShape'
  <2>1. PICK n \in Nat, s \in Nat, q \in Nat, bars \in Seq(Bar) : Cut(n, s, q, bars)
    BY <1>1, AddedTicks
  <2> QED BY <2>1, CutKeepsShape
<1>2. CASE LiveTick
  <2>1. PICK p \in Price : AddTicks(<<p>>)
    BY <1>2 DEF LiveTick
  <2>2. <<p>> \in Seq(Nat)
    BY <1>0
  <2> QED BY <1>1, <2>1, <2>2
<1>3. CASE Backfill
  <2>1. PICK n \in 2 .. MaxBatch : \E batch \in [1 .. n -> Price] : AddTicks(batch)
    BY <1>3 DEF Backfill
  <2>5. PICK batch \in [1 .. n -> Price] : AddTicks(batch)
    BY <2>1
  <2>2. MaxBatch \in Nat
    BY BarConstants
  <2>3. n \in Nat
    BY <2>2
  <2>4. batch \in Seq(Nat)
    <3>1. batch \in [1 .. n -> Nat]
      BY <1>0
    <3> QED BY <2>3, <3>1, SeqDef
  <2> QED BY <1>1, <2>5, <2>4
<1>4. CASE Restart
  <2>1. /\ buffer' = <<>> /\ grid' = Len(ticks)
        /\ ticks' = ticks /\ live' = live /\ alone' = alone
    BY <1>4 DEF Restart
  <2>2. ticks \in Seq(Nat) /\ live \in Seq(Bar) /\ alone \subseteq 1 .. Len(live)
    BY DEF LiveShape
  <2>3. Len(ticks) \in Nat /\ Len(buffer) \in Nat /\ Len(<<>>) = 0
        /\ <<>> \in Seq(Nat) /\ Len(live) \in Nat
    BY <2>2 DEF LiveShape
  <2>4. ASSUME NEW i \in 1 .. Len(live)
        PROVE  /\ live[i].from > 0 /\ live[i].to + 0 <= Len(ticks)
               /\ BarOf(ticks, live[i], LiveTicks, i \in alone) /\ ~ live[i].from > Len(ticks)
               /\ i \notin alone => i > 1 /\ live[i - 1].to + 1 = live[i].from
    <3> DEFINE b == live[i]
    <3>1. /\ b \in Bar /\ b.from > 0 /\ b.to + Len(buffer) <= Len(ticks)
          /\ BarOf(ticks, b, LiveTicks, i \in alone)
          /\ i \notin alone => i > 1 /\ live[i - 1].to + 1 = b.from
      BY <2>2 DEF LiveShape
    <3>2. b.from \in Nat /\ b.to \in Nat /\ b.to = b.from + LiveTicks - 1
      BY <3>1 DEF Bar, BarOf, BarIn
    <3> DEFINE f == b.from
               t == b.to
    <3>3. f \in Nat /\ t \in Nat /\ t = f + LiveTicks - 1
          /\ t + Len(buffer) <= Len(ticks)
      BY <3>1, <3>2
    <3> HIDE DEF f, t
    <3>4. t + 0 <= Len(ticks) /\ ~ f > Len(ticks)
      BY <1>0, <2>3, <3>3
    <3> QED BY <3>1, <3>4 DEF f, t
  <2>5. Len(ticks) = Len(ticks) + 0 * LiveTicks + 0
    BY <1>0, <2>3
  <2>6. Len(live) > 0 => Len(live) \in 1 .. Len(live)
    BY <2>3
  <2>7. Len(ticks) \in 0 .. Len(ticks) /\ 0 < LiveTicks
    BY <1>0, <2>3
  <2> QED BY <2>1, <2>2, <2>3, <2>4, <2>5, <2>6, <2>7 DEF LiveShape
<1>5. CASE EndMonth \/ UNCHANGED vars
  <2>1. UNCHANGED <<ticks, buffer, live, alone, grid>>
    BY <1>5 DEF EndMonth, vars, runtime
  <2> QED BY <2>1 DEF LiveShape
<1> QED BY <1>2, <1>3, <1>4, <1>5 DEF Next

LEMMA LiveShapeMatches == LiveShape => LiveBarsMatch
<1> SUFFICES ASSUME LiveShape PROVE LiveBarsMatch
  OBVIOUS
<1> DEFINE N == Len(ticks)
           B == Len(buffer)
<1>1. /\ LiveTicks \in Nat \ {0} /\ N \in Nat /\ B \in Nat /\ B < LiveTicks
      /\ grid \in 0 .. N /\ buffer \in Seq(Nat) /\ live \in Seq(Bar)
      /\ DOMAIN live = 1 .. Len(live) /\ Len(live) \in Nat
  BY BarConstants DEF LiveShape
<1>2. PICK q \in Nat : N = grid + q * LiveTicks + B
  BY DEF LiveShape
<1>3. B <= N
  <2> DEFINE w == q * LiveTicks
  <2>1. w \in Nat /\ N = grid + w + B
    BY <1>1, <1>2
  <2> HIDE DEF w, N, B
  <2> QED BY <1>1, <2>1
<1>4. buffer = SubSeq(Upto(N), N - B + 1, N)
  <2> DEFINE u == Upto(N)
             r == SubSeq(u, N - B + 1, N)
  <2>1. \A i \in 1 .. N : u[i] = i
    BY <1>1 DEF Upto
  <2>2. N - B + 1 \in Int /\ N \in Int /\ \A i \in N - B + 1 .. N : i \in 1 .. N
    BY <1>1, <1>3
  <2>3. \A i \in N - B + 1 .. N : u[i] \in Nat
    BY <1>1, <2>1, <2>2
  <2> HIDE DEF u
  <2>4. /\ r \in Seq(Nat)
        /\ Len(r) = IF N - B + 1 <= N THEN N - (N - B + 1) + 1 ELSE 0
        /\ \A i \in 1 .. N - (N - B + 1) + 1 : r[i] = u[N - B + 1 + i - 1]
    BY <2>2, <2>3, SubSeqProperties
  <2> HIDE DEF r
  <2>5. Len(r) = B
    BY <1>1, <2>4
  <2>6. ASSUME NEW i \in 1 .. B PROVE buffer[i] = r[i]
    <3>1. /\ i \in 1 .. N - (N - B + 1) + 1
          /\ N - B + 1 + i - 1 = N - B + i /\ N - B + i \in 1 .. N
      BY <1>1, <1>3
    <3>2. r[i] = N - B + i
      BY <2>1, <2>4, <3>1
    <3>3. buffer[i] = N - B + i
      BY DEF LiveShape
    <3> QED BY <3>2, <3>3
  <2>7. buffer = r
    BY <1>1, <2>4, <2>5, <2>6, SeqEqual
  <2> QED BY <2>7 DEF r, u
<1>5. B = (N - grid) % LiveTicks
  <2>1. (q * LiveTicks + B) % LiveTicks = B
    <3>1. B \in 0 .. LiveTicks - 1 /\ q \in Int
      BY <1>1
    <3> HIDE DEF B
    <3> QED BY <1>1, <3>1, Remainder
  <2>2. N - grid = q * LiveTicks + B
    <3> DEFINE w == q * LiveTicks
    <3>1. w \in Nat /\ N = grid + w + B
      BY <1>1, <1>2
    <3> HIDE DEF w, N, B
    <3>2. N - grid = w + B
      BY <1>1, <3>1
    <3> QED BY <3>2 DEF w
  <2> QED BY <2>1, <2>2
<1>6. \A k \in Nat : (k * LiveTicks + 1) % LiveTicks = 1 % LiveTicks
  <2> SUFFICES ASSUME NEW k \in Nat
               PROVE  (k * LiveTicks + 1) % LiveTicks = 1 % LiveTicks
    OBVIOUS
  <2>1. CASE LiveTicks = 1
    <3>1. \A i \in Nat : i % 1 = 0
      OBVIOUS
    <3>2. k * 1 + 1 \in Nat
      OBVIOUS
    <3> QED BY <2>1, <3>1, <3>2
  <2>2. CASE LiveTicks # 1
    <3>1. 1 \in 0 .. LiveTicks - 1
      BY <1>1, <2>2
    <3>2. (k * LiveTicks + 1) % LiveTicks = 1
      BY <1>1, <3>1, Remainder
    <3>3. 1 % LiveTicks = 1
      BY <1>1, <3>1, Small
    <3> QED BY <3>2, <3>3
  <2> QED BY <2>1, <2>2
<1>7. ASSUME NEW i \in DOMAIN live
      PROVE  LET b == live[i] IN
             /\ IsBar(b, b.from, b.from + LiveTicks - 1,
                      IF i \in alone THEN 0 ELSE ticks[b.from - 1])
             /\ b.revisions = Changes(b.from, b.to, LiveTicks)
             /\ b.from > grid => (b.from - grid) % LiveTicks = 1 % LiveTicks
             /\ i \notin alone => live[i - 1].to + 1 = b.from
  <2> DEFINE b == live[i]
  <2>1. /\ b \in Bar /\ BarOf(ticks, b, LiveTicks, i \in alone)
        /\ b.from > grid => \E k \in Nat : b.from = grid + k * LiveTicks + 1
        /\ i \notin alone => live[i - 1].to + 1 = b.from
    <3>1. i \in 1 .. Len(live) /\ live \in Seq(Bar)
      BY <1>1
    <3>2. b \in Bar
      BY <3>1
    <3> QED BY <3>1, <3>2 DEF LiveShape
  <2>2. /\ IsBar(b, b.from, b.from + LiveTicks - 1,
                 IF i \in alone THEN 0 ELSE ticks[b.from - 1])
        /\ b.revisions = Changes(b.from, b.to, LiveTicks)
    <3> HIDE DEF b
    <3> QED BY <2>1 DEF BarOf, BarIn, IsBar, ChangesIn, Changes
  <2>3. b.from > grid => (b.from - grid) % LiveTicks = 1 % LiveTicks
    <3> SUFFICES ASSUME b.from > grid
                 PROVE  (b.from - grid) % LiveTicks = 1 % LiveTicks
      OBVIOUS
    <3>1. PICK k \in Nat : b.from = grid + k * LiveTicks + 1
      BY <2>1
    <3>2. b.from - grid = k * LiveTicks + 1
      <4> DEFINE w == k * LiveTicks
                 f == b.from
      <4>1. w \in Nat /\ f = grid + w + 1
        BY <1>1, <3>1
      <4> HIDE DEF w, f
      <4>2. f - grid = w + 1
        BY <1>1, <4>1
      <4> QED BY <4>2 DEF w, f
    <3> QED BY <1>6, <3>2
  <2> QED BY <2>1, <2>2, <2>3
<1>8. Len(live) > 0 /\ Last(live).from > grid => Last(live).to + B = N
  BY DEF LiveShape, Last
<1> QED BY <1>4, <1>5, <1>7, <1>8 DEF LiveBarsMatch

\* However the ticks arrive, one by one or in batches, and whenever the process
\* is restarted: the runtime's bars are consecutive blocks of LiveTicks ticks on
\* a grid that starts anew with the process, each with the prices, first extremes
\* and revisions of its ticks, and none is lost but the buffer at a restart
\* (TickAggregator.add_ticks, TickCountBarBoundary.align, _build_bar).
THEOREM LiveBarsAreBlocks == Spec => []LiveBarsMatch
<1>1. Spec => []LiveShape
  BY LiveInit, LiveNext, PTL DEF Spec
<1> QED BY <1>1, LiveShapeMatches, PTL

-----------------------------------------------------------------------------
(* More arithmetic, and what Min, Max and Cardinality find. *)

LEMMA Quotient ==
    ASSUME NEW q \in Nat, NEW d \in Nat \ {0}, NEW r \in 0 .. d - 1
    PROVE  (q * d + r) \div d = q
BY SMTT(30)

LEMMA MinOf ==
    ASSUME NEW S \in SUBSET Int, NEW x \in S, \A y \in S : x <= y
    PROVE  Min(S) = x
<1> DEFINE z == CHOOSE a \in S : \A b \in S : a <= b
<1>1. z \in S /\ \A y \in S : z <= y
  OBVIOUS
<1>2. Min(S) = z
  BY DEF Min
<1> HIDE DEF z
<1> QED BY <1>1, <1>2

LEMMA MaxOf ==
    ASSUME NEW S \in SUBSET Int, NEW x \in S, \A y \in S : y <= x
    PROVE  Max(S) = x
<1> DEFINE z == CHOOSE a \in S : \A b \in S : a >= b
<1>1. z \in S /\ \A y \in S : z >= y
  <2>1. \A y \in S : x >= y
    OBVIOUS
  <2> QED BY <2>1
<1>2. Max(S) = z
  BY DEF Max
<1> HIDE DEF z
<1> QED BY <1>1, <1>2

\* A set of numbers that is moved keeps its size.
LEMMA Shifted ==
    ASSUME NEW S \in SUBSET Int, IsFiniteSet(S), NEW d \in Int
    PROVE  Cardinality({x + d : x \in S}) = Cardinality(S)
<1> DEFINE T == {x + d : x \in S}
           f == [x \in S |-> x + d]
<1>1. f \in Bijection(S, T)
  <2>1. \A x \in S : f[x] = x + d /\ f[x] \in T
    OBVIOUS
  <2>2. \A x, y \in S : f[x] = f[y] => x = y
    <3> SUFFICES ASSUME NEW x \in S, NEW y \in S, f[x] = f[y] PROVE x = y
      OBVIOUS
    <3>1. x \in Int /\ y \in Int /\ x + d = y + d
      BY <2>1
    <3> QED BY <3>1
  <2>3. \A t \in T : \E x \in S : f[x] = t
    BY <2>1
  <2> QED BY <2>1, <2>2, <2>3 DEF Bijection, Injection, Surjection, IsInjective
<1> HIDE DEF T, f
<1>2. Cardinality(T) = Cardinality(S)
  BY <1>1, FS_Bijection DEF ExistsBijection
<1> QED BY <1>2 DEF T

\* The first position by Min is that of Index.
LEMMA FirstPosition ==
    ASSUME NEW p \in Seq(Nat), NEW v \in Range(p)
    PROVE  Min({j \in 0 .. Len(p) - 1 : p[j + 1] = v}) = Index(p, v)
<1> DEFINE h == Index(p, v)
           S == {j \in 0 .. Len(p) - 1 : p[j + 1] = v}
<1>1. h \in 0 .. Len(p) - 1 /\ p[h + 1] = v /\ \A j \in 1 .. h : p[j] # v
  BY IndexIsFirst
<1> HIDE DEF h
<1>2. h \in S /\ S \in SUBSET Int
  BY <1>1
<1>3. \A j \in S : h <= j
  <2> SUFFICES ASSUME NEW j \in S, ~ h <= j PROVE FALSE
    OBVIOUS
  <2>1. j \in 0 .. Len(p) - 1 /\ p[j + 1] = v
    OBVIOUS
  <2>2. j + 1 \in 1 .. h
    BY <1>1, <2>1
  <2> QED BY <1>1, <2>1, <2>2
<1> HIDE DEF S
<1>4. Min(S) = h
  BY <1>2, <1>3, MinOf
<1> QED BY <1>4 DEF S, h

-----------------------------------------------------------------------------
(* The rows of a file. *)

\* The j-th row of the i-th bar of a file, if bars have d rows.
Row(i, j, d) == (i - 1) * d + j

LEMMA RowPlace ==
    ASSUME NEW k \in Nat, NEW d \in Nat \ {0}, NEW i \in Nat \ {0}, NEW j \in 1 .. d
    PROVE  /\ Row(i, j, d) \in Nat \ {0} /\ (i - 1) * d \in Nat
           /\ (Row(i, j, d) - 1 + k * d) \div d = k + i - 1
           /\ (Row(i, j, d) - 1 + k * d) % d = j - 1
<1> DEFINE x == (i - 1) * d
           y == k * d
           a == k + i - 1
           z == a * d
<1>1. x \in Nat /\ y \in Nat /\ z = x + y /\ a \in Nat
  BY SMTT(30)
<1>2. j - 1 \in 0 .. d - 1
  OBVIOUS
<1>3. (a * d + (j - 1)) \div d = a /\ (a * d + (j - 1)) % d = j - 1
  <2> HIDE DEF a
  <2>1. a \in Int
    BY <1>1
  <2> QED BY <1>1, <1>2, <2>1, Quotient, Remainder
<1> HIDE DEF x, y, a
<1>4. x + j - 1 + y = z + (j - 1) /\ x + j \in Nat \ {0}
  BY <1>1
<1>5. (x + j - 1 + y) \div d = a /\ (x + j - 1 + y) % d = j - 1
  BY <1>3, <1>4
<1> QED BY <1>1, <1>4, <1>5 DEF Row, x, y, a

LEMMA RowSplit ==
    ASSUME NEW q \in Nat, NEW d \in Nat \ {0}, NEW r \in 1 .. q * d
    PROVE  \E i \in 1 .. q : \E j \in 1 .. d : r = Row(i, j, d)
<1> DEFINE a == (r - 1) \div d
           b == (r - 1) % d
           x == a * d
           y == q * d
<1>0. y \in Nat /\ r \in Nat /\ r - 1 \in Nat /\ r <= y
  BY SMTT(30)
<1>1. a \in Nat /\ b \in 0 .. d - 1 /\ x \in Nat /\ r - 1 = x + b
  <2> DEFINE n == r - 1
  <2>1. n \in Nat
    BY <1>0
  <2> HIDE DEF n
  <2>2. n \div d \in Nat /\ n % d \in 0 .. d - 1 /\ (n \div d) * d \in Nat
        /\ n = (n \div d) * d + (n % d)
    BY <2>1, Division
  <2> QED BY <2>2 DEF n
<1> HIDE DEF a, b
<1>2. a < q
  <2> SUFFICES ASSUME ~ a < q PROVE FALSE
    OBVIOUS
  <2>1. x >= y
    <3>1. \A u, v \in Nat : u >= v => u * d >= v * d
      BY SMTT(30)
    <3>2. a >= q
      BY <1>1
    <3> QED BY <1>1, <3>1, <3>2
  <2> HIDE DEF x, y
  <2> QED BY <1>0, <1>1, <2>1
<1>3. a + 1 \in 1 .. q /\ b + 1 \in 1 .. d
  BY <1>1, <1>2
<1>4. Row(a + 1, b + 1, d) = r
  <2>1. (a + 1) - 1 = a
    BY <1>1
  <2>2. Row(a + 1, b + 1, d) = x + (b + 1)
    BY <2>1 DEF Row
  <2> HIDE DEF x
  <2> QED BY <1>0, <1>1, <2>2
<1> QED BY <1>3, <1>4

\* The rows of bar n in a file with q whole bars behind the first k.
Of(k, q, d, n) == {r \in 1 .. q * d : (r - 1 + k * d) \div d = n}

\* The rows of the i-th of these bars are d consecutive ones, ...
LEMMA BarRows ==
    ASSUME NEW k \in Nat, NEW d \in Nat \ {0}, NEW q \in Nat, NEW i \in 1 .. q
    PROVE  Of(k, q, d, k + i - 1) = (i - 1) * d + 1 .. (i - 1) * d + d
<1> DEFINE x == (i - 1) * d
           y == q * d
           O == {r \in 1 .. q * d : (r - 1 + k * d) \div d = k + i - 1}
<1>1. i \in Nat \ {0} /\ x \in Nat /\ y \in Nat
  BY BlockEnds, SMTT(30)
<1>2. x + d <= y
  <2>1. (i - 1) * d \in Nat /\ i * d = (i - 1) * d + d /\ i * d <= q * d
    BY BlockEnds
  <2> DEFINE z == i * d
  <2>2. z = x + d /\ z <= y
    BY <2>1
  <2> HIDE DEF x, y, z
  <2> QED BY <2>2
<1>3. ASSUME NEW r \in O PROVE r \in x + 1 .. x + d
  <2>1. r \in 1 .. q * d /\ (r - 1 + k * d) \div d = k + i - 1
    OBVIOUS
  <2>2. PICK a \in 1 .. q : \E j \in 1 .. d : r = Row(a, j, d)
    BY <2>1, RowSplit
  <2>3. PICK j \in 1 .. d : r = Row(a, j, d)
    BY <2>2
  <2>4. a \in Nat \ {0}
    OBVIOUS
  <2>5. (r - 1 + k * d) \div d = k + a - 1
    BY <2>3, <2>4, RowPlace
  <2>6. a = i
    <3>1. k + a - 1 = k + i - 1
      BY <2>1, <2>5
    <3> QED BY <1>1, <2>4, <3>1
  <2>7. r = x + j
    BY <2>3, <2>6 DEF Row
  <2> HIDE DEF x
  <2> QED BY <1>1, <2>7
<1>4. ASSUME NEW r \in x + 1 .. x + d PROVE r \in O
  <2> DEFINE j == r - x
  <2>1. j \in 1 .. d /\ r = x + j /\ r \in 1 .. y
    <3> HIDE DEF x, y
    <3> QED BY <1>1, <1>2
  <2>2. r = Row(i, j, d)
    BY <2>1 DEF Row
  <2> HIDE DEF j, x
  <2>3. (Row(i, j, d) - 1 + k * d) \div d = k + i - 1
    BY <1>1, <2>1, RowPlace
  <2> QED BY <2>1, <2>2, <2>3
<1>5. O = x + 1 .. x + d
  <2> HIDE DEF O, x
  <2>1. \A r \in O : r \in x + 1 .. x + d
    BY <1>3
  <2>2. \A r \in x + 1 .. x + d : r \in O
    BY <1>4
  <2> QED BY <2>1, <2>2
<1> QED BY <1>5 DEF Of

LEMMA RowsOf ==
    ASSUME NEW k \in Nat, NEW d \in Nat \ {0}, NEW q \in Nat, NEW n \in k .. k + q - 1
    PROVE  Of(k, q, d, n) = (n - k) * d + 1 .. (n - k) * d + d
<1> DEFINE i == n - k + 1
<1>1. i \in 1 .. q /\ k + i - 1 = n /\ i - 1 = n - k
  OBVIOUS
<1> HIDE DEF i
<1>2. Of(k, q, d, k + i - 1) = (i - 1) * d + 1 .. (i - 1) * d + d
  <2>1. i \in 1 .. q
    BY <1>1
  <2>2. \A j \in 1 .. q : Of(k, q, d, k + j - 1) = (j - 1) * d + 1 .. (j - 1) * d + d
    BY BarRows, Zenon
  <2> QED BY <2>1, <2>2, Zenon
<1> QED BY <1>1, <1>2

\* ... and the numbers of these bars follow one another.
LEMMA BarNumbers ==
    ASSUME NEW k \in Nat, NEW d \in Nat \ {0}, NEW q \in Nat
    PROVE  {(r - 1 + k * d) \div d : r \in 1 .. q * d} = k .. k + q - 1
<1> DEFINE I == {(r - 1 + k * d) \div d : r \in 1 .. q * d}
<1>1. ASSUME NEW r \in 1 .. q * d PROVE (r - 1 + k * d) \div d \in k .. k + q - 1
  <2>1. PICK a \in 1 .. q : \E j \in 1 .. d : r = Row(a, j, d)
    BY RowSplit
  <2>2. PICK j \in 1 .. d : r = Row(a, j, d)
    BY <2>1
  <2>3. (r - 1 + k * d) \div d = k + a - 1
    BY <2>2, RowPlace
  <2> QED BY <2>3
<1>2. ASSUME NEW n \in k .. k + q - 1
      PROVE  \E r \in 1 .. q * d : (r - 1 + k * d) \div d = n
  <2> DEFINE i == n - k + 1
  <2>1. i \in 1 .. q /\ k + i - 1 = n
    OBVIOUS
  <2> HIDE DEF i
  <2> DEFINE x == (i - 1) * d
  <2>2. Of(k, q, d, k + i - 1) = x + 1 .. x + d
    <3>1. i \in 1 .. q
      BY <2>1
    <3>2. \A j \in 1 .. q : Of(k, q, d, k + j - 1) = (j - 1) * d + 1 .. (j - 1) * d + d
      BY BarRows, Zenon
    <3> QED BY <3>1, <3>2, Zenon
  <2>3. x \in Nat
    BY <2>1, BlockEnds
  <2>4. x + 1 \in x + 1 .. x + d
    <3> HIDE DEF x
    <3> QED BY <2>3
  <2> QED BY <2>1, <2>2, <2>4 DEF Of
<1> QED BY <1>1, <1>2

-----------------------------------------------------------------------------
(* A base bar of the script. *)

LEMMA Ends ==
    ASSUME NEW x \in Nat, NEW d \in Nat \ {0}
    PROVE  Min(x + 1 .. x + d) = x + 1 /\ Max(x + 1 .. x + d) = x + d
<1> DEFINE O == x + 1 .. x + d
<1>1. O \in SUBSET Int /\ x + 1 \in O /\ x + d \in O
      /\ \A y \in O : x + 1 <= y /\ y <= x + d
  OBVIOUS
<1> HIDE DEF O
<1>2. Min(O) = x + 1 /\ Max(O) = x + d
  BY <1>1, MinOf, MaxOf
<1> QED BY <1>2 DEF O

\* The bar of _bars_from_ticks of the rows O of a month, s ticks of which are gone.
PartBar(m, month, O, s, d, sign) ==
    LET high == Max({m[month[r]] : r \in O})
        low == Min({m[month[r]] : r \in O})
    IN [from |-> month[Min(O)], to |-> month[Max(O)],
        open |-> m[month[Min(O)]], close |-> m[month[Max(O)]],
        high |-> high, low |-> low,
        hpos |-> Min({(r - 1 + s) % d : r \in {x \in O : m[month[x]] = high}}),
        lpos |-> Min({(r - 1 + s) % d : r \in {x \in O : m[month[x]] = low}}),
        sign |-> sign,
        revisions |-> Cardinality({r \in O : r - 1 \in O
                                        /\ m[month[r]] # m[month[r - 1]]})]

LEMMA AsSeq ==
    ASSUME NEW n \in Nat, NEW S, NEW f \in [1 .. n -> S]
    PROVE  f \in Seq(S) /\ Len(f) = n
BY SeqDef

\* d prices of the market behind tick a.
Prices(m, a, d) == [j \in 1 .. d |-> m[a + j]]

\* In the month, of which s ticks are gone, d rows behind row x make a bar.
Whole(m, month, x, s, d) ==
    /\ s + x + d <= Len(m)
    /\ \A j \in 1 .. d : month[x + j] = s + x + j /\ (x + j - 1 + s) % d = j - 1

\* The bar of these rows is the one that _build_bar makes of their prices.
SameBuilt(m, month, x, s, d, sign, previous) ==
    PartBar(m, month, x + 1 .. x + d, s, d, sign) =
        BuildBar(Prices(m, s + x, d), s + x + 1, s + x + d, previous)

\* It is the bar that the runtime would build of the same ticks.
LEMMA SameBar ==
    ASSUME NEW m \in Seq(Nat), NEW month \in Seq(Nat), NEW d \in Nat \ {0},
           NEW x \in Nat, NEW s \in Nat, NEW previous \in Nat,
           Whole(m, month, x, s, d),
           NEW sign, sign = IF previous = 0 THEN "flat" ELSE Sign(m[month[x + d]], previous)
    PROVE  SameBuilt(m, month, x, s, d, sign, previous)
<1> DEFINE O == x + 1 .. x + d
           p == Prices(m, s + x, d)
           prices == {m[month[r]] : r \in O}
<1>0. /\ s + x + d <= Len(m)
      /\ \A j \in 1 .. d : month[x + j] = s + x + j
      /\ \A j \in 1 .. d : (x + j - 1 + s) % d = j - 1
  BY DEF Whole
<1>1. /\ p \in Seq(Nat) /\ Len(p) = d /\ DOMAIN p = 1 .. d
      /\ \A j \in 1 .. d : p[j] = m[s + x + j] /\ p[j] \in Nat
  <2>1. \A j \in 1 .. d : s + x + j \in 1 .. Len(m)
    BY <1>0
  <2>2. ASSUME NEW j \in 1 .. d PROVE m[s + x + j] \in Nat
    <3> DEFINE i == s + x + j
    <3>1. i \in 1 .. Len(m)
      BY <2>1
    <3> HIDE DEF i
    <3>2. m[i] \in Nat
      BY <3>1, ElementOfSeq
    <3> QED BY <3>2 DEF i
  <2>3. p = [j \in 1 .. d |-> m[s + x + j]]
    BY DEF Prices
  <2> HIDE DEF p
  <2>4. /\ \A j \in 1 .. d : p[j] = m[s + x + j] /\ p[j] \in Nat
        /\ p \in [1 .. d -> Nat]
    BY <2>2, <2>3
  <2> QED BY <2>4, AsSeq
<1> HIDE DEF p
<1>2. \A j \in 1 .. d : x + j \in O /\ m[month[x + j]] = p[j]
  <2> SUFFICES ASSUME NEW j \in 1 .. d PROVE x + j \in O /\ m[month[x + j]] = p[j]
    OBVIOUS
  <2>1. month[x + j] = s + x + j /\ p[j] = m[s + x + j]
    BY <1>0, <1>1
  <2>2. x + j \in O
    OBVIOUS
  <2> QED BY <2>1, <2>2
<1>3. \A r \in O : r - x \in 1 .. d /\ m[month[r]] = p[r - x]
  <2> SUFFICES ASSUME NEW r \in O PROVE r - x \in 1 .. d /\ m[month[r]] = p[r - x]
    OBVIOUS
  <2>1. r - x \in 1 .. d /\ x + (r - x) = r
    OBVIOUS
  <2>2. m[month[x + (r - x)]] = p[r - x]
    BY <1>2, <2>1
  <2> QED BY <2>1, <2>2
<1>4. prices = Range(p)
  <2>1. Range(p) = {p[j] : j \in 1 .. d}
    <3>1. Range(p) = {p[j] : j \in 1 .. Len(p)}
      BY <1>1, RangeEquality
    <3> QED BY <1>1, <3>1
  <2>2. \A v \in prices : v \in {p[j] : j \in 1 .. d}
    <3> SUFFICES ASSUME NEW r \in O PROVE m[month[r]] \in {p[j] : j \in 1 .. d}
      OBVIOUS
    <3> QED BY <1>3
  <2>3. \A j \in 1 .. d : p[j] \in prices
    <3> SUFFICES ASSUME NEW j \in 1 .. d PROVE p[j] \in prices
      OBVIOUS
    <3>1. x + j \in O /\ m[month[x + j]] = p[j]
      BY <1>2
    <3> QED BY <3>1
  <2> QED BY <2>1, <2>2, <2>3
<1>5. Min(O) = x + 1 /\ Max(O) = x + d
  BY Ends
<1>6. /\ month[x + 1] = s + x + 1 /\ month[x + d] = s + x + d
      /\ m[month[x + 1]] = Head(p) /\ m[month[x + d]] = Last(p)
  <2>1. 1 \in 1 .. d /\ d \in 1 .. d
    OBVIOUS
  <2>2. Head(p) = p[1] /\ Last(p) = p[d]
    BY <1>1 DEF Last
  <2> QED BY <1>0, <1>2, <2>1, <2>2
<1>7. ASSUME NEW v \in Range(p)
      PROVE  Min({(r - 1 + s) % d : r \in {y \in O : m[month[y]] = v}}) = Index(p, v)
  <2>1. ASSUME NEW r \in O PROVE (r - 1 + s) % d = (r - x) - 1
    <3> DEFINE j == r - x
    <3>1. j \in 1 .. d /\ x + j = r
      OBVIOUS
    <3> HIDE DEF j
    <3>2. (x + j - 1 + s) % d = j - 1
      BY <1>0, <3>1
    <3> QED BY <3>1, <3>2 DEF j
  <2> DEFINE S == {(r - 1 + s) % d : r \in {y \in O : m[month[y]] = v}}
             T == {j \in 0 .. Len(p) - 1 : p[j + 1] = v}
  <2>2. ASSUME NEW a \in S PROVE a \in T
    <3>1. PICK r \in O : m[month[r]] = v /\ a = (r - 1 + s) % d
      OBVIOUS
    <3>2. a = (r - x) - 1
      BY <2>1, <3>1
    <3>3. a \in 0 .. Len(p) - 1 /\ a + 1 = r - x
      BY <1>1, <1>3, <3>2
    <3>4. p[r - x] = m[month[r]]
      BY <1>3
    <3> QED BY <3>1, <3>3, <3>4
  <2>3. ASSUME NEW a \in T PROVE a \in S
    <3>1. a + 1 \in 1 .. d /\ p[a + 1] = v
      BY <1>1
    <3>2. x + (a + 1) \in O /\ m[month[x + (a + 1)]] = v
      BY <1>2, <3>1
    <3>3. (x + (a + 1) - 1 + s) % d = a
      <4>1. (x + (a + 1) - 1 + s) % d = (a + 1) - 1
        BY <1>0, <3>1
      <4> QED BY <3>1, <4>1
    <3> DEFINE r == x + (a + 1)
    <3>4. r \in {y \in O : m[month[y]] = v} /\ a = (r - 1 + s) % d
      BY <3>2, <3>3
    <3> HIDE DEF r
    <3> QED BY <3>4
  <2>4. S = T
    <3> HIDE DEF S, T
    <3> QED BY <2>2, <2>3
  <2> QED BY <1>1, <2>4, FirstPosition
<1>8. Cardinality({r \in O : r - 1 \in O /\ m[month[r]] # m[month[r - 1]]}) =
          Cardinality({j \in 2 .. Len(p) : p[j] # p[j - 1]})
  <2> DEFINE R == {r \in O : r - 1 \in O /\ m[month[r]] # m[month[r - 1]]}
             T == {j \in 2 .. Len(p) : p[j] # p[j - 1]}
             U == {j + x : j \in T}
  <2>1. ASSUME NEW r \in R PROVE r \in U
    <3> DEFINE j == r - x
    <3>1. r \in O /\ r - 1 \in O /\ m[month[r]] # m[month[r - 1]]
      OBVIOUS
    <3>2. j \in 2 .. Len(p) /\ j \in 1 .. d /\ j - 1 \in 1 .. d
          /\ x + j = r /\ x + (j - 1) = r - 1 /\ j + x = r
      BY <1>1, <3>1
    <3> HIDE DEF j, R
    <3>3. p[j] = m[month[r]] /\ p[j - 1] = m[month[r - 1]]
      BY <1>2, <3>2
    <3> QED BY <3>1, <3>2, <3>3
  <2>2. ASSUME NEW j \in T PROVE j + x \in R
    <3>1. j \in 1 .. d /\ j - 1 \in 1 .. d /\ p[j] # p[j - 1]
          /\ x + j = j + x /\ x + (j - 1) = j + x - 1
      BY <1>1
    <3>2. j + x \in O /\ j + x - 1 \in O
          /\ m[month[j + x]] = p[j] /\ m[month[j + x - 1]] = p[j - 1]
      BY <1>2, <3>1
    <3> DEFINE r == j + x
    <3>3. r \in O /\ r - 1 \in O /\ m[month[r]] # m[month[r - 1]]
      BY <3>1, <3>2
    <3> HIDE DEF r
    <3>4. r \in R
      BY <3>3
    <3> HIDE DEF R
    <3> QED BY <3>4 DEF r
  <2>3. R = U
    <3> HIDE DEF R, T
    <3> QED BY <2>1, <2>2
  <2>4. T \in SUBSET Int /\ IsFiniteSet(T)
    <3>1. IsFiniteSet(2 .. Len(p)) /\ T \in SUBSET (2 .. Len(p))
      BY <1>1, FS_Interval
    <3>2. 2 .. Len(p) \subseteq Int
      OBVIOUS
    <3> HIDE DEF T
    <3> QED BY <3>1, <3>2, FS_Subset
  <2>5. Cardinality(U) = Cardinality(T)
    <3>1. x \in Int
      OBVIOUS
    <3> HIDE DEF T
    <3> QED BY <2>4, <3>1, Shifted
  <2>6. Cardinality(R) = Cardinality(T)
    <3> HIDE DEF R, T, U
    <3> QED BY <2>3, <2>5
  <2> QED BY <2>6
<1>9. Max(Range(p)) \in Range(p) /\ Min(Range(p)) \in Range(p)
  <2>1. p # <<>>
    BY <1>1
  <2> QED BY <1>1, <2>1, Extremes
<1> DEFINE high == Max(Range(p))
           low == Min(Range(p))
<1>10. Min({(r - 1 + s) % d : r \in {y \in O : m[month[y]] = high}}) = Index(p, high)
       /\ Min({(r - 1 + s) % d : r \in {y \in O : m[month[y]] = low}}) = Index(p, low)
  <2> HIDE DEF high, low
  <2> QED BY <1>7, <1>9 DEF high, low
<1> HIDE DEF O
<1>11. PartBar(m, month, O, s, d, sign) = BuildBar(p, s + x + 1, s + x + d, previous)
  BY <1>4, <1>5, <1>6, <1>8, <1>10 DEF PartBar, BuildBar
<1> QED BY <1>11 DEF O, p, SameBuilt

-----------------------------------------------------------------------------
(* The steps of the script. *)

\* Base bar n of the market.
FileBar(m, b, n) ==
    /\ b \in Bar /\ b.from = (n - 1) * Base + 1 /\ b.to = n * Base
    /\ BarOf(m, b, Base, n = 1)

\* The bars that _bars_from_ticks cuts from a month, which begins behind k bars.
FileCut(month, k, previous) ==
    LET q == Len(month) \div Base
        bars == BarsFromTicks(month, k * Base, previous)
    IN /\ bars \in Seq(Bar) /\ Len(bars) = q
       /\ \A i \in 1 .. q : FileBar(ticks, bars[i], k + i)

\* _bars_from_ticks of the rest of the market behind k bars.
LEMMA ScriptBars ==
    ASSUME ticks \in Seq(Nat), \A t \in 1 .. Len(ticks) : ticks[t] # 0,
           NEW month \in Seq(Nat), NEW k \in Nat,
           k * Base + Len(month) = Len(ticks),
           \A r \in 1 .. Len(month) : month[r] = k * Base + r,
           NEW previous, previous = IF k = 0 THEN 0 ELSE ticks[k * Base]
    PROVE  FileCut(month, k, previous)
<1> DEFINE q == Len(month) \div Base
           bars == BarsFromTicks(month, k * Base, previous)
<1>0. q = Len(month) \div Base /\ bars = BarsFromTicks(month, k * Base, previous)
  OBVIOUS
<1> SUFFICES /\ bars \in Seq(Bar) /\ Len(bars) = q
             /\ \A i \in 1 .. q : FileBar(ticks, bars[i], k + i)
  BY DEF FileCut
<1> HIDE DEF q, bars
<1> DEFINE d == Base
           s == k * Base
           price(r) == ticks[month[r]]
           rows == 1 .. q * Base
           of(n) == Of(k, q, Base, n)
           ids == {(r - 1 + s) \div Base : r \in rows}
           sign(n) == IF n # Min(ids)
                      THEN Sign(price(Max(of(n))), price(Max(of(n - 1))))
                      ELSE IF previous = 0 THEN "flat"
                      ELSE Sign(price(Max(of(n))), previous)
           bar(n) == PartBar(ticks, month, of(n), s, Base, sign(n))
<1>1. d \in Nat \ {0} /\ s \in Nat /\ Len(month) \in Nat /\ Len(ticks) \in Nat
  <2>1. Base \in Nat \ {0}
    BY BarConstants
  <2>2. \A a, b \in Nat : a * b \in Nat
    BY SMTT(30)
  <2> QED BY <2>1, <2>2
<1>2. q \in Nat /\ q * d \in Nat /\ q * d <= Len(month)
  <2> DEFINE c == q * d
             r == Len(month) % d
  <2>1. q \in Nat /\ c \in Nat /\ r \in 0 .. d - 1 /\ Len(month) = c + r
    BY <1>0, <1>1, Division
  <2> HIDE DEF c, r
  <2>2. c <= Len(month)
    BY <1>1, <2>1
  <2> QED BY <2>1, <2>2 DEF c
<1>3. bars = IF rows = {} THEN <<>>
             ELSE [i \in 1 .. Cardinality(ids) |-> bar(Min(ids) + i - 1)]
  BY Zenon DEF BarsFromTicks, PartBar, Complete, Of, q, bars
<1>4. CASE q = 0
  <2>1. rows = {}
    BY <1>1, <1>4
  <2>2. bars = <<>>
    BY <1>3, <2>1
  <2>3. bars \in Seq(Bar) /\ Len(bars) = q /\ DOMAIN bars = 1 .. q
    <3>1. bars \in Seq(Bar) /\ Len(bars) = q
      BY <1>4, <2>2, EmptySeq
    <3> QED BY <3>1, LenProperties
  <2>4. \A i \in 1 .. q : FileBar(ticks, bars[i], k + i)
    <3>1. 1 .. q = {}
      BY <1>4
    <3> QED BY <3>1
  <2> QED BY <1>2, <2>3, <2>4
<1>5. CASE q # 0
  <2>1. ids = k .. k + q - 1
    BY <1>1, <1>2, BarNumbers
  <2>2. Min(ids) = k /\ Cardinality(ids) = q /\ rows # {}
    <3>1. ids \in SUBSET Int /\ k \in ids /\ \A n \in ids : k <= n
      <4> HIDE DEF ids
      <4> QED BY <1>2, <1>5, <2>1
    <3>2. Min(ids) = k
      <4> HIDE DEF ids
      <4> QED BY <3>1, MinOf
    <3>3. Cardinality(k .. k + q - 1) = q
      BY <1>2, <1>5, FS_Interval
    <3>4. rows # {}
      BY <3>1
    <3> HIDE DEF ids, rows
    <3> QED BY <2>1, <3>2, <3>3, <3>4
  <2> HIDE DEF ids
  <2> HIDE DEF of
  <2>3. ASSUME NEW i \in 1 .. q PROVE FileBar(ticks, bar(k + i - 1), k + i)
    <3> DEFINE x == (i - 1) * d
               n == k + i - 1
               p == Prices(ticks, s + x, d)
               before == IF i = 1 THEN previous ELSE ticks[s + x]
               from == s + x + 1
               to == s + x + d
    <3>1. /\ i \in Nat \ {0} /\ x \in Nat /\ x + d <= q * d
          /\ of(n) = x + 1 .. x + d
      <4>1. /\ x \in Nat /\ i * d = x + d /\ i * d <= q * d
        BY <1>1, <1>2, BlockEnds
      <4>2. of(n) = x + 1 .. x + d
        <5>1. n \in k .. k + q - 1 /\ n - k = i - 1
          BY <1>2
        <5> HIDE DEF n
        <5>2. Of(k, q, d, n) = (n - k) * d + 1 .. (n - k) * d + d
          BY <1>1, <1>2, <5>1, RowsOf
        <5> QED BY <5>1, <5>2 DEF of
      <4>3. i \in Nat \ {0}
        BY <1>2
      <4> DEFINE c == q * d
                 e == i * d
      <4>4. x + d <= c
        <5>1. x \in Nat /\ e = x + d /\ e <= c
          BY <4>1
        <5> HIDE DEF x, c, e
        <5> QED BY <5>1
      <4> QED BY <4>1, <4>2, <4>3, <4>4
    <3>2. s + x = n * Base /\ s + x + d = (k + i) * Base
      <4>1. \A a, b, c \in Nat : a * c + b * c = (a + b) * c
        BY SMTT(30)
      <4>2. i - 1 \in Nat /\ k + (i - 1) = n /\ (n + 1) = k + i /\ n \in Nat
        BY <3>1
      <4>3. s + x = (k + (i - 1)) * Base
        <5>1. k \in Nat /\ Base \in Nat
          BY <1>1
        <5>2. k * Base + (i - 1) * Base = (k + (i - 1)) * Base
          BY <4>1, <4>2, <5>1, Zenon
        <5> QED BY <1>1, <5>2, Zenon
      <4>4. (n + 1) * Base = n * Base + Base
        <5> HIDE DEF n
        <5> QED BY <1>1, <4>2, SMTT(30)
      <4> HIDE DEF s, x, n
      <4> QED BY <4>2, <4>3, <4>4
    <3>3. s + x + d <= Len(ticks) /\ x + d <= Len(month)
      <4> DEFINE c == q * d
      <4>1. /\ x + d <= c /\ c <= Len(month) /\ c \in Nat /\ x \in Nat
            /\ s + Len(month) = Len(ticks)
        BY <1>2, <3>1
      <4>2. /\ s \in Nat /\ d \in Nat
            /\ Len(month) \in Nat /\ Len(ticks) \in Nat
        BY <1>1
      <4> HIDE DEF s, x, c
      <4> QED BY <4>1, <4>2
    <3>4. \A j \in 1 .. d : month[x + j] = s + x + j
      <4> SUFFICES ASSUME NEW j \in 1 .. d PROVE month[x + j] = s + x + j
        OBVIOUS
      <4>1. x + j \in 1 .. Len(month)
        <5> HIDE DEF x
        <5> QED BY <1>1, <3>1, <3>3
      <4>2. month[x + j] = s + (x + j)
        BY <4>1
      <4> HIDE DEF x, s
      <4> QED BY <1>1, <3>1, <4>2
    <3>5. \A j \in 1 .. d : (x + j - 1 + s) % d = j - 1
      <4> SUFFICES ASSUME NEW j \in 1 .. d PROVE (x + j - 1 + s) % d = j - 1
        OBVIOUS
      <4>1. (Row(i, j, d) - 1 + k * d) % d = j - 1
        BY <1>1, <3>1, RowPlace
      <4>2. Row(i, j, d) = x + j
        BY DEF Row
      <4> HIDE DEF x, s
      <4> QED BY <1>1, <3>1, <4>1, <4>2 DEF s
    <3>6. before \in Nat /\ (i # 1 => before # 0)
      <4>1. CASE i = 1
        <5>1. CASE k = 0
          BY <4>1, <5>1
        <5>2. CASE k # 0
          <6>1. s \in 1 .. Len(ticks)
            <7>1. s # 0
              BY <1>1, <5>2, SMTT(30)
            <7> HIDE DEF s, x
            <7> QED BY <1>1, <3>1, <3>3, <7>1
          <6> QED BY <4>1, <5>2, <6>1
        <5> QED BY <5>1, <5>2
      <4>2. CASE i # 1
        <5>1. s + x \in 1 .. Len(ticks)
          <6>1. x # 0
            <7>1. i - 1 \in Nat \ {0}
              BY <3>1, <4>2
            <7>2. \A a, b \in Nat \ {0} : a * b # 0
              BY SMTT(30)
            <7> QED BY <1>1, <7>1, <7>2
          <6> HIDE DEF s, x
          <6> QED BY <1>1, <3>1, <3>3, <6>1
        <5> QED BY <4>2, <5>1
      <4> QED BY <4>1, <4>2
    <3>7. Max(of(n)) = x + d
      <4>1. x \in Nat /\ of(n) = x + 1 .. x + d
        BY <3>1
      <4> HIDE DEF x, n
      <4> QED BY <1>1, <4>1, Ends
    <3>8. i # 1 => price(Max(of(n - 1))) = ticks[s + x]
      <4> SUFFICES ASSUME i # 1 PROVE price(Max(of(n - 1))) = ticks[s + x]
        OBVIOUS
      <4> DEFINE y == (i - 2) * d
                 a == i - 1
      <4>1. a \in 1 .. q /\ a - 1 = i - 2
        BY <1>2, <3>1
      <4>2. (a - 1) * d \in Nat /\ a * d = (a - 1) * d + d
        <5> HIDE DEF a
        <5>1. a \in 1 .. q
          BY <4>1
        <5> QED BY <1>1, <1>2, <5>1, BlockEnds
      <4>3. y \in Nat /\ x = y + d /\ of(n - 1) = y + 1 .. y + d
        <5> DEFINE c == n - 1
        <5>1. c \in k .. k + q - 1 /\ c - k = i - 2
          BY <1>2, <3>1
        <5> HIDE DEF c
        <5>2. Of(k, q, d, c) = (c - k) * d + 1 .. (c - k) * d + d
          BY <1>1, <1>2, <5>1, RowsOf
        <5>3. Of(k, q, d, c) = y + 1 .. y + d
          BY <5>1, <5>2
        <5> QED BY <4>1, <4>2, <5>3 DEF of, c
      <4>5. Max(of(n - 1)) = y + d
        <5> HIDE DEF y, n, x
        <5> QED BY <1>1, <4>3, Ends
      <4>6. month[x] = s + x
        <5>1. x \in 1 .. Len(month)
          <6> HIDE DEF x, y
          <6> QED BY <1>1, <3>1, <3>3, <4>3
        <5> QED BY <5>1
      <4> HIDE DEF x, y, of
      <4> QED BY <4>3, <4>5, <4>6
    <3>9. sign(n) = IF before = 0 THEN "flat" ELSE Sign(ticks[month[x + d]], before)
      <4>1. CASE i = 1
        <5>1. n = Min(ids) /\ before = previous
          BY <2>2, <4>1
        <5> HIDE DEF n, of, x, before
        <5> QED BY <3>7, <5>1
      <4>2. CASE i # 1
        <5>1. n # Min(ids) /\ before # 0 /\ before = ticks[s + x]
          BY <2>2, <3>1, <3>6, <4>2
        <5> HIDE DEF n, of, x, before
        <5> QED BY <3>7, <3>8, <4>2, <5>1
      <4> QED BY <4>1, <4>2
    <3>10. bar(n) = BuildBar(p, from, to, before)
      <4> HIDE DEF s, x, before
      <4>1. PartBar(ticks, month, x + 1 .. x + d, s, d, sign(n)) =
                BuildBar(p, from, to, before)
        <5> DEFINE sg == sign(n)
        <5>1. sg = IF before = 0 THEN "flat" ELSE Sign(ticks[month[x + d]], before)
          BY <3>9
        <5>2. x \in Nat /\ before \in Nat
          BY <3>1, <3>6
        <5>4. Whole(ticks, month, x, s, d)
          BY <3>3, <3>4, <3>5 DEF Whole
        <5>6. d \in Nat \ {0} /\ s \in Nat
          BY <1>1
        <5> HIDE DEF sg, d
        <5>3. SameBuilt(ticks, month, x, s, d, sg, before)
          BY <5>1, <5>2, <5>4, <5>6, SameBar
        <5> QED BY <5>3 DEF sg, SameBuilt
      <4>2. bar(n) = PartBar(ticks, month, of(n), s, d, sign(n))
        OBVIOUS
      <4> HIDE DEF n, sign, bar
      <4> QED BY <3>1, <3>9, <4>1, <4>2
    <3>11. Built(ticks, bar(n), from, d, before)
      <4>1. p \in Seq(Nat) /\ Len(p) = d /\ from \in Nat \ {0}
            /\ from + d - 1 = to
        <5> HIDE DEF s, x
        <5>1. \A j \in 1 .. d : s + x + j \in 1 .. Len(ticks)
          BY <1>1, <3>1, <3>3
        <5>2. \A j \in 1 .. d : ticks[s + x + j] \in Nat
          BY <5>1
        <5> QED BY <1>1, <3>1, <5>2 DEF Prices
      <4>2. \A j \in 1 .. d : p[j] = ticks[from + j - 1]
        <5> SUFFICES ASSUME NEW j \in 1 .. d PROVE p[j] = ticks[from + j - 1]
          OBVIOUS
        <5> HIDE DEF s, x
        <5>1. from + j - 1 = s + x + j
          BY <1>1, <3>1
        <5> QED BY <5>1 DEF Prices
      <4> HIDE DEF p, from, to, before, bar
      <4>3. Built(ticks, BuildBar(p, from, from + d - 1, before), from, d, before)
        BY <1>1, <3>6, <4>1, <4>2, BuiltBar
      <4> QED BY <3>10, <4>1, <4>3
    <3>12. before = IF k + i = 1 THEN 0 ELSE ticks[from - 1]
      <4>1. from - 1 = s + x
        <5> HIDE DEF s, x
        <5> QED BY <1>1, <3>1
      <4>2. CASE i = 1
        <5>1. x = 0 /\ s + x = s
          BY <1>1, <4>2, SMTT(30)
        <5> QED BY <4>1, <4>2, <5>1
      <4>3. CASE i # 1
        <5>1. k + i # 1
          BY <3>1, <4>3
        <5> QED BY <4>1, <4>3, <5>1
      <4> QED BY <4>2, <4>3
    <3> DEFINE b == bar(n)
    <3>13. /\ b \in Bar /\ b.from = from /\ b.to = from + d - 1
           /\ BarIn(ticks, b, from, from + d - 1, before)
           /\ b.revisions = ChangesIn(ticks, from, from + d - 1, d)
      <4> HIDE DEF bar, from, before
      <4> QED BY <3>11 DEF Built, BarIn
    <3>14. BarOf(ticks, b, Base, k + i = 1)
      <4> HIDE DEF b, from, before
      <4> QED BY <3>12, <3>13 DEF BarOf
    <3>15. from = n * Base + 1 /\ from + d - 1 = (k + i) * Base
      <4> HIDE DEF s, x
      <4> QED BY <1>1, <3>1, <3>2
    <3> DEFINE g == k + i
    <3>16. g - 1 = n
      BY <3>1
    <3>17. b \in Bar /\ b.from = (g - 1) * Base + 1 /\ b.to = g * Base
      <4> HIDE DEF bar, from
      <4> QED BY <3>13, <3>15, <3>16
    <3>18. BarOf(ticks, b, Base, g = 1)
      BY <3>14
    <3> HIDE DEF b, g
    <3> QED BY <3>17, <3>18 DEF FileBar, b, g
  <2>4. bars = [i \in 1 .. q |-> bar(k + i - 1)]
    <3> HIDE DEF bar, rows
    <3> QED BY <1>3, <2>2
  <2> HIDE DEF bar
  <2>5. \A i \in 1 .. q : bars[i] = bar(k + i - 1) /\ bars[i] \in Bar
    <3> SUFFICES ASSUME NEW i \in 1 .. q
                 PROVE  bars[i] = bar(k + i - 1) /\ bars[i] \in Bar
      OBVIOUS
    <3>1. bars[i] = bar(k + i - 1)
      BY <2>4
    <3>2. FileBar(ticks, bar(k + i - 1), k + i)
      BY <2>3
    <3> QED BY <3>1, <3>2 DEF FileBar
  <2>6. bars \in Seq(Bar) /\ DOMAIN bars = 1 .. q /\ Len(bars) = q
    <3>1. bars \in [1 .. q -> Bar]
      BY <2>4, <2>5
    <3>3. q \in Nat
      BY <1>2
    <3>2. bars \in Seq(Bar)
      BY <3>1, <3>3, AsSeq
    <3> QED BY <3>1, <3>2, <3>3, AsSeq
  <2>7. \A i \in 1 .. q : FileBar(ticks, bars[i], k + i)
    BY <2>3, <2>5
  <2> QED BY <1>2, <2>6, <2>7
<1> QED BY <1>4, <1>5

\* The script has cut the files read into whole bars and carries the rest.
ResearchShape ==
    /\ ticks \in Seq(Nat) /\ \A t \in 1 .. Len(ticks) : ticks[t] # 0
    /\ base \in Seq(Bar) /\ carry \in Seq(Nat) /\ Len(carry) < Base
    /\ filed <= Len(ticks) /\ filed = Len(base) * Base + Len(carry)
    /\ \A j \in 1 .. Len(carry) : carry[j] = Len(base) * Base + j
    /\ tickIdx = Len(base) * Base
    /\ prevClose = IF Len(base) = 0 THEN 0 ELSE ticks[Len(base) * Base]
    /\ \A n \in 1 .. Len(base) : FileBar(ticks, base[n], n)

LEMMA ResearchInit == Init => ResearchShape
<1> SUFFICES ASSUME Init PROVE ResearchShape
  OBVIOUS
<1>1. /\ ticks = <<>> /\ filed = 0 /\ carry = <<>> /\ tickIdx = 0
      /\ prevClose = 0 /\ base = <<>>
  BY DEF Init
<1>2. Base \in Nat \ {0} /\ 0 * Base = 0
  BY BarConstants
<1> QED BY <1>1, <1>2 DEF ResearchShape

\* The base bars end within the files.
LEMMA BaseBars ==
    ASSUME ResearchShape
    PROVE  /\ Base \in Nat \ {0} /\ Len(base) \in Nat /\ Len(carry) \in Nat
           /\ Len(ticks) \in Nat /\ Len(base) * Base \in Nat
           /\ Len(base) * Base <= Len(ticks)
           /\ \A n \in 1 .. Len(base) :
                /\ (n - 1) * Base \in Nat /\ n * Base = (n - 1) * Base + Base
                /\ n * Base <= Len(base) * Base
                /\ n # 1 => (n - 1) * Base # 0
<1> DEFINE k == Len(base)
           c == k * Base
<1>1. Base \in Nat \ {0} /\ k \in Nat /\ Len(carry) \in Nat /\ Len(ticks) \in Nat
  BY BarConstants DEF ResearchShape
<1>2. c \in Nat
  <2> HIDE DEF k
  <2> QED BY <1>1, SMTT(30)
<1>3. c <= Len(ticks)
  <2>1. filed <= Len(ticks) /\ filed = c + Len(carry)
    BY DEF ResearchShape
  <2> HIDE DEF c
  <2> QED BY <1>1, <1>2, <2>1
<1>4. ASSUME NEW n \in 1 .. k
      PROVE  /\ (n - 1) * Base \in Nat /\ n * Base = (n - 1) * Base + Base
             /\ n * Base <= k * Base
             /\ n # 1 => (n - 1) * Base # 0
  <2> HIDE DEF k
  <2>1. /\ (n - 1) * Base \in Nat /\ n * Base = (n - 1) * Base + Base
        /\ n * Base <= k * Base
    BY <1>1, BlockEnds
  <2>2. n # 1 => (n - 1) * Base # 0
    <3>1. \A a, b \in Nat \ {0} : a * b # 0
      BY SMTT(30)
    <3>2. n # 1 => n - 1 \in Nat \ {0}
      BY <1>1
    <3> QED BY <1>1, <3>1, <3>2
  <2> QED BY <2>1, <2>2
<1> QED BY <1>1, <1>2, <1>3, <1>4

\* They stay what they are when ticks arrive.
LEMMA ResearchAddTicks ==
    ASSUME ResearchShape, NEW batch \in Seq(Price), AddTicks(batch)
    PROVE  ResearchShape'
<1> DEFINE k == Len(base)
           m == ticks \o batch
           N == Len(ticks)
<1>1. /\ ticks' = m /\ base' = base /\ carry' = carry /\ filed' = filed
      /\ tickIdx' = tickIdx /\ prevClose' = prevClose
  BY DEF AddTicks, research
<1>2. Price \subseteq Nat \ {0} /\ batch \in Seq(Nat \ {0}) /\ batch \in Seq(Nat)
  BY BarConstants, SeqMonotonic
<1>3. /\ m \in Seq(Nat) /\ Len(m) = N + Len(batch) /\ Len(batch) \in Nat
      /\ \A t \in 1 .. Len(m) : m[t] = IF t <= N THEN ticks[t] ELSE batch[t - N]
      /\ N \in Nat
  BY <1>2, ConcatProperties DEF ResearchShape
<1> HIDE DEF m
<1>4. \A t \in 1 .. N : m[t] = ticks[t]
  BY <1>3
<1>5. \A t \in 1 .. Len(m) : m[t] # 0
  <2> SUFFICES ASSUME NEW t \in 1 .. Len(m) PROVE m[t] # 0
    OBVIOUS
  <2>1. CASE t <= N
    <3>1. t \in 1 .. N
      BY <1>3, <2>1
    <3>2. ticks[t] # 0
      BY <3>1 DEF ResearchShape
    <3> QED BY <1>4, <3>1, <3>2
  <2>2. CASE ~ t <= N
    <3>1. t - N \in 1 .. Len(batch)
      BY <1>3, <2>2
    <3>2. batch[t - N] \in Nat \ {0}
      BY <1>2, <3>1
    <3> QED BY <1>3, <2>2, <3>2
  <2> QED BY <2>1, <2>2
<1>6. /\ Base \in Nat \ {0} /\ k \in Nat /\ k * Base \in Nat /\ k * Base <= N
      /\ \A n \in 1 .. k :
           /\ (n - 1) * Base \in Nat /\ n * Base = (n - 1) * Base + Base
           /\ n * Base <= k * Base
           /\ n # 1 => (n - 1) * Base # 0
  BY BaseBars
<1>7. \A n \in 1 .. k : FileBar(m, base[n], n)
  <2> SUFFICES ASSUME NEW n \in 1 .. k PROVE FileBar(m, base[n], n)
    OBVIOUS
  <2> DEFINE b == base[n]
             x == (n - 1) * Base
             y == n * Base
             z == k * Base
  <2>1. /\ b \in Bar /\ b.from = x + 1 /\ b.to = y /\ BarOf(ticks, b, Base, n = 1)
    BY DEF ResearchShape, FileBar
  <2>2. x \in Nat /\ y <= z /\ z <= N /\ (n # 1 => x # 0) /\ y = x + Base /\ z \in Nat
    BY <1>6
  <2> DEFINE first == n = 1
  <2>3. b.from > 0 /\ b.to <= N /\ (first \/ b.from > 1)
    <3>1. N \in Nat /\ Base \in Nat
      BY <1>3, <1>6
    <3> HIDE DEF x, y, z, b, N
    <3> QED BY <2>1, <2>2, <3>1
  <2>4. ticks \in Seq(Nat)
    BY DEF ResearchShape
  <2>5. BarOf(m, b, Base, first)
    <3>1. BarOf(ticks, b, Base, first)
      BY <2>1
    <3> HIDE DEF b, first, N
    <3> QED BY <1>3, <1>4, <1>6, <2>1, <2>3, <2>4, <3>1, BarKept
  <2> QED BY <2>1, <2>5 DEF FileBar
<1>8. prevClose = IF k = 0 THEN 0 ELSE m[k * Base]
  <2> DEFINE z == k * Base
  <2>1. prevClose = IF k = 0 THEN 0 ELSE ticks[z]
    BY DEF ResearchShape
  <2>2. k # 0 => z \in 1 .. N
    <3>1. k # 0 => z # 0
      <4>1. \A a, b \in Nat \ {0} : a * b # 0
        BY SMTT(30)
      <4> HIDE DEF k
      <4> QED BY <1>6, <4>1
    <3>2. z \in Nat /\ z <= N
      BY <1>6
    <3> HIDE DEF z
    <3> QED BY <1>3, <3>1, <3>2
  <2> HIDE DEF z
  <2>3. prevClose = IF k = 0 THEN 0 ELSE m[z]
    BY <1>4, <2>1, <2>2
  <2> QED BY <2>3 DEF z
<1>9. /\ base \in Seq(Bar) /\ carry \in Seq(Nat) /\ Len(carry) < Base
      /\ filed = k * Base + Len(carry) /\ tickIdx = k * Base
      /\ \A j \in 1 .. Len(carry) : carry[j] = k * Base + j
  BY DEF ResearchShape
<1>10. filed <= Len(m)
  <2>1. filed <= N /\ filed \in Nat
    <3> DEFINE z == k * Base
    <3>1. z \in Nat /\ filed = z + Len(carry) /\ Len(carry) \in Nat
      BY <1>6, <1>9
    <3> HIDE DEF z
    <3> QED BY <3>1 DEF ResearchShape
  <2> QED BY <1>3, <2>1
<1> QED BY <1>1, <1>3, <1>5, <1>7, <1>8, <1>9, <1>10 DEF ResearchShape

\* A file: the bars of the rest so far go to the base bars.
LEMMA ResearchEndMonth == ResearchShape /\ EndMonth => ResearchShape'
<1> SUFFICES ASSUME ResearchShape, EndMonth PROVE ResearchShape'
  OBVIOUS
<1> DEFINE k == Len(base)
           N == Len(ticks)
           c == k * Base
           u == Upto(N)
           new == SubSeq(u, filed + 1, N)
           month == carry \o new
           q == Len(month) \div Base
           bars == BarsFromTicks(month, tickIdx, prevClose)
           e == q * Base
           rest == SubSeq(month, e + 1, Len(month))
<1>1. /\ base' = base \o bars /\ tickIdx' = tickIdx + e /\ carry' = rest
      /\ prevClose' = (IF bars = <<>> THEN prevClose ELSE Last(bars).close)
      /\ filed' = N /\ ticks' = ticks
  BY DEF EndMonth, Complete
<1>2. /\ Base \in Nat \ {0} /\ k \in Nat /\ N \in Nat /\ c \in Nat /\ c <= N
      /\ Len(carry) \in Nat
  BY BaseBars
<1>3. /\ ticks \in Seq(Nat) /\ \A t \in 1 .. N : ticks[t] # 0
      /\ base \in Seq(Bar) /\ carry \in Seq(Nat) /\ Len(carry) < Base
      /\ filed <= N /\ filed = c + Len(carry)
      /\ \A j \in 1 .. Len(carry) : carry[j] = c + j
      /\ tickIdx = c /\ prevClose = (IF k = 0 THEN 0 ELSE ticks[c])
      /\ \A n \in 1 .. k : FileBar(ticks, base[n], n)
  BY DEF ResearchShape
<1> HIDE DEF c
<1>4. /\ new \in Seq(Nat) /\ Len(new) = N - filed
      /\ \A j \in 1 .. Len(new) : new[j] = filed + j
  <2>1. \A i \in 1 .. N : u[i] = i
    BY <1>2 DEF Upto
  <2>2. filed + 1 \in Int /\ N \in Int /\ filed \in Nat
    BY <1>2, <1>3
  <2> HIDE DEF u, N
  <2>3. \A i \in filed + 1 .. N : u[i] \in Nat
    BY <2>1, <2>2
  <2>4. /\ new \in Seq(Nat)
        /\ Len(new) = IF filed + 1 <= N THEN N - (filed + 1) + 1 ELSE 0
        /\ \A i \in 1 .. N - (filed + 1) + 1 : new[i] = u[filed + 1 + i - 1]
    BY <2>2, <2>3, SubSeqProperties
  <2> HIDE DEF new
  <2>5. Len(new) = N - filed
    BY <1>3, <2>2, <2>4
  <2>6. ASSUME NEW j \in 1 .. Len(new) PROVE new[j] = filed + j
    <3>1. /\ j \in 1 .. N - (filed + 1) + 1 /\ filed + 1 + j - 1 = filed + j
          /\ filed + j \in 1 .. N
      BY <2>2, <2>5
    <3> QED BY <2>1, <2>4, <3>1
  <2> QED BY <2>4, <2>5, <2>6
<1> HIDE DEF new, N
<1>5. /\ month \in Seq(Nat) /\ Len(month) \in Nat /\ c + Len(month) = N
      /\ \A r \in 1 .. Len(month) : month[r] = c + r
  <2>1. /\ month \in Seq(Nat) /\ Len(month) = Len(carry) + Len(new)
        /\ \A r \in 1 .. Len(carry) + Len(new) :
               month[r] = IF r <= Len(carry) THEN carry[r] ELSE new[r - Len(carry)]
    BY <1>3, <1>4, ConcatProperties
  <2> HIDE DEF month
  <2>2. Len(new) \in Nat /\ Len(month) \in Nat
    BY <1>4, <2>1
  <2>3. c + Len(month) = N
    BY <1>2, <1>3, <1>4, <2>1, <2>2
  <2>4. ASSUME NEW r \in 1 .. Len(month) PROVE month[r] = c + r
    <3>1. CASE r <= Len(carry)
      <4>1. r \in 1 .. Len(carry)
        BY <1>2, <2>2, <3>1
      <4> QED BY <1>3, <2>1, <3>1, <4>1
    <3>2. CASE ~ r <= Len(carry)
      <4>1. r - Len(carry) \in 1 .. Len(new) /\ filed + (r - Len(carry)) = c + r
        BY <1>2, <1>3, <2>1, <2>2, <3>2
      <4>2. month[r] = new[r - Len(carry)]
        BY <2>1, <3>2
      <4> QED BY <1>4, <4>1, <4>2
    <3> QED BY <3>1, <3>2
  <2> QED BY <2>1, <2>2, <2>3, <2>4
<1> HIDE DEF month
<1>6. /\ q \in Nat /\ e \in Nat /\ Len(month) = e + (Len(month) % Base)
      /\ Len(month) % Base \in 0 .. Base - 1
  BY <1>2, <1>5, Division
<1>7. /\ Len(bars) = q /\ bars \in Seq(Bar)
      /\ \A i \in 1 .. q : FileBar(ticks, bars[i], k + i)
  <2> HIDE DEF k, q, bars
  <2>1. /\ k * Base + Len(month) = Len(ticks)
        /\ \A r \in 1 .. Len(month) : month[r] = k * Base + r
        /\ prevClose = IF k = 0 THEN 0 ELSE ticks[k * Base]
        /\ tickIdx = k * Base /\ \A t \in 1 .. Len(ticks) : ticks[t] # 0
    BY <1>3, <1>5 DEF c, N
  <2>2. q = Len(month) \div Base /\ bars = BarsFromTicks(month, k * Base, prevClose)
    BY <2>1 DEF q, bars
  <2>3. FileCut(month, k, prevClose)
    BY <1>2, <1>3, <1>5, <2>1, ScriptBars
  <2> QED BY <2>2, <2>3 DEF FileCut
<1> HIDE DEF bars, q, rest
<1>8. /\ rest \in Seq(Nat) /\ Len(rest) = Len(month) % Base
      /\ \A j \in 1 .. Len(rest) : rest[j] = c + e + j
  <2> DEFINE w == Len(month) % Base
             L == Len(month)
  <2>1. e \in Nat /\ w \in Nat /\ L \in Nat /\ L = e + w
    BY <1>5, <1>6
  <2> HIDE DEF w, e, L
  <2>2. \A i \in e + 1 .. L : month[i] \in Nat
    <3>1. \A i \in e + 1 .. L : i \in 1 .. L
      BY <2>1
    <3> QED BY <1>5, <3>1 DEF L
  <2>3. e + 1 \in Int /\ L \in Int /\ rest = SubSeq(month, e + 1, L)
    BY <2>1 DEF rest, L
  <2>4. /\ rest \in Seq(Nat) /\ Len(rest) = IF e + 1 <= L THEN L - (e + 1) + 1 ELSE 0
        /\ \A i \in 1 .. L - (e + 1) + 1 : rest[i] = month[e + 1 + i - 1]
    BY <2>2, <2>3, SubSeqProperties
  <2>5. Len(rest) = w
    BY <2>1, <2>4
  <2>6. ASSUME NEW j \in 1 .. Len(rest) PROVE rest[j] = c + e + j
    <3>1. j \in 1 .. L - (e + 1) + 1 /\ e + 1 + j - 1 = e + j /\ e + j \in 1 .. L
      BY <2>1, <2>5
    <3>2. month[e + j] = c + (e + j)
      BY <1>5, <3>1 DEF L
    <3> QED BY <1>2, <2>1, <2>4, <3>1, <3>2
  <2> QED BY <2>4, <2>5, <2>6 DEF w
<1> DEFINE bs == base \o bars
           K == k + q
<1>9. /\ bs \in Seq(Bar) /\ Len(bs) = K /\ K \in Nat
      /\ \A n \in 1 .. K : FileBar(ticks, bs[n], n)
  <2>1. /\ bs \in Seq(Bar) /\ Len(bs) = k + q
        /\ \A n \in 1 .. k + q : bs[n] = IF n <= k THEN base[n] ELSE bars[n - k]
    <3>1. /\ bs \in Seq(Bar) /\ Len(bs) = Len(base) + Len(bars)
          /\ \A n \in 1 .. Len(base) + Len(bars) :
                 bs[n] = IF n <= Len(base) THEN base[n] ELSE bars[n - Len(base)]
      BY <1>3, <1>7, ConcatProperties
    <3> QED BY <1>7, <3>1
  <2> HIDE DEF bs, k
  <2>2. ASSUME NEW n \in 1 .. K PROVE FileBar(ticks, bs[n], n)
    <3>1. CASE n <= k
      <4>1. n \in 1 .. k
        BY <1>2, <1>6, <3>1
      <4> QED BY <1>3, <2>1, <3>1, <4>1
    <3>2. CASE ~ n <= k
      <4> DEFINE i == n - k
      <4>1. i \in 1 .. q /\ k + i = n
        BY <1>2, <1>6, <3>2
      <4>2. bs[n] = bars[i]
        BY <2>1, <3>2
      <4> HIDE DEF i
      <4>3. FileBar(ticks, bars[i], k + i)
        BY <1>7, <4>1
      <4> QED BY <4>1, <4>2, <4>3
    <3> QED BY <3>1, <3>2
  <2> QED BY <1>2, <1>6, <2>1, <2>2
<1>10. K * Base = c + e
  <2> HIDE DEF k, q
  <2>1. \A a, b, d \in Nat : (a + b) * d = a * d + b * d
    BY SMTT(30)
  <2> QED BY <1>2, <1>6, <2>1 DEF c
<1>11. N = K * Base + Len(rest)
  <2> DEFINE w == Len(month) % Base
             z == K * Base
  <2>1. c + Len(month) = N /\ Len(month) = e + w /\ z = c + e /\ Len(rest) = w
        /\ w \in Nat /\ e \in Nat
    BY <1>5, <1>6, <1>8, <1>10
  <2> HIDE DEF w, z, e, K
  <2>2. N = z + w
    BY <1>2, <2>1
  <2> QED BY <2>1, <2>2 DEF z
<1>12. (IF bars = <<>> THEN prevClose ELSE Last(bars).close) =
           IF K = 0 THEN 0 ELSE ticks[K * Base]
  <2>1. CASE q = 0
    <3>1. bars = <<>> /\ K = k /\ c + e = c
      <4>1. bars = <<>>
        BY <1>7, <2>1, EmptySeq
      <4>2. e = 0
        BY <1>2, <2>1
      <4> HIDE DEF e, k
      <4> QED BY <1>2, <2>1, <4>1, <4>2
    <3> HIDE DEF K, e
    <3> QED BY <1>3, <1>10, <3>1
  <2>2. CASE q # 0
    <3>1. bars # <<>> /\ q \in 1 .. q /\ K # 0
      <4> HIDE DEF k
      <4> QED BY <1>2, <1>6, <1>7, <2>2, EmptySeq
    <3>2. FileBar(ticks, bars[q], K)
      BY <1>7, <3>1
    <3>3. Last(bars) = bars[q]
      BY <1>7 DEF Last
    <3> DEFINE b == bars[q]
    <3> HIDE DEF b, K
    <3>4. FileBar(ticks, b, K)
      BY <3>2 DEF b
    <3>5. b.to = K * Base /\ BarOf(ticks, b, Base, K = 1)
      BY <3>4 DEF FileBar
    <3>6. b.close = ticks[b.to]
      BY <3>5 DEF BarOf, BarIn
    <3> QED BY <3>1, <3>3, <3>5, <3>6 DEF b
  <2> QED BY <2>1, <2>2
<1>13. tickIdx + e = K * Base
  BY <1>3, <1>10
<1>14. \A j \in 1 .. Len(rest) : rest[j] = K * Base + j
  BY <1>8, <1>10
<1>15. Len(rest) < Base
  <2> DEFINE w == Len(month) % Base
  <2>1. w \in 0 .. Base - 1 /\ Len(rest) = w
    BY <1>6, <1>8
  <2> HIDE DEF w
  <2> QED BY <1>2, <2>1
<1> HIDE DEF bs, K, e
<1>16. /\ base' = bs /\ tickIdx' = K * Base /\ carry' = rest /\ filed' = N
       /\ ticks' = ticks /\ prevClose' = (IF K = 0 THEN 0 ELSE ticks[K * Base])
  BY <1>1, <1>12, <1>13 DEF bs
<1>17. N = Len(ticks) /\ N <= N
  BY <1>2 DEF N
<1> QED BY <1>3, <1>8, <1>9, <1>11, <1>14, <1>15, <1>16, <1>17 DEF ResearchShape

LEMMA ResearchNext == ResearchShape /\ [Next]_vars => ResearchShape'
<1> SUFFICES ASSUME ResearchShape, [Next]_vars PROVE ResearchShape'
  OBVIOUS
<1>1. CASE LiveTick
  <2>1. PICK p \in Price : AddTicks(<<p>>)
    BY <1>1 DEF LiveTick
  <2>2. <<p>> \in Seq(Price)
    OBVIOUS
  <2> QED BY <2>1, <2>2, ResearchAddTicks
<1>2. CASE Backfill
  <2>1. PICK n \in 2 .. MaxBatch : \E batch \in [1 .. n -> Price] : AddTicks(batch)
    BY <1>2 DEF Backfill
  <2>2. PICK batch \in [1 .. n -> Price] : AddTicks(batch)
    BY <2>1
  <2>3. MaxBatch \in Nat
    BY BarConstants
  <2>4. n \in Nat
    BY <2>3
  <2>5. batch \in Seq(Price)
    BY <2>4, AsSeq
  <2> QED BY <2>2, <2>5, ResearchAddTicks
<1>3. CASE EndMonth
  BY <1>3, ResearchEndMonth
<1>4. CASE Restart \/ UNCHANGED vars
  <2>1. UNCHANGED <<ticks, filed, carry, tickIdx, prevClose, base>>
    BY <1>4 DEF Restart, vars, research
  <2> QED BY <2>1 DEF ResearchShape
<1> QED BY <1>1, <1>2, <1>3, <1>4 DEF Next

-----------------------------------------------------------------------------
(* Aggregated bars: sums of revisions, first extremes. *)

\* revisions(i) of Aggregated.
Total(seq) == FoldSeq(LAMBDA b, sum : sum + b.revisions, 0, seq)

Pick(s) == CHOOSE x \in s : TRUE
\* w is the sum of any set of the bars in seq.
Adds(w, seq, n) ==
    /\ w \in [SUBSET (1 .. n) -> Nat] /\ w[{}] = 0
    /\ \A s \in SUBSET (1 .. n) : \A x \in s : w[s] = w[s \ {x}] + seq[x].revisions

\* A fold of bars that adds their revisions is w, if w adds them one by one.
LEMMA FoldAdds ==
    ASSUME NEW n \in Nat, NEW seq, DOMAIN seq = 1 .. n, Len(seq) = n,
           NEW w, Adds(w, seq, n)
    PROVE  Total(seq) = w[1 .. n]
<1> DEFINE D == SUBSET (1 .. n)
           F(f) == [s \in D |-> IF s = {} THEN 0
                                ELSE f[s \ {Pick(s)}] + seq[Pick(s)].revisions]
           iter == CHOOSE f : f = F(f)
           bad == {k \in Nat : \E s \in D : Cardinality(s) = k /\ iter[s] # w[s]}
<1>1. Total(seq) = iter[1 .. n]
  BY DEF Total, FoldSeq, FoldFunction, FoldFunctionOnSet, MapThenFoldSet, Pick
<1>2. \A s \in D : s # {} => Pick(s) \in s
  BY DEF Pick
<1>3. w = F(w)
  <2>1. \A s \in D : w[s] = IF s = {} THEN 0 ELSE w[s \ {Pick(s)}] + seq[Pick(s)].revisions
    BY <1>2 DEF Adds
  <2>2. w = [s \in D |-> w[s]]
    BY DEF Adds
  <2> QED BY <2>1, <2>2
<1>4. iter = F(iter)
  <2> HIDE DEF F
  <2> QED BY <1>3
<1> HIDE DEF iter
<1>5. \A s \in D : iter[s] = IF s = {} THEN 0
                             ELSE iter[s \ {Pick(s)}] + seq[Pick(s)].revisions
  <2> DEFINE g == F(iter)
  <2>1. \A s \in D : g[s] = IF s = {} THEN 0
                             ELSE iter[s \ {Pick(s)}] + seq[Pick(s)].revisions
    OBVIOUS
  <2> HIDE DEF g
  <2>2. iter = g
    BY <1>4 DEF g
  <2> QED BY <2>1, <2>2
<1>6. \A s \in D : IsFiniteSet(s) /\ Cardinality(s) \in Nat
  <2>1. IsFiniteSet(1 .. n)
    BY FS_Interval
  <2> QED BY <2>1, FS_Subset, FS_CardinalityType
<1>7. SUFFICES ASSUME bad # {} PROVE FALSE
  <2>1. 1 .. n \in D
    OBVIOUS
  <2> QED BY <1>1, <1>6, <1>7, <2>1
<1>8. PICK k \in bad : \A j \in bad : k <= j
  <2>1. bad \in SUBSET Nat
    OBVIOUS
  <2> HIDE DEF bad
  <2> QED BY <1>7, <2>1, Least
<1>9. PICK s \in D : Cardinality(s) = k /\ iter[s] # w[s]
  BY <1>8
<1>10. s # {}
  BY <1>5, <1>9 DEF Adds
<1> DEFINE x == Pick(s)
<1>11. x \in s /\ s \ {x} \in D
  BY <1>2, <1>10
<1>12. iter[s] = iter[s \ {x}] + seq[x].revisions
  BY <1>5, <1>10
<1>13. w[s] = w[s \ {x}] + seq[x].revisions
  BY <1>11 DEF Adds
<1>14. Cardinality(s \ {x}) = k - 1 /\ k - 1 \in Nat /\ k \in Nat
  <2>1. k \in Nat /\ k = Cardinality(s)
    BY <1>6, <1>9
  <2>2. Cardinality(s \ {x}) = Cardinality(s) - 1
    BY <1>6, <1>11, FS_RemoveElement
  <2>3. Cardinality(s \ {x}) \in Nat
    BY <1>6, <1>11
  <2> QED BY <2>1, <2>2, <2>3
<1>15. k - 1 \notin bad
  <2>1. ~ k <= k - 1
    BY <1>14
  <2> HIDE DEF bad
  <2> QED BY <1>8, <2>1
<1>16. iter[s \ {x}] = w[s \ {x}]
  BY <1>11, <1>14, <1>15
<1> QED BY <1>9, <1>12, <1>13, <1>16

\* So the revisions of bars that count disjoint sets count their union.
LEMMA UnionAdds ==
    ASSUME NEW n \in Nat, NEW seq, DOMAIN seq = 1 .. n, Len(seq) = n,
           NEW U, IsFiniteSet(U), NEW C \in [1 .. n -> SUBSET U],
           \A i, j \in 1 .. n : i # j => C[i] \cap C[j] = {},
           \A j \in 1 .. n : seq[j].revisions = Cardinality(C[j])
    PROVE  Total(seq) = Cardinality(UNION {C[j] : j \in 1 .. n})
<1> DEFINE all(s) == UNION {C[j] : j \in s}
           w == [s \in SUBSET (1 .. n) |-> Cardinality(all(s))]
<1>1. ASSUME NEW s \in SUBSET (1 .. n) PROVE IsFiniteSet(all(s))
  <2>1. all(s) \in SUBSET U
    OBVIOUS
  <2> HIDE DEF all
  <2> QED BY <2>1, FS_Subset
<1>2. w \in [SUBSET (1 .. n) -> Nat]
  <2>1. \A s \in SUBSET (1 .. n) : Cardinality(all(s)) \in Nat
    <3> HIDE DEF all
    <3> QED BY <1>1, FS_CardinalityType
  <2> HIDE DEF all
  <2> QED BY <2>1
<1>3. w[{}] = 0
  <2>1. all({}) = {} /\ {} \in SUBSET (1 .. n)
    OBVIOUS
  <2> HIDE DEF all
  <2> QED BY <2>1, FS_EmptySet
<1>4. ASSUME NEW s \in SUBSET (1 .. n), NEW x \in s
      PROVE  w[s] = w[s \ {x}] + seq[x].revisions
  <2> DEFINE r == s \ {x}
             A == all(r)
             B == C[x]
  <2>1. r \in SUBSET (1 .. n) /\ x \in 1 .. n
    OBVIOUS
  <2>2. all(s) = A \cup B
    OBVIOUS
  <2>3. A \cap B = {}
    <3> SUFFICES ASSUME NEW t \in A, t \in B PROVE FALSE
      OBVIOUS
    <3>1. PICK j \in r : t \in C[j]
      OBVIOUS
    <3> QED BY <2>1, <3>1
  <2>4. IsFiniteSet(A)
    BY <1>1, <2>1
  <2>5. IsFiniteSet(B)
    BY <2>1, FS_Subset
  <2>6. w[s] = Cardinality(all(s)) /\ w[r] = Cardinality(A)
    <3> HIDE DEF all
    <3> QED BY <2>1
  <2>7. seq[x].revisions = Cardinality(B)
    BY <2>1
  <2> HIDE DEF A, B, all, w, r
  <2>8. Cardinality(A \cup B) = Cardinality(A) + Cardinality(B) - Cardinality(A \cap B)
    BY <2>4, <2>5, FS_Union
  <2>9. Cardinality(A \cap B) = 0 /\ Cardinality(A) \in Nat /\ Cardinality(B) \in Nat
    BY <2>3, <2>4, <2>5, FS_EmptySet, FS_CardinalityType
  <2>10. w[s] = w[r] + seq[x].revisions
    BY <2>2, <2>6, <2>7, <2>8, <2>9
  <2> QED BY <2>10 DEF r
<1>5. w[1 .. n] = Cardinality(all(1 .. n))
  <2>1. 1 .. n \in SUBSET (1 .. n)
    OBVIOUS
  <2> HIDE DEF all
  <2> QED BY <2>1
<1> HIDE DEF w
<1>7. Adds(w, seq, n)
  BY <1>2, <1>3, <1>4 DEF Adds
<1>6. Total(seq) = w[1 .. n]
  BY <1>7, FoldAdds
<1> QED BY <1>5, <1>6

\* Of n blocks of d prices behind tick T: block j has ext[j] first at pos[j], ...
FirstAt(m, T, d, n, ext, pos) ==
    \A j \in 1 .. n :
        /\ m[T + Row(j, pos[j] + 1, d)] = ext[j]
        /\ \A p \in 1 .. pos[j] : m[T + Row(j, p, d)] # ext[j]

\* ... and only the blocks with ext[j] = v have v.
OnlyThere(m, T, d, n, ext, v) ==
    \A j \in 1 .. n : \A p \in 1 .. d : m[T + Row(j, p, d)] = v => ext[j] = v

\* Then h is the first position of v in all of them.
FirstOf(m, T, e, v, h) ==
    /\ h \in 0 .. e - 1 /\ m[T + 1 + h] = v
    /\ \A t \in T + 1 .. T + h : m[t] # v

FirstPos(n, d, ext, pos, v) ==
    Min({(j - 1) * d + pos[j] : j \in {i \in 1 .. n : ext[i] = v}})

LEMMA FirstExtreme ==
    ASSUME NEW m, NEW T \in Nat, NEW d \in Nat \ {0}, NEW n \in Nat,
           NEW ext, NEW pos \in [1 .. n -> 0 .. d - 1],
           FirstAt(m, T, d, n, ext, pos),
           NEW v, \E j \in 1 .. n : ext[j] = v,
           OnlyThere(m, T, d, n, ext, v)
    PROVE  FirstOf(m, T, n * d, v, FirstPos(n, d, ext, pos, v))
<1> DEFINE h == FirstPos(n, d, ext, pos, v)
           P == {i \in 1 .. n : ext[i] = v}
           W == {(j - 1) * d + pos[j] : j \in P}
           e == n * d
<1>1. ASSUME NEW j \in 1 .. n
      PROVE  /\ (j - 1) * d \in Nat /\ (j - 1) * d + d <= e /\ pos[j] \in 0 .. d - 1
             /\ e \in Nat
  <2>1. (j - 1) * d \in Nat /\ j * d = (j - 1) * d + d /\ j * d <= n * d
    BY BlockEnds
  <2>2. n * d \in Nat
    BY SMTT(30)
  <2> QED BY <2>1, <2>2
<1>2. W \in SUBSET Nat /\ W # {}
  <2>1. ASSUME NEW j \in P PROVE (j - 1) * d + pos[j] \in Nat
    <3> DEFINE x == (j - 1) * d
    <3>1. x \in Nat /\ pos[j] \in Nat
      BY <1>1
    <3> HIDE DEF x
    <3>2. x + pos[j] \in Nat
      BY <3>1
    <3> QED BY <3>2 DEF x
  <2> QED BY <2>1
<1>3. h \in W /\ \A y \in W : h <= y
  <2> HIDE DEF W
  <2>1. h = Min(W)
    BY DEF W, FirstPos
  <2>2. Min(W) \in W /\ \A y \in W : Min(W) <= y
    BY <1>2, MinIsLeast
  <2> QED BY <2>1, <2>2
<1> HIDE DEF h
<1>4. PICK j \in P : h = (j - 1) * d + pos[j]
  BY <1>3
<1> DEFINE x == (j - 1) * d
<1>5. x \in Nat /\ x + d <= e /\ pos[j] \in 0 .. d - 1 /\ e \in Nat /\ h = x + pos[j]
  BY <1>1, <1>4
<1>6. h \in 0 .. e - 1
  <2> HIDE DEF x, e, P
  <2> QED BY <1>5
<1>7. m[T + 1 + h] = v
  <2>1. j \in 1 .. n /\ ext[j] = v
    BY <1>4
  <2>2. Row(j, pos[j] + 1, d) = x + (pos[j] + 1)
    BY DEF Row
  <2> DEFINE a == pos[j]
             z == Row(j, pos[j] + 1, d)
  <2>5. a \in Nat /\ z = x + (a + 1) /\ h = x + a /\ x \in Nat
    BY <1>5, <2>2
  <2>3. T + z = T + 1 + h
    <3> HIDE DEF x, a, z
    <3> QED BY <2>5
  <2> HIDE DEF x, e, P
  <2>4. m[T + Row(j, pos[j] + 1, d)] = ext[j]
    BY <2>1 DEF FirstAt
  <2> QED BY <2>1, <2>3, <2>4
<1>8. ASSUME NEW t \in T + 1 .. T + h, m[t] = v PROVE FALSE
  <2> DEFINE r == t - T
  <2>1. r \in 1 .. h /\ t = T + r
    BY <1>6, <1>5
  <2> HIDE DEF r
  <2>2. r \in 1 .. n * d
    <3>1. r \in 1 .. e
      <4> HIDE DEF e
      <4> QED BY <1>5, <1>6, <2>1
    <3> QED BY <3>1
  <2>3. PICK i \in 1 .. n : \E p \in 1 .. d : r = Row(i, p, d)
    BY <2>2, RowSplit
  <2>4. PICK p \in 1 .. d : r = Row(i, p, d)
    BY <2>3
  <2>5. ext[i] = v /\ m[T + Row(i, p, d)] = v
    BY <1>8, <2>1, <2>4 DEF OnlyThere
  <2> DEFINE y == (i - 1) * d
  <2>6. y \in Nat /\ pos[i] \in 0 .. d - 1 /\ r = y + p
    BY <1>1, <2>4 DEF Row
  <2>7. y + pos[i] \in W
    BY <2>5
  <2>8. h <= y + pos[i]
    BY <1>3, <2>7
  <2> HIDE DEF y, W, P, e, x
  <2>9. p \in 1 .. pos[i]
    BY <1>5, <1>6, <2>1, <2>6, <2>8
  <2>10. m[T + Row(i, p, d)] # ext[i]
    BY <2>9 DEF FirstAt
  <2> QED BY <2>5, <2>10
<1> QED BY <1>6, <1>7, <1>8 DEF FirstOf, h

-----------------------------------------------------------------------------
(* An aggregated bar. *)

\* b is a bar of d ticks from tick from on, whatever came before.
Kid(m, b, from, d) ==
    /\ b \in Bar /\ \E previous \in Nat : BarIn(m, b, from, from + d - 1, previous)
    /\ b.revisions = ChangesIn(m, from, from + d - 1, d)

\* The base bars of an aggregated bar behind tick T.
KidsOf(m, T, d, n, kids) ==
    /\ kids \in Seq(Bar) /\ Len(kids) = n
    /\ \A j \in 1 .. n : Kid(m, kids[j], T + Row(j, 1, d), d)

\* What the j-th of them knows of its ticks.
KidKnows(m, T, d, j, b) ==
    /\ b \in Bar /\ b.from = T + Row(j, 1, d) /\ b.to = T + Row(j, d, d)
    /\ b.open = m[b.from] /\ b.close = m[b.to]
    /\ b.hpos \in 0 .. d - 1 /\ b.lpos \in 0 .. d - 1
    /\ m[T + Row(j, b.hpos + 1, d)] = b.high
    /\ m[T + Row(j, b.lpos + 1, d)] = b.low
    /\ \A p \in 1 .. b.hpos : m[T + Row(j, p, d)] # b.high
    /\ \A p \in 1 .. b.lpos : m[T + Row(j, p, d)] # b.low
    /\ \A p \in 1 .. d : /\ b.low <= m[T + Row(j, p, d)]
                         /\ m[T + Row(j, p, d)] <= b.high
    /\ b.revisions = ChangesIn(m, b.from, b.to, d)

LEMMA KidTicks ==
    ASSUME NEW m, NEW T \in Nat, NEW d \in Nat \ {0}, NEW n \in Nat,
           NEW kids, KidsOf(m, T, d, n, kids), NEW j \in 1 .. n
    PROVE  KidKnows(m, T, d, j, kids[j])
<1> DEFINE b == kids[j]
           x == (j - 1) * d
           from == T + x + 1
           to == T + x + d
<1>1. x \in Nat
  BY BlockEnds
<1>2. \A p : Row(j, p, d) = x + p
  BY DEF Row
<1> HIDE DEF x
<1>3. T + Row(j, 1, d) = from /\ T + Row(j, 1, d) + d - 1 = to
      /\ T + Row(j, d, d) = to
  BY <1>1, <1>2
<1>4. Kid(m, b, T + Row(j, 1, d), d)
  BY DEF KidsOf
<1> DEFINE f == T + Row(j, 1, d)
<1>5. f = from /\ f + d - 1 = to /\ Kid(m, b, f, d)
  BY <1>3, <1>4
<1> HIDE DEF b, f
<1>6. b \in Bar /\ b.revisions = ChangesIn(m, f, f + d - 1, d)
      /\ \E previous \in Nat : BarIn(m, b, f, f + d - 1, previous)
  BY <1>5 DEF Kid
<1>7. PICK previous \in Nat : BarIn(m, b, from, to, previous)
  BY <1>5, <1>6
<1>8. b.revisions = ChangesIn(m, from, to, d)
  BY <1>5, <1>6
<1>9. /\ b.from = from /\ b.to = to /\ b.open = m[from] /\ b.close = m[to]
      /\ {b.hpos, b.lpos} \subseteq 0 .. to - from
      /\ m[from + b.hpos] = b.high /\ m[from + b.lpos] = b.low
      /\ \A t \in from .. to : b.low <= m[t] /\ m[t] <= b.high
      /\ b.high \notin {m[t] : t \in from .. from + b.hpos - 1}
      /\ b.low \notin {m[t] : t \in from .. from + b.lpos - 1}
  BY <1>7 DEF BarIn
<1>10. b.hpos \in 0 .. d - 1 /\ b.lpos \in 0 .. d - 1
  BY <1>1, <1>9
<1>11. ASSUME NEW pos \in 0 .. d - 1
       PROVE  /\ T + Row(j, pos + 1, d) = from + pos
              /\ \A p \in 1 .. pos : T + Row(j, p, d) \in from .. from + pos - 1
  BY <1>1, <1>2
<1>12. /\ m[T + Row(j, b.hpos + 1, d)] = b.high
       /\ m[T + Row(j, b.lpos + 1, d)] = b.low
  BY <1>9, <1>10, <1>11
<1>13. /\ \A p \in 1 .. b.hpos : m[T + Row(j, p, d)] # b.high
       /\ \A p \in 1 .. b.lpos : m[T + Row(j, p, d)] # b.low
  BY <1>9, <1>10, <1>11
<1>14. \A p \in 1 .. d : b.low <= m[T + Row(j, p, d)] /\ m[T + Row(j, p, d)] <= b.high
  <2>1. \A p \in 1 .. d : T + Row(j, p, d) \in from .. to
    BY <1>1, <1>2
  <2> QED BY <1>9, <2>1
<1> QED BY <1>3, <1>6, <1>8, <1>9, <1>10, <1>12, <1>13, <1>14 DEF b, KidKnows

\* The bar of _aggregate_from_base of these base bars.
Combined(kids, n, sign) ==
    LET high == Max({b.high : b \in Range(kids)})
        low == Min({b.low : b \in Range(kids)})
    IN [from |-> Head(kids).from, to |-> Last(kids).to,
        open |-> Head(kids).open, close |-> Last(kids).close,
        high |-> high, low |-> low,
        hpos |-> Min({ChildPosition(j, kids[j].hpos) :
                         j \in {i \in 1 .. n : kids[i].high = high}}),
        lpos |-> Min({ChildPosition(j, kids[j].lpos) :
                         j \in {i \in 1 .. n : kids[i].low = low}}),
        sign |-> sign, revisions |-> Total(kids)]

\* Its high and low.
LEMMA CombinedExtremes ==
    ASSUME NEW n \in Nat \ {0}, NEW kids \in Seq(Bar), Len(kids) = n
    PROVE  LET high == Max({b.high : b \in Range(kids)})
               low == Min({b.low : b \in Range(kids)})
           IN /\ \E j \in 1 .. n : kids[j].high = high
              /\ \E j \in 1 .. n : kids[j].low = low
              /\ high \in Nat /\ low \in Nat
              /\ \A j \in 1 .. n : low <= kids[j].low /\ kids[j].high <= high
<1> DEFINE H == {b.high : b \in Range(kids)}
           L == {b.low : b \in Range(kids)}
           hs == [j \in 1 .. n |-> kids[j].high]
           ls == [j \in 1 .. n |-> kids[j].low]
<1>1. \A j \in 1 .. n : kids[j] \in Bar /\ kids[j].high \in Nat /\ kids[j].low \in Nat
  <2>1. \A j \in 1 .. n : kids[j] \in Bar
    OBVIOUS
  <2> QED BY <2>1 DEF Bar
<1>2. hs \in [1 .. n -> Nat] /\ ls \in [1 .. n -> Nat]
  BY <1>1
<1>3. /\ hs \in Seq(Nat) /\ Len(hs) = n /\ ls \in Seq(Nat) /\ Len(ls) = n
  <2> HIDE DEF hs, ls
  <2> QED BY <1>2, AsSeq
<1>4. H = Range(hs) /\ L = Range(ls)
  <2>1. Range(kids) = {kids[j] : j \in 1 .. n}
    BY RangeEquality
  <2>2. H = {kids[j].high : j \in 1 .. n} /\ L = {kids[j].low : j \in 1 .. n}
    BY <2>1
  <2>3. Range(hs) = {kids[j].high : j \in 1 .. n} /\ Range(ls) = {kids[j].low : j \in 1 .. n}
    BY DEF Range
  <2> QED BY <2>2, <2>3
<1>5. \A j \in 1 .. n : hs[j] = kids[j].high /\ ls[j] = kids[j].low
  OBVIOUS
<1> HIDE DEF hs, ls
<1>6. hs # <<>> /\ ls # <<>>
  BY <1>3, EmptySeq
<1>7. /\ Max(Range(hs)) \in Range(hs) /\ Min(Range(ls)) \in Range(ls)
      /\ \A j \in 1 .. n : Min(Range(ls)) <= ls[j] /\ hs[j] <= Max(Range(hs))
  BY <1>3, <1>6, Extremes
<1>8. Range(hs) = {hs[j] : j \in 1 .. n} /\ Range(ls) = {ls[j] : j \in 1 .. n}
  <2>1. Range(hs) = {hs[j] : j \in 1 .. Len(hs)} /\ Range(ls) = {ls[j] : j \in 1 .. Len(ls)}
    BY <1>3, RangeEquality
  <2> QED BY <1>3, <2>1
<1> DEFINE high == Max(H)
           low == Min(L)
<1> HIDE DEF H, L
<1>9. /\ high \in {hs[j] : j \in 1 .. n} /\ low \in {ls[j] : j \in 1 .. n}
      /\ \A j \in 1 .. n : low <= ls[j] /\ hs[j] <= high
  BY <1>4, <1>7, <1>8
<1> HIDE DEF high, low
<1>10. /\ \E j \in 1 .. n : kids[j].high = high
       /\ \E j \in 1 .. n : kids[j].low = low
  BY <1>5, <1>9
<1>11. high \in Nat /\ low \in Nat
  BY <1>1, <1>10
<1>12. \A j \in 1 .. n : low <= kids[j].low /\ kids[j].high <= high
  BY <1>5, <1>9
<1> QED BY <1>10, <1>11, <1>12 DEF high, low, H, L

\* Its revisions: those of its base bars are at different ticks.
LEMMA CombinedRevisions ==
    ASSUME NEW m, NEW T \in Nat, NEW d \in Nat \ {0}, NEW n \in Nat,
           NEW kids, KidsOf(m, T, d, n, kids)
    PROVE  Total(kids) = ChangesIn(m, T + 1, T + n * d, d)
<1> DEFINE U == T + 1 .. T + n * d
           e == n * d
           x(j) == (j - 1) * d
           at(j) == {t \in T + x(j) + 2 .. T + x(j) + d : m[t] # m[t - 1]}
           C == [j \in 1 .. n |-> at(j)]
<1>1. e \in Nat
  BY SMTT(30)
<1>2. ASSUME NEW j \in 1 .. n PROVE x(j) \in Nat /\ x(j) + d <= e
  <2>1. (j - 1) * d \in Nat /\ j * d = (j - 1) * d + d /\ j * d <= n * d
    BY BlockEnds
  <2> QED BY <2>1
<1>3. IsFiniteSet(U)
  <2> HIDE DEF e
  <2>1. T + 1 \in Int /\ T + e \in Int
    BY <1>1
  <2>2. IsFiniteSet(T + 1 .. T + e)
    BY <2>1, FS_Interval
  <2> QED BY <2>2 DEF e
<1>4. ASSUME NEW j \in 1 .. n, NEW t \in at(j)
      PROVE  /\ t \in U /\ t - T - 1 = x(j) + (t - T - 1 - x(j))
             /\ t - T - 1 - x(j) \in 1 .. d - 1
  <2>1. t \in T + x(j) + 2 .. T + x(j) + d
    OBVIOUS
  <2>2. x(j) \in Nat /\ x(j) + d <= e
    BY <1>2
  <2> DEFINE y == x(j)
  <2>3. t \in T + y + 2 .. T + y + d /\ y \in Nat /\ y + d <= e
    BY <2>1, <2>2
  <2> HIDE DEF x, e, y, at
  <2>4. /\ t \in T + 1 .. T + e /\ t - T - 1 = y + (t - T - 1 - y)
        /\ t - T - 1 - y \in 1 .. d - 1
    BY <1>1, <2>3
  <2> QED BY <2>4 DEF y, e
<1>5. \A t : \A j \in 1 .. n : t \in at(j) => (t - T - 1) \div d = j - 1
                                              /\ (t - T - 1) % d # 0
  <2> SUFFICES ASSUME NEW t, NEW j \in 1 .. n, t \in at(j)
               PROVE  (t - T - 1) \div d = j - 1 /\ (t - T - 1) % d # 0
    OBVIOUS
  <2> DEFINE r == t - T - 1 - x(j)
             i == j - 1
  <2>1. r \in 1 .. d - 1 /\ t - T - 1 = x(j) + r
    <3> HIDE DEF at, x
    <3> QED BY <1>4
  <2>2. i \in Nat /\ x(j) = i * d
    OBVIOUS
  <2> HIDE DEF r, at, x, i
  <2>3. r \in 0 .. d - 1 /\ r # 0 /\ i \in Int
    BY <2>1, <2>2
  <2>4. (i * d + r) \div d = i /\ (i * d + r) % d = r
    BY <2>2, <2>3, Quotient, Remainder
  <2> QED BY <2>1, <2>2, <2>3, <2>4 DEF i
<1>6. C \in [1 .. n -> SUBSET U]
  <2>1. \A j \in 1 .. n : at(j) \in SUBSET U
    <3> HIDE DEF at, U
    <3> QED BY <1>4
  <2> HIDE DEF at, U
  <2> QED BY <2>1
<1>7. \A i, j \in 1 .. n : i # j => C[i] \cap C[j] = {}
  <2> SUFFICES ASSUME NEW i \in 1 .. n, NEW j \in 1 .. n, i # j, NEW t,
                      t \in at(i), t \in at(j)
               PROVE  FALSE
    OBVIOUS
  <2> HIDE DEF at
  <2>1. i - 1 = j - 1
    BY <1>5
  <2> QED BY <2>1
<1>8. \A j \in 1 .. n : kids[j].revisions = Cardinality(C[j])
  <2> SUFFICES ASSUME NEW j \in 1 .. n PROVE kids[j].revisions = Cardinality(at(j))
    OBVIOUS
  <2> DEFINE b == kids[j]
             y == x(j)
  <2>1. /\ b.from = T + Row(j, 1, d) /\ b.to = T + Row(j, d, d)
        /\ b.revisions = ChangesIn(m, b.from, b.to, d)
    <3>1. KidKnows(m, T, d, j, kids[j])
      BY KidTicks
    <3> QED BY <3>1 DEF KidKnows
  <2>2. Row(j, 1, d) = y + 1 /\ Row(j, d, d) = y + d /\ y \in Nat
    BY <1>2 DEF Row
  <2> DEFINE from == T + (y + 1)
             to == T + (y + d)
             R == {t \in from + 1 .. to : (t - from) % d # 0 /\ m[t] # m[t - 1]}
  <2>3. b.revisions = Cardinality(R)
    BY <2>1, <2>2 DEF ChangesIn
  <2>4. from + 1 .. to = T + y + 2 .. T + y + d
    <3> HIDE DEF y
    <3> QED BY <2>2
  <2>5. \A t \in from + 1 .. to : (t - from) % d # 0
    <3> SUFFICES ASSUME NEW t \in from + 1 .. to PROVE (t - from) % d # 0
      OBVIOUS
    <3> DEFINE r == t - from
    <3>1. r \in 0 .. d - 1 /\ r # 0
      <4> HIDE DEF y
      <4> QED BY <2>2
    <3> HIDE DEF r
    <3>2. r % d = r
      BY <3>1, Small
    <3> QED BY <3>1, <3>2 DEF r
  <2>6. R = at(j)
    <3> HIDE DEF from, to
    <3>1. R = {t \in from + 1 .. to : m[t] # m[t - 1]}
      BY <2>5
    <3>2. at(j) = {t \in T + y + 2 .. T + y + d : m[t] # m[t - 1]}
      OBVIOUS
    <3> HIDE DEF R, at, y
    <3> QED BY <2>4, <3>1, <3>2
  <2> HIDE DEF R, at, b
  <2> QED BY <2>3, <2>6 DEF b
<1>9. UNION {C[j] : j \in 1 .. n} =
          {t \in T + 1 + 1 .. T + e : (t - (T + 1)) % d # 0 /\ m[t] # m[t - 1]}
  <2> DEFINE A == UNION {C[j] : j \in 1 .. n}
             B == {t \in T + 1 + 1 .. T + e : (t - (T + 1)) % d # 0 /\ m[t] # m[t - 1]}
  <2>1. ASSUME NEW t \in A PROVE t \in B
    <3>1. PICK j \in 1 .. n : t \in at(j)
      OBVIOUS
    <3>2. t \in T + x(j) + 2 .. T + x(j) + d /\ m[t] # m[t - 1]
      BY <3>1
    <3> DEFINE y == x(j)
    <3>3. y \in Nat /\ y + d <= e /\ t \in T + y + 2 .. T + y + d
      BY <1>2, <3>2
    <3> HIDE DEF A, at, x, y, e
    <3>4. (t - T - 1) % d # 0
      BY <1>5, <3>1
    <3>5. t \in T + 1 + 1 .. T + e /\ t - (T + 1) = t - T - 1
      BY <1>1, <3>3
    <3> QED BY <3>2, <3>4, <3>5
  <2>2. ASSUME NEW t \in B PROVE t \in A
    <3> DEFINE r == t - T
    <3>0. t \in T + 1 + 1 .. T + e /\ (t - (T + 1)) % d # 0 /\ m[t] # m[t - 1]
      OBVIOUS
    <3>1. r \in 1 .. e /\ t = T + r
      <4> HIDE DEF e, B
      <4> QED BY <1>1, <3>0
    <3> HIDE DEF r
    <3>2. PICK j \in 1 .. n : \E p \in 1 .. d : r = Row(j, p, d)
      <4>1. r \in 1 .. n * d
        BY <3>1
      <4> QED BY <4>1, RowSplit
    <3>3. PICK p \in 1 .. d : r = Row(j, p, d)
      BY <3>2
    <3> DEFINE y == x(j)
               i == j - 1
    <3>4. r = y + p /\ y \in Nat /\ i \in Nat /\ y = i * d
      BY <1>2, <3>3 DEF Row
    <3> HIDE DEF y, i, B, e, A
    <3>5. p - 1 # 0
      <4> SUFFICES ASSUME p - 1 = 0 PROVE FALSE
        OBVIOUS
      <4>1. t - (T + 1) = i * d + 0
        <5>1. t - (T + 1) = y
          BY <3>1, <3>4
        <5>2. y + 0 = y
          BY <3>4
        <5> QED BY <3>4, <5>1, <5>2
      <4>2. 0 \in 0 .. d - 1 /\ i \in Int
        BY <3>4
      <4>3. (i * d + 0) % d = 0
        BY <4>2, Remainder
      <4> QED BY <3>0, <4>1, <4>3
    <3>6. t \in T + y + 2 .. T + y + d
      BY <3>1, <3>4, <3>5
    <3>7. t \in at(j)
      BY <3>0, <3>6 DEF y
    <3>8. t \in C[j]
      BY <3>7
    <3> HIDE DEF C
    <3> QED BY <3>8 DEF A
  <2>3. A = B
    <3> HIDE DEF A, B
    <3> QED BY <2>1, <2>2
  <2> QED BY <2>3
<1>10. DOMAIN kids = 1 .. n /\ Len(kids) = n
  BY DEF KidsOf
<1> HIDE DEF C, U
<1>11. Total(kids) = Cardinality(UNION {C[j] : j \in 1 .. n})
  BY <1>3, <1>6, <1>7, <1>8, <1>10, UnionAdds
<1> QED BY <1>9, <1>11 DEF ChangesIn

\* Its ticks are those of its base bars.
Covered(T, d, n) ==
    \A t \in T + 1 .. T + n * d : \E j \in 1 .. n : \E p \in 1 .. d : t = T + Row(j, p, d)

LEMMA AllCovered ==
    ASSUME NEW T \in Nat, NEW d \in Nat \ {0}, NEW n \in Nat
    PROVE  Covered(T, d, n)
<1> DEFINE e == n * d
<1>1. e \in Nat
  BY SMTT(30)
<1> SUFFICES ASSUME NEW t \in T + 1 .. T + e
             PROVE  \E j \in 1 .. n : \E p \in 1 .. d : t = T + Row(j, p, d)
  BY DEF Covered
<1> DEFINE r == t - T
<1>2. r \in 1 .. e /\ t = T + r
  <2> HIDE DEF e
  <2> QED BY <1>1
<1> HIDE DEF r
<1>3. \E j \in 1 .. n : \E p \in 1 .. d : r = Row(j, p, d)
  BY <1>2, RowSplit
<1> QED BY <1>2, <1>3

\* It is the bar of all its ticks, but for a change between two base bars.
LEMMA CombinedBar ==
    ASSUME NEW m \in Seq(Nat), NEW T \in Nat, NEW d \in Nat \ {0}, d = Base, NEW n \in Nat \ {0},
           T + n * d <= Len(m),
           NEW kids, KidsOf(m, T, d, n, kids), NEW previous \in Nat,
           NEW sign, sign = IF previous = 0 THEN "flat" ELSE Sign(Last(kids).close, previous)
    PROVE  /\ BarIn(m, Combined(kids, n, sign), T + 1, T + n * d, previous)
           /\ Combined(kids, n, sign).revisions = ChangesIn(m, T + 1, T + n * d, d)
<1> DEFINE b == Combined(kids, n, sign)
           e == n * d
           high == Max({k.high : k \in Range(kids)})
           low == Min({k.low : k \in Range(kids)})
           hpos == Min({ChildPosition(j, kids[j].hpos) :
                            j \in {i \in 1 .. n : kids[i].high = high}})
           lpos == Min({ChildPosition(j, kids[j].lpos) :
                            j \in {i \in 1 .. n : kids[i].low = low}})
<1>1. d \in Nat \ {0} /\ e \in Nat /\ kids \in Seq(Bar) /\ Len(kids) = n
  <2>1. e \in Nat
    BY SMTT(30)
  <2> QED BY <2>1 DEF KidsOf
<1>2. \A j \in 1 .. n : KidKnows(m, T, d, j, kids[j])
  BY <1>1, KidTicks
<1>3. /\ \E j \in 1 .. n : kids[j].high = high
      /\ \E j \in 1 .. n : kids[j].low = low
      /\ high \in Nat /\ low \in Nat
      /\ \A j \in 1 .. n : low <= kids[j].low /\ kids[j].high <= high
  BY <1>1, CombinedExtremes
<1>4. /\ hpos = Min({(j - 1) * d + kids[j].hpos : j \in {i \in 1 .. n : kids[i].high = high}})
      /\ lpos = Min({(j - 1) * d + kids[j].lpos : j \in {i \in 1 .. n : kids[i].low = low}})
  BY DEF ChildPosition
<1> HIDE DEF high, low, hpos, lpos
<1>5. b = [from |-> Head(kids).from, to |-> Last(kids).to,
           open |-> Head(kids).open, close |-> Last(kids).close,
           high |-> high, low |-> low, hpos |-> hpos, lpos |-> lpos,
           sign |-> sign, revisions |-> Total(kids)]
  BY DEF Combined, high, low, hpos, lpos
<1> HIDE DEF b
<1>6. \A t \in T + 1 .. T + e : \E j \in 1 .. n : \E p \in 1 .. d : t = T + Row(j, p, d)
  <2>1. n \in Nat
    OBVIOUS
  <2>2. Covered(T, d, n)
    BY <2>1, AllCovered
  <2> QED BY <2>2 DEF Covered
<1>7. ASSUME NEW j \in 1 .. n, NEW p \in 1 .. d
      PROVE  /\ T + Row(j, p, d) \in T + 1 .. T + e
             /\ low <= m[T + Row(j, p, d)] /\ m[T + Row(j, p, d)] <= high
             /\ m[T + Row(j, p, d)] = high => kids[j].high = high
             /\ m[T + Row(j, p, d)] = low => kids[j].low = low
  <2> DEFINE v == m[T + Row(j, p, d)]
             k == kids[j]
             x == (j - 1) * d
  <2>1. k \in Bar /\ k.low <= v /\ v <= k.high
    BY <1>2 DEF KidKnows
  <2>2. k.low \in Nat /\ k.high \in Nat
    BY <2>1 DEF Bar
  <2>3. T + Row(j, p, d) \in T + 1 .. T + e
    <3>1. x \in Nat /\ x + d <= e /\ Row(j, p, d) = x + p
      <4>1. (j - 1) * d \in Nat /\ j * d = (j - 1) * d + d /\ j * d <= n * d
        BY <1>1, BlockEnds
      <4> QED BY <4>1 DEF Row
    <3> DEFINE r == Row(j, p, d)
    <3>2. r \in 1 .. e
      <4> HIDE DEF x, e
      <4> QED BY <1>1, <3>1
    <3> HIDE DEF r, e
    <3>3. T + r \in T + 1 .. T + e
      BY <1>1, <3>2
    <3> QED BY <3>3 DEF r
  <2>4. v \in Nat
    <3> DEFINE t == T + Row(j, p, d)
    <3>1. t \in T + 1 .. T + e /\ T + e <= Len(m)
      BY <2>3
    <3>2. t \in 1 .. Len(m)
      <4> HIDE DEF t, e
      <4> QED BY <1>1, <3>1
    <3> QED BY <3>2
  <2>5. low <= k.low /\ k.high <= high
    BY <1>3
  <2> DEFINE kl == k.low
             kh == k.high
  <2>6. kl \in Nat /\ kh \in Nat /\ kl <= v /\ v <= kh /\ low <= kl /\ kh <= high
    BY <2>1, <2>2, <2>5
  <2>7. /\ low <= v /\ v <= high
        /\ (v = high => kh = high) /\ (v = low => kl = low)
    <3> HIDE DEF v, kl, kh
    <3> QED BY <1>3, <2>4, <2>6
  <2> QED BY <2>3, <2>7
<1>8. FirstOf(m, T, e, high, hpos)
  <2> DEFINE ext == [j \in 1 .. n |-> kids[j].high]
             pos == [j \in 1 .. n |-> kids[j].hpos]
  <2>1. pos \in [1 .. n -> 0 .. d - 1]
    BY <1>2 DEF KidKnows
  <2>2. FirstAt(m, T, d, n, ext, pos)
    BY <1>2 DEF FirstAt, KidKnows
  <2>3. OnlyThere(m, T, d, n, ext, high)
    BY <1>7 DEF OnlyThere
  <2>4. \E j \in 1 .. n : ext[j] = high
    BY <1>3
  <2>5. hpos = FirstPos(n, d, ext, pos, high)
    <3>1. {i \in 1 .. n : ext[i] = high} = {i \in 1 .. n : kids[i].high = high}
      OBVIOUS
    <3>2. {(j - 1) * d + pos[j] : j \in {i \in 1 .. n : kids[i].high = high}} =
              {(j - 1) * d + kids[j].hpos : j \in {i \in 1 .. n : kids[i].high = high}}
      OBVIOUS
    <3> HIDE DEF ext, pos
    <3> QED BY <1>4, <3>1, <3>2 DEF FirstPos
  <2>6. n \in Nat
    OBVIOUS
  <2> HIDE DEF ext, pos
  <2> HIDE DEF e
  <2>7. FirstOf(m, T, n * d, high, FirstPos(n, d, ext, pos, high))
    BY <2>1, <2>2, <2>3, <2>4, <2>6, FirstExtreme
  <2> QED BY <2>5, <2>7 DEF e
<1>9. FirstOf(m, T, e, low, lpos)
  <2> DEFINE ext == [j \in 1 .. n |-> kids[j].low]
             pos == [j \in 1 .. n |-> kids[j].lpos]
  <2>1. pos \in [1 .. n -> 0 .. d - 1]
    BY <1>2 DEF KidKnows
  <2>2. FirstAt(m, T, d, n, ext, pos)
    BY <1>2 DEF FirstAt, KidKnows
  <2>3. OnlyThere(m, T, d, n, ext, low)
    BY <1>7 DEF OnlyThere
  <2>4. \E j \in 1 .. n : ext[j] = low
    BY <1>3
  <2>5. lpos = FirstPos(n, d, ext, pos, low)
    <3>1. {i \in 1 .. n : ext[i] = low} = {i \in 1 .. n : kids[i].low = low}
      OBVIOUS
    <3>2. {(j - 1) * d + pos[j] : j \in {i \in 1 .. n : kids[i].low = low}} =
              {(j - 1) * d + kids[j].lpos : j \in {i \in 1 .. n : kids[i].low = low}}
      OBVIOUS
    <3> HIDE DEF ext, pos
    <3> QED BY <1>4, <3>1, <3>2 DEF FirstPos
  <2>6. n \in Nat
    OBVIOUS
  <2> HIDE DEF ext, pos
  <2> HIDE DEF e
  <2>7. FirstOf(m, T, n * d, low, FirstPos(n, d, ext, pos, low))
    BY <2>1, <2>2, <2>3, <2>4, <2>6, FirstExtreme
  <2> QED BY <2>5, <2>7 DEF e
<1>10. /\ Head(kids).from = T + 1 /\ Head(kids).open = m[T + 1]
       /\ Last(kids).to = T + e /\ Last(kids).close = m[T + e]
  <2>1. Head(kids) = kids[1] /\ Last(kids) = kids[n] /\ 1 \in 1 .. n /\ n \in 1 .. n
    BY <1>1 DEF Last
  <2>2. Row(1, 1, d) = 1 /\ Row(n, d, d) = e
    <3>1. (1 - 1) * d = 0 /\ (n - 1) * d + d = n * d
      BY <1>1, SMTT(30)
    <3> QED BY <3>1 DEF Row
  <2>3. KidKnows(m, T, d, 1, kids[1]) /\ KidKnows(m, T, d, n, kids[n])
    BY <1>2, <2>1
  <2> HIDE DEF e
  <2> QED BY <2>1, <2>2, <2>3 DEF KidKnows
<1>11. ASSUME NEW t \in T + 1 .. T + e
       PROVE  low <= m[t] /\ m[t] <= high
  <2> HIDE DEF e, low, high
  <2>1. PICK j \in 1 .. n : \E q \in 1 .. d : t = T + Row(j, q, d)
    BY <1>6
  <2>2. PICK q \in 1 .. d : t = T + Row(j, q, d)
    BY <2>1
  <2> QED BY <1>7, <2>2
<1>12. /\ {hpos, lpos} \subseteq 0 .. T + e - (T + 1)
       /\ m[T + 1 + hpos] = high /\ m[T + 1 + lpos] = low
       /\ high \notin {m[t] : t \in T + 1 .. T + 1 + hpos - 1}
       /\ low \notin {m[t] : t \in T + 1 .. T + 1 + lpos - 1}
  <2> HIDE DEF e
  <2>1. \A pos \in 0 .. e - 1 : T + 1 + pos - 1 = T + pos /\ pos \in 0 .. T + e - (T + 1)
    BY <1>1
  <2> QED BY <1>8, <1>9, <2>1 DEF FirstOf
<1>13. BarIn(m, b, T + 1, T + e, previous)
  <2> HIDE DEF e
  <2>1. /\ b.from = T + 1 /\ b.to = T + e /\ b.open = m[T + 1] /\ b.close = m[T + e]
        /\ b.high = high /\ b.low = low /\ b.hpos = hpos /\ b.lpos = lpos
        /\ b.sign = sign /\ b.close = Last(kids).close
    BY <1>5, <1>10
  <2>2. b.sign = IF previous = 0 THEN "flat" ELSE Sign(b.close, previous)
    BY <2>1
  <2> DEFINE from == T + 1
             to == T + e
  <2>3. from = T + 1 /\ to = T + e
    OBVIOUS
  <2> HIDE DEF from, to
  <2>4. b.from = from /\ b.to = to /\ b.open = m[from] /\ b.close = m[to]
    BY <2>1, <2>3
  <2>5. {b.hpos, b.lpos} \subseteq 0 .. to - from
    <3>1. hpos \in 0 .. to - from /\ lpos \in 0 .. to - from
      <4>1. hpos \in 0 .. e - 1 /\ lpos \in 0 .. e - 1
        BY <1>8, <1>9 DEF FirstOf
      <4>2. to - from = e - 1
        BY <1>1, <2>3
      <4> QED BY <4>1, <4>2
    <3> QED BY <2>1, <3>1
  <2>7. m[from + b.hpos] = b.high /\ m[from + b.lpos] = b.low
    BY <1>12, <2>1, <2>3
  <2>8. \A t \in from .. to : b.low <= m[t] /\ m[t] <= b.high
    BY <1>11, <2>1, <2>3
  <2>9. b.high \notin {m[t] : t \in from .. from + b.hpos - 1}
    BY <1>12, <2>1, <2>3
  <2>10. b.low \notin {m[t] : t \in from .. from + b.lpos - 1}
    BY <1>12, <2>1, <2>3
  <2>6. BarIn(m, b, from, to, previous)
    BY <2>2, <2>4, <2>5, <2>7, <2>8, <2>9, <2>10 DEF BarIn
  <2> QED BY <2>6 DEF from, to
<1>14. b.revisions = ChangesIn(m, T + 1, T + e, d)
  <2>1. Total(kids) = ChangesIn(m, T + 1, T + n * d, d)
    <3>1. n \in Nat
      OBVIOUS
    <3> QED BY <1>1, <3>1, CombinedRevisions
  <2>2. b.revisions = Total(kids)
    BY <1>5
  <2> QED BY <2>1, <2>2
<1> QED BY <1>13, <1>14 DEF b

-----------------------------------------------------------------------------
(* What the bars of the script are. *)

\* A bar of the script of m base bars, as ResearchBarsExact says.
BlockOf(b, i, n) ==
    /\ IsBar(b, (i - 1) * n + 1, i * n, IF i = 1 THEN 0 ELSE ticks[(i - 1) * n])
    /\ b.revisions = Changes((i - 1) * n + 1, i * n, Base)

\* A base bar is one of its own, ...
LEMMA BaseBlocks ==
    ASSUME ResearchShape, NEW i \in 1 .. Len(base)
    PROVE  BlockOf(base[i], i, Base)
<1> DEFINE b == base[i]
           x == (i - 1) * Base
           previous == IF i = 1 THEN 0 ELSE ticks[x]
<1>1. b \in Bar /\ b.from = x + 1 /\ b.to = i * Base /\ BarOf(ticks, b, Base, i = 1)
  BY DEF ResearchShape, FileBar
<1>2. x \in Nat /\ i * Base = x + Base /\ Base \in Nat
  BY BaseBars
<1> DEFINE to == i * Base
<1> HIDE DEF x, b, to
<1>3. b.from - 1 = x /\ b.from + Base - 1 = to
  BY <1>1, <1>2 DEF to
<1>4. /\ BarIn(ticks, b, b.from, b.from + Base - 1, IF i = 1 THEN 0 ELSE ticks[b.from - 1])
      /\ b.revisions = ChangesIn(ticks, b.from, b.to, Base)
  BY <1>1 DEF BarOf
<1>5. /\ BarIn(ticks, b, x + 1, to, previous)
      /\ b.revisions = ChangesIn(ticks, x + 1, to, Base)
  BY <1>1, <1>3, <1>4 DEF to
<1> HIDE DEF previous
<1>6. IsBar(b, x + 1, to, previous)
  BY <1>5 DEF IsBar, BarIn
<1>7. b.revisions = Changes(x + 1, to, Base)
  BY <1>5 DEF Changes, ChangesIn
<1> QED BY <1>6, <1>7 DEF BlockOf, b, x, to, previous

\* ... and every m of them make one.
LEMMA AggregatedBlocks ==
    ASSUME ResearchShape, NEW m \in Nat \ {0}, m # 1
    PROVE  LET bars == Aggregated(m) IN
           /\ DOMAIN bars = 1 .. Len(base) \div m /\ Len(bars) = Len(base) \div m
           /\ \A i \in 1 .. Len(base) \div m : BlockOf(bars[i], i, Base * m)
<1> DEFINE k == Len(base)
           q == k \div m
           n == Base * m
           bars == Aggregated(m)
           kids(i) == Block(base, i, m)
           sign(i) == IF i = 1 THEN "flat"
                      ELSE Sign(Last(kids(i)).close, Last(kids(i - 1)).close)
<1>1. bars = [i \in 1 .. q |-> Combined(kids(i), m, sign(i))]
  BY DEF Aggregated, Combined, Total
<1>2. /\ Base \in Nat \ {0} /\ k \in Nat /\ k * Base \in Nat /\ k * Base <= Len(ticks)
      /\ Len(ticks) \in Nat /\ ticks \in Seq(Nat) /\ base \in Seq(Bar)
  BY BaseBars DEF ResearchShape
<1>3. q \in Nat /\ q * m \in Nat /\ q * m <= k
  <2> DEFINE c == q * m
             r == k % m
  <2>1. q \in Nat /\ c \in Nat /\ r \in 0 .. m - 1 /\ k = c + r
    BY <1>2, Division
  <2> HIDE DEF c, r, k
  <2>2. c <= k
    BY <1>2, <2>1
  <2> QED BY <2>1, <2>2 DEF c
<1> HIDE DEF q
<1>4. ASSUME NEW i \in 1 .. q
      PROVE  /\ (i - 1) * m \in Nat /\ i * m = (i - 1) * m + m /\ i * m <= k
             /\ kids(i) \in Seq(Bar) /\ Len(kids(i)) = m
             /\ \A j \in 1 .. m : kids(i)[j] = base[(i - 1) * m + j]
  <2> DEFINE x == (i - 1) * m
             y == i * m
             z == q * m
             w == SubSeq(base, x + 1, y)
  <2>1. x \in Nat /\ y = x + m /\ y <= k
    <3>1. x \in Nat /\ y = x + m /\ y <= z
      BY <1>3, BlockEnds
    <3>2. z \in Nat /\ z <= k
      BY <1>3
    <3> HIDE DEF x, y, z, k
    <3> QED BY <1>2, <3>1, <3>2
  <2> HIDE DEF x, y, k
  <2>2. \A j \in x + 1 .. y : j \in 1 .. k
    BY <1>2, <2>1
  <2>3. \A j \in x + 1 .. y : base[j] \in Bar
    BY <1>2, <2>2 DEF k
  <2>4. x + 1 \in Int /\ y \in Int
    BY <2>1
  <2>5. /\ w \in Seq(Bar) /\ Len(w) = IF x + 1 <= y THEN y - (x + 1) + 1 ELSE 0
        /\ \A j \in 1 .. y - (x + 1) + 1 : w[j] = base[x + 1 + j - 1]
    BY <2>3, <2>4, SubSeqProperties
  <2> HIDE DEF w
  <2>6. Len(w) = m
    BY <2>1, <2>5
  <2>7. ASSUME NEW j \in 1 .. m PROVE w[j] = base[x + j]
    <3>1. j \in 1 .. y - (x + 1) + 1 /\ x + 1 + j - 1 = x + j
      BY <2>1
    <3> QED BY <2>5, <3>1
  <2>8. kids(i) = w
    BY DEF Block, w, x, y
  <2> QED BY <2>1, <2>5, <2>6, <2>7, <2>8 DEF x, y
<1>5. ASSUME NEW i \in 1 .. q
      PROVE  /\ KidsOf(ticks, (i - 1) * n, Base, m, kids(i))
             /\ (i - 1) * n \in Nat /\ (i - 1) * n + m * Base = i * n
             /\ i * n <= Len(ticks) /\ i * n \in Nat
  <2> DEFINE x == (i - 1) * m
             T == (i - 1) * n
             y == i * m
  <2>1. x \in Nat /\ y = x + m /\ y <= k /\ y \in Nat
    <3>1. x \in Nat /\ y = x + m /\ y <= k
      BY <1>4
    <3> HIDE DEF x, y
    <3> QED BY <3>1
  <2>2. T = x * Base /\ i * n = y * Base /\ i \in Nat /\ i - 1 \in Nat
    <3>1. \A a \in Nat : a * (Base * m) = (a * m) * Base
      BY <1>2, SMTT(30)
    <3>2. i \in Nat /\ i - 1 \in Nat
      BY <1>3
    <3> QED BY <3>1, <3>2
  <2>3. \A a, b \in Nat : /\ a * Base \in Nat /\ (a + b) * Base = a * Base + b * Base
                          /\ a <= b => a * Base <= b * Base
    BY <1>2, SMTT(30)
  <2>4. T \in Nat /\ T + m * Base = i * n /\ i * n <= Len(ticks) /\ i * n \in Nat
    <3> DEFINE u == x * Base
               v == y * Base
               w == m * Base
               z == k * Base
    <3>1. u \in Nat /\ v = u + w /\ v <= z /\ v \in Nat /\ w \in Nat
      <4> HIDE DEF x, y, k
      <4> QED BY <1>2, <2>1, <2>3
    <3>2. z <= Len(ticks) /\ z \in Nat
      BY <1>2
    <3>3. T = u /\ i * n = v
      BY <2>2
    <3>4. v <= Len(ticks) /\ u + w = v
      <4> HIDE DEF u, v, w, z
      <4> QED BY <1>2, <3>1, <3>2
    <3> HIDE DEF u, v
    <3> QED BY <3>1, <3>3, <3>4 DEF w
  <2>5. ASSUME NEW j \in 1 .. m PROVE Kid(ticks, kids(i)[j], T + Row(j, 1, Base), Base)
    <3> DEFINE g == x + j
               b == base[g]
               from == (g - 1) * Base + 1
               previous == IF g = 1 THEN 0 ELSE ticks[(g - 1) * Base]
    <3>1. g \in 1 .. k /\ g - 1 = x + (j - 1) /\ j - 1 \in Nat
      <4> HIDE DEF x, y, k
      <4> QED BY <1>2, <2>1
    <3>2. T + Row(j, 1, Base) = from
      <4>1. (x + (j - 1)) * Base = x * Base + (j - 1) * Base
        BY <2>1, <2>3, <3>1
      <4> DEFINE u == x * Base
                 v == (j - 1) * Base
      <4>2. (g - 1) * Base = u + v /\ T = u /\ Row(j, 1, Base) = v + 1 /\ v \in Nat
            /\ u \in Nat
        BY <2>1, <2>2, <2>3, <3>1, <4>1 DEF Row
      <4> HIDE DEF u, v, T, g
      <4> QED BY <4>2
    <3>3. kids(i)[j] = b
      BY <1>4
    <3>4. FileBar(ticks, b, g)
      BY <3>1 DEF ResearchShape
    <3>5. (g - 1) * Base \in Nat /\ (g # 1 => (g - 1) * Base # 0)
          /\ (g - 1) * Base <= Len(ticks)
      <4> DEFINE u == (g - 1) * Base
                 v == g * Base
                 z == k * Base
      <4> HIDE DEF g
      <4>1. u \in Nat /\ v = u + Base /\ v <= z /\ (g # 1 => u # 0)
        BY <3>1, BaseBars
      <4>2. z \in Nat /\ z <= Len(ticks)
        BY <1>2
      <4> HIDE DEF u, v, z
      <4>3. u <= Len(ticks)
        BY <1>2, <4>1, <4>2
      <4> QED BY <4>1, <4>3 DEF u
    <3>6. previous \in Nat
      <4>1. g # 1 => (g - 1) * Base \in 1 .. Len(ticks)
        <5> DEFINE u == (g - 1) * Base
        <5>1. u \in Nat /\ (g # 1 => u # 0) /\ u <= Len(ticks)
          BY <3>5
        <5> HIDE DEF u, g
        <5>2. g # 1 => u \in 1 .. Len(ticks)
          BY <1>2, <5>1
        <5> QED BY <5>2 DEF u
      <4> HIDE DEF g
      <4> QED BY <1>2, <4>1
    <3> HIDE DEF g
    <3>7. b \in Bar /\ b.from = from /\ b.to = g * Base /\ BarOf(ticks, b, Base, g = 1)
      BY <3>4 DEF FileBar
    <3> HIDE DEF b
    <3>8. from - 1 = (g - 1) * Base /\ from + Base - 1 = b.to
      <4> DEFINE u == (g - 1) * Base
      <4>1. u \in Nat /\ b.to = u + Base
        BY <3>1, <3>5, <3>7, BaseBars
      <4> HIDE DEF u
      <4>2. u + 1 - 1 = u /\ u + 1 + Base - 1 = b.to
        BY <1>2, <4>1
      <4>3. from = u + 1
        BY DEF u
      <4> HIDE DEF from
      <4>4. from - 1 = u /\ from + Base - 1 = b.to
        BY <1>2, <4>1, <4>3
      <4> QED BY <4>4 DEF u
    <3> DEFINE first == g = 1
    <3>9. BarOf(ticks, b, Base, first)
      BY <3>7
    <3>10. previous = IF first THEN 0 ELSE ticks[b.from - 1]
      BY <3>7, <3>8
    <3> HIDE DEF first, previous, from
    <3>11. BarIn(ticks, b, from, from + Base - 1, previous)
           /\ b.revisions = ChangesIn(ticks, from, from + Base - 1, Base)
      BY <3>7, <3>8, <3>9, <3>10 DEF BarOf
    <3>12. Kid(ticks, b, from, Base)
      BY <3>6, <3>7, <3>11 DEF Kid
    <3> QED BY <3>2, <3>3, <3>12
  <2>6. KidsOf(ticks, T, Base, m, kids(i))
    <3> HIDE DEF T
    <3> QED BY <1>4, <2>5 DEF KidsOf
  <2> QED BY <2>4, <2>6
<1>6. ASSUME NEW i \in 1 .. q PROVE BlockOf(bars[i], i, n)
  <2> DEFINE T == (i - 1) * n
             to == i * n
             previous == IF i = 1 THEN 0 ELSE ticks[T]
             ks == kids(i)
             sg == sign(i)
             b == Combined(ks, m, sg)
  <2>1. /\ KidsOf(ticks, T, Base, m, ks) /\ T \in Nat /\ T + m * Base = to
        /\ to <= Len(ticks)
    BY <1>5
  <2>2. previous \in Nat /\ sg = IF previous = 0 THEN "flat" ELSE Sign(Last(ks).close, previous)
    <3>1. CASE i = 1
      BY <3>1
    <3>2. CASE i # 1
      <4> DEFINE h == i - 1
                 k2 == kids(h)
                 z == h * n
      <4>1. h \in 1 .. q
        BY <1>3, <3>2
      <4>2. /\ KidsOf(ticks, (h - 1) * n, Base, m, k2) /\ (h - 1) * n \in Nat
            /\ (h - 1) * n + m * Base = z /\ z <= Len(ticks) /\ z \in Nat
        <5> HIDE DEF h, n, kids
        <5> QED BY <1>5, <4>1
      <4>3. Last(k2) = k2[m] /\ m \in 1 .. m
        <5> HIDE DEF kids, h
        <5>1. Len(k2) = m
          BY <1>4, <4>1
        <5> QED BY <5>1 DEF Last
      <4> DEFINE S == (h - 1) * n
      <4>4. S \in Nat /\ KidsOf(ticks, S, Base, m, k2) /\ S + m * Base = z
        BY <4>2
      <4> HIDE DEF S, k2, h, n, z
      <4>5. KidKnows(ticks, S, Base, m, k2[m])
        BY <1>2, <4>3, <4>4, KidTicks
      <4>6. Row(m, Base, Base) = m * Base
        <5>1. (m - 1) * Base + Base = m * Base
          BY <1>2, SMTT(30)
        <5> QED BY <5>1 DEF Row
      <4>7. k2[m].close = ticks[z]
        BY <4>4, <4>5, <4>6 DEF KidKnows
      <4>8. z \in 1 .. Len(ticks)
        <5>1. m * Base \in Nat \ {0}
          BY <1>2, SMTT(30)
        <5> DEFINE w == m * Base
        <5>2. w \in Nat \ {0} /\ S + w = z /\ z \in Nat /\ z <= Len(ticks)
          BY <4>2, <4>4, <5>1 DEF z, h, n
        <5> HIDE DEF w
        <5> QED BY <1>2, <4>4, <5>2
      <4>9. ticks[z] \in Nat /\ ticks[z] # 0
        BY <1>2, <4>8 DEF ResearchShape
      <4>10. previous = ticks[z] /\ sg = Sign(Last(ks).close, Last(k2).close)
        BY <3>2 DEF z, h, k2
      <4> HIDE DEF previous, sg, ks
      <4> QED BY <4>3, <4>7, <4>9, <4>10
    <3> QED BY <3>1, <3>2
  <2>3. bars[i] = b
    <3> HIDE DEF kids, sign
    <3> QED BY <1>1
  <2> HIDE DEF T, ks, sg, previous, bars, to
  <2>4. /\ BarIn(ticks, b, T + 1, T + m * Base, previous)
        /\ b.revisions = ChangesIn(ticks, T + 1, T + m * Base, Base)
    BY <1>2, <2>1, <2>2, CombinedBar
  <2> HIDE DEF b
  <2>5. /\ BarIn(ticks, b, T + 1, to, previous)
        /\ b.revisions = ChangesIn(ticks, T + 1, to, Base)
    BY <2>1, <2>4
  <2>6. IsBar(b, T + 1, to, previous)
    BY <2>5 DEF IsBar, BarIn
  <2>7. b.revisions = Changes(T + 1, to, Base)
    BY <2>5 DEF Changes, ChangesIn
  <2> QED BY <2>3, <2>6, <2>7 DEF BlockOf, T, to, previous
<1>7. DOMAIN bars = 1 .. q /\ Len(bars) = q
  <2> HIDE DEF kids, sign
  <2> QED BY <1>1, <1>3
<1> HIDE DEF bars
<1>8. q = Len(base) \div m
  BY DEF q
<1> QED BY <1>6, <1>7, <1>8 DEF bars

LEMMA ResearchShapeExact == ResearchShape => ResearchBarsExact
<1> SUFFICES ASSUME ResearchShape PROVE ResearchBarsExact
  OBVIOUS
<1> DEFINE k == Len(base)
           c == k * Base
           B == Len(carry)
<1>1. /\ Base \in Nat \ {0} /\ k \in Nat /\ c \in Nat /\ B \in Nat
      /\ filed = c + B /\ carry \in Seq(Nat) /\ B < Base
      /\ \A j \in 1 .. B : carry[j] = c + j
  BY BaseBars DEF ResearchShape
<1> HIDE DEF c, B
<1>2. carry = SubSeq(Upto(filed), c + 1, filed)
  <2> DEFINE u == Upto(filed)
             r == SubSeq(u, c + 1, filed)
  <2>1. filed \in Nat /\ c + 1 \in Int /\ filed \in Int
    BY <1>1
  <2>2. \A i \in 1 .. filed : u[i] = i
    BY <2>1 DEF Upto
  <2> HIDE DEF u
  <2>3. \A i \in c + 1 .. filed : u[i] \in Nat
    BY <1>1, <2>2
  <2>4. /\ r \in Seq(Nat)
        /\ Len(r) = IF c + 1 <= filed THEN filed - (c + 1) + 1 ELSE 0
        /\ \A i \in 1 .. filed - (c + 1) + 1 : r[i] = u[c + 1 + i - 1]
    BY <2>1, <2>3, SubSeqProperties
  <2> HIDE DEF r
  <2>5. Len(r) = B
    BY <1>1, <2>4
  <2>6. ASSUME NEW i \in 1 .. B PROVE carry[i] = r[i]
    <3>1. i \in 1 .. filed - (c + 1) + 1 /\ c + 1 + i - 1 = c + i /\ c + i \in 1 .. filed
      BY <1>1
    <3>2. r[i] = c + i
      BY <2>2, <2>4, <3>1
    <3> QED BY <1>1, <3>2
  <2>7. carry = r
    BY <1>1, <2>4, <2>5, <2>6, SeqEqual DEF B
  <2> QED BY <2>7 DEF r, u
<1>3. ASSUME NEW m \in Multiples
      PROVE  LET bars == Aggregated(m) IN
             /\ Len(bars) = Len(base) \div m
             /\ \A i \in DOMAIN bars : BlockOf(bars[i], i, Base * m)
  <2>0. m \in Nat \ {0}
    BY BarConstants
  <2>1. CASE m = 1
    <3>1. Aggregated(m) = base
      BY <2>1 DEF Aggregated
    <3>2. Base * 1 = Base /\ Len(base) \div 1 = Len(base)
      BY <1>1
    <3>3. DOMAIN base = 1 .. Len(base)
      BY DEF ResearchShape
    <3>4. \A i \in 1 .. Len(base) : BlockOf(base[i], i, Base)
      BY BaseBlocks
    <3> QED BY <2>1, <3>1, <3>2, <3>3, <3>4
  <2>2. CASE m # 1
    <3>1. LET bars == Aggregated(m) IN
          /\ DOMAIN bars = 1 .. Len(base) \div m /\ Len(bars) = Len(base) \div m
          /\ \A i \in 1 .. Len(base) \div m : BlockOf(bars[i], i, Base * m)
      BY <2>0, <2>2, AggregatedBlocks
    <3> DEFINE bars == Aggregated(m)
    <3> HIDE DEF bars
    <3> QED BY <3>1 DEF bars
  <2> QED BY <2>1, <2>2
<1> QED BY <1>1, <1>2, <1>3 DEF ResearchBarsExact, BlockOf, c, B

\* However the months cut the ticks into files, also within a bar: the script's
\* base bars and their multiples are the blocks of the whole stream, each with
\* the prices, first extremes and sign of its ticks; only the rest of the last
\* file waits in the carry (_build_base_tick_bars, _bars_from_ticks,
\* _aggregate_from_base).
THEOREM ResearchBarsAreBlocks == Spec => []ResearchBarsExact
<1>1. Spec => []ResearchShape
  BY ResearchInit, ResearchNext, PTL DEF Spec
<1> QED BY <1>1, ResearchShapeExact, PTL

-----------------------------------------------------------------------------
(* The monthly files of TickDownload. *)

MonthAt(r) == Download!MonthOf(r[1])
Slots(m) == Download!FirstOf(m) .. Download!FirstOf(m + 1) - 1
Until(m, end) == Download!Capped(Download!FirstOf(m + 1), end)
OpenIn(r) == {t \in r[1] .. r[2] - 1 : Download!IsOpen(t)}
NextOf(todo) == CHOOSE r \in todo : \A o \in todo : r[1] <= o[1]

MonthFile == [state : {"none", "good", "torn"}, ticks : SUBSET Nat]
Downloader ==
    [pc : {"off", "refused", "check", "stale", "clear", "scan", "fill", "write"},
     end : Nat, tries : Nat, todo : SUBSET (Nat \X Nat), got : SUBSET Nat,
     base : SUBSET Nat, listed : BOOLEAN, forced : BOOLEAN, clean : BOOLEAN]

DownloadType ==
    /\ now \in Nat /\ faults \in Nat
    /\ file \in [Symbol -> [Download!Month -> MonthFile]]
    /\ proc \in [Proc -> Downloader]
    /\ done \in [Symbol -> Nat]

IsFile(f, m) ==
    /\ f.ticks \subseteq Slots(m)
    /\ f.state = "good" <=> f.ticks # {}

IsRange(r, end) ==
    /\ r \in Nat \X Nat /\ MonthAt(r) \in Download!Month
    /\ r[1] \in Slots(MonthAt(r)) /\ r[1] < r[2] /\ r[2] = Until(MonthAt(r), end)

\* A process has one range of a month, and writes into the month of its range.
RunShape(x, n) ==
    /\ x.end <= n
    /\ \A r \in x.todo : IsRange(r, x.end)
    /\ \A r, o \in x.todo : MonthAt(r) = MonthAt(o) => r = o
    /\ x.pc \notin {"fill", "write"} => x.todo = {}
    /\ x.pc = "write" =>
           LET r == NextOf(x.todo) IN
             /\ x.todo # {} /\ x.got # {} /\ x.got \subseteq OpenIn(r)
             /\ x.base \subseteq Slots(MonthAt(r))

\* Before any fault the head of every file is there.
Headed(S, m) ==
    \A t \in Slots(m) : Download!IsOpen(t) => \E q \in S : q <= t
HeadedFile(f, m) == f.state # "torn" /\ (f.state = "good" => Headed(f.ticks, m))
HeadedRun(x, F) ==
    /\ \A r \in x.todo :
           r[1] = Download!FirstOf(MonthAt(r)) \/ F[MonthAt(r)].state = "good"
    /\ x.pc = "write" => Headed(x.base \union x.got, MonthAt(NextOf(x.todo)))

\* What lies before a range and is missing is the head that a fault has cost.
LostHead(f, t, k) == f.state = "good" /\ k > 0 /\ \A q \in f.ticks : t < q
Aligned(f, r, k) ==
    /\ f.state # "torn"
    /\ \A t \in Slots(MonthAt(r)) :
           t < r[1] /\ Download!IsOpen(t) /\ t \notin f.ticks => LostHead(f, t, k)
HonestRun(x, F, k) ==
    /\ \A r \in x.todo : Aligned(F[MonthAt(r)], r, k)
    /\ x.pc = "write" =>
           LET r == NextOf(x.todo)
           IN  x.base = F[MonthAt(r)].ticks /\ x.got = OpenIn(r)

\* GapsFilled for one month
Settled(f, m, until, k, n) ==
    \A t \in Download!Expected(m, until) \ f.ticks :
        \/ f.state = "torn"
        \/ LostHead(f, t, k)
        \/ /\ f.state = "good" /\ m < Download!MonthOf(n) /\ t > Download!Last(f)
           /\ Download!Last(f) >= Download!CloseOf(Download!Last(f))
ScannedRun(x, F, k, n) ==
    \A m \in Download!Month :
        (\E r \in x.todo : MonthAt(r) = m) \/ Settled(F[m], m, x.end, k, n)

Honest(p) ==
    Download!Working(p) /\ (proc[p].clean \/ done[SymbolOf[p]] # 0)

FilesOK ==
    \A s \in Symbol, m \in Download!Month :
        IsFile(file[s][m], m) /\ (faults = 0 => HeadedFile(file[s][m], m))

\* While a run is clean, or its symbol's files were filled before it began, the
\* symbol is its own.
RunOK(p) ==
    LET x == proc[p]
        F == file[SymbolOf[p]]
    IN /\ RunShape(x, now)
       /\ faults = 0 => HeadedRun(x, F)
       /\ Honest(p) => /\ Download!Rivals(p) = {} /\ done[SymbolOf[p]] <= x.end
                        /\ HonestRun(x, F, faults)
       /\ x.clean /\ x.pc \in {"fill", "write"} => ScannedRun(x, F, faults, now)

DoneSettled ==
    \A s \in Symbol :
        /\ done[s] <= now
        /\ done[s] # 0 =>
               \A m \in Download!Month : Settled(file[s][m], m, done[s], faults, now)

DownloadInv ==
    DownloadType /\ FilesOK /\ (\A p \in Proc : RunOK(p)) /\ DoneSettled

LEMMA IntDivision ==
    ASSUME NEW n \in Int, NEW d \in Nat \ {0}
    PROVE  /\ n \div d \in Int /\ n % d \in 0 .. d - 1
           /\ (n \div d) * d \in Int /\ n = (n \div d) * d + (n % d)
BY SMTT(30)

LEMMA QuotientsGrow ==
    ASSUME NEW x \in Int, NEW y \in Int, x <= y, NEW d \in Nat \ {0}
    PROVE  x \div d <= y \div d
<1> DEFINE a == x \div d
           b == y \div d
<1>1. /\ a \in Int /\ b \in Int /\ a * d \in Int /\ b * d \in Int
      /\ x % d \in 0 .. d - 1 /\ x = a * d + (x % d)
      /\ y % d \in 0 .. d - 1 /\ y = b * d + (y % d)
  BY IntDivision
<1> HIDE DEF a, b
<1>2. ASSUME b < a PROVE FALSE
  <2>1. \A k \in Int : k >= 1 => k * d >= d
    BY SMTT(30)
  <2>2. (a - b) * d >= d
    BY <1>1, <1>2, <2>1
  <2>3. (a - b) * d = a * d - b * d
    BY <1>1, SMTT(30)
  <2> DEFINE u == a * d
             v == b * d
             w == (a - b) * d
             r == x % d
             o == y % d
  <2>4. /\ u \in Int /\ v \in Int /\ w >= d /\ w = u - v /\ x = u + r /\ y = v + o
        /\ r \in 0 .. d - 1 /\ o \in 0 .. d - 1
    BY <1>1, <2>2, <2>3
  <2> HIDE DEF u, v, w, r, o
  <2> QED BY <2>4
<1>3. a <= b
  BY <1>1, <1>2
<1> QED BY <1>3 DEF a, b

LEMMA MonthsGrow ==
    ASSUME NEW n \in Int, NEW k \in Int, n <= k
    PROVE  /\ Download!MonthOf(n) \in Int /\ Download!MonthOf(k) \in Int
           /\ Download!MonthOf(n) <= Download!MonthOf(k)
<1>1. n - 1 \in Int /\ k - 1 \in Int /\ n - 1 <= k - 1 /\ MonthSlots \in Nat \ {0}
  BY DownloadConstants
<1>2. /\ (n - 1) \div MonthSlots <= (k - 1) \div MonthSlots
      /\ (n - 1) \div MonthSlots \in Int /\ (k - 1) \div MonthSlots \in Int
  BY <1>1, QuotientsGrow, IntDivision
<1> QED BY <1>2 DEF Download!MonthOf

LEMMA MonthFacts ==
    ASSUME NEW m \in Nat
    PROVE  /\ Download!FirstOf(m) \in Nat \ {0} /\ MonthSlots \in Nat \ {0}
           /\ Download!FirstOf(m + 1) = Download!FirstOf(m) + MonthSlots
<1>1. m * MonthSlots \in Nat /\ (m + 1) * MonthSlots = m * MonthSlots + MonthSlots
  BY DownloadConstants, SMTT(30)
<1> DEFINE x == m * MonthSlots
           y == (m + 1) * MonthSlots
<1>2. x \in Nat /\ y = x + MonthSlots /\ MonthSlots \in Nat \ {0}
  BY <1>1, DownloadConstants
<1> HIDE DEF x, y
<1>3. x + 1 \in Nat \ {0} /\ y + 1 = x + 1 + MonthSlots
  BY <1>2
<1> QED BY <1>2, <1>3 DEF x, y, Download!FirstOf

LEMMA MonthIsNat ==
    ASSUME NEW m \in Download!Month PROVE m \in Nat
BY DownloadConstants, MonthsGrow DEF Download!Month

LEMMA MonthPlace ==
    ASSUME NEW m \in Nat, NEW t \in Slots(m)
    PROVE  t \in Nat \ {0} /\ Download!MonthOf(t) = m
<1> DEFINE x == m * MonthSlots
           j == t - 1 - x
<1>1. x \in Nat /\ Download!FirstOf(m) = x + 1 /\ MonthSlots \in Nat \ {0}
      /\ Download!FirstOf(m + 1) = x + 1 + MonthSlots
  BY MonthFacts, DownloadConstants, SMTT(30) DEF Download!FirstOf
<1>2. t \in x + 1 .. x + MonthSlots
  <2> HIDE DEF x
  <2> QED BY <1>1 DEF Slots
<1>3. t \in Nat \ {0} /\ j \in 0 .. MonthSlots - 1 /\ x + j = t - 1
  <2> HIDE DEF x
  <2> QED BY <1>1, <1>2
<1>4. (x + j) \div MonthSlots = m
  <2> HIDE DEF j
  <2> QED BY <1>1, <1>3, Quotient
<1> QED BY <1>3, <1>4 DEF Download!MonthOf

\* CloseOf finds the Friday.
LEMMA Closes ==
    ASSUME NEW t \in Nat
    PROVE  /\ Download!CloseOf(t) \in t - 2 .. t + 1 /\ Download!CloseOf(t) % 4 = 3
           /\ t % 4 = 0 => Download!CloseOf(t) = t - 1
<1>1. \E c \in t - 2 .. t + 1 : c % 4 = 3
  <2>1. CASE t % 4 = 0
    <3>1. t - 1 \in t - 2 .. t + 1 /\ (t - 1) % 4 = 3
      BY <2>1, SMTT(30)
    <3> QED BY <3>1
  <2>2. CASE t % 4 = 1
    <3>1. t - 2 \in t - 2 .. t + 1 /\ (t - 2) % 4 = 3
      BY <2>2, SMTT(30)
    <3> QED BY <3>1
  <2>3. CASE t % 4 = 2
    <3>1. t + 1 \in t - 2 .. t + 1 /\ (t + 1) % 4 = 3
      BY <2>3, SMTT(30)
    <3> QED BY <3>1
  <2>4. CASE t % 4 = 3
    BY <2>4
  <2>5. t % 4 \in 0 .. 3
    BY SMTT(30)
  <2> QED BY <2>1, <2>2, <2>3, <2>4, <2>5
<1>2. /\ Download!CloseOf(t) \in t - 2 .. t + 1 /\ Download!CloseOf(t) % 4 = 3
  BY <1>1 DEF Download!CloseOf, Download!Week
<1>3. ASSUME t % 4 = 0 PROVE Download!CloseOf(t) = t - 1
  <2> DEFINE c == Download!CloseOf(t)
  <2>1. c \in t - 2 .. t + 1 /\ c % 4 = 3
    BY <1>2
  <2> HIDE DEF c
  <2>2. c = t - 1
    BY <1>3, <2>1, SMTT(30)
  <2> QED BY <2>2 DEF c
<1> QED BY <1>2, <1>3

LEMMA FetchableIsNow ==
    ASSUME NEW n \in Nat PROVE Download!FetchableEnd(n) = n
<1>1. CASE Download!IsOpen(n)
  BY <1>1 DEF Download!FetchableEnd
<1>2. CASE ~Download!IsOpen(n)
  <2>1. Download!CloseOf(n) = n - 1
    BY <1>2, Closes DEF Download!IsOpen, Download!Week
  <2>2. n - 1 + 1 = n
    OBVIOUS
  <2> QED BY <1>2, <2>1, <2>2 DEF Download!FetchableEnd
<1> QED BY <1>1, <1>2

LEMMA WeekendHasNoTicks ==
    ASSUME NEW p \in Nat, NEW q \in Nat, Download!WeekendGap(p, q),
           NEW t \in Nat, p < t, t < q
    PROVE  ~Download!IsOpen(t)
<1>1. /\ p = Download!CloseOf(p) /\ q = Download!CloseOf(p) + 2
  BY DEF Download!WeekendGap
<1>2. p % 4 = 3 /\ q = p + 2
  BY <1>1, Closes
<1>3. t = p + 1
  BY <1>2
<1>4. t % 4 = 0
  BY <1>2, <1>3, SMTT(30)
<1> QED BY <1>4 DEF Download!IsOpen, Download!Week

-----------------------------------------------------------------------------
(* Files and their holes. *)

\* Below any bound a set has a greatest element.
LEMMA GreatestBelow ==
    ASSUME NEW S \in SUBSET Nat, S # {}, NEW bound \in Nat, \A q \in S : q <= bound
    PROVE  \E x \in S : \A q \in S : q <= x
<1> DEFINE T == {bound - q : q \in S}
<1>1. T \in SUBSET Nat /\ T # {}
  <2>1. \A q \in S : bound - q \in Nat
    OBVIOUS
  <2>2. PICK q \in S : TRUE
    OBVIOUS
  <2>3. bound - q \in T
    OBVIOUS
  <2> QED BY <2>1, <2>3
<1>2. \E z \in T : \A y \in T : z <= y
  <2> HIDE DEF T
  <2> QED BY <1>1, Least
<1>3. PICK x \in S : \A y \in T : bound - x <= y
  BY <1>2
<1>4. ASSUME NEW q \in S PROVE q <= x
  <2>1. bound - q \in T
    OBVIOUS
  <2>2. bound - x <= bound - q
    BY <1>3, <2>1
  <2> QED BY <2>2
<1> QED BY <1>4

LEMMA LastTick ==
    ASSUME NEW m \in Nat, NEW f, f.ticks \subseteq Slots(m), f.ticks # {}
    PROVE  Download!Last(f) \in f.ticks /\ \A q \in f.ticks : q <= Download!Last(f)
<1> DEFINE S == f.ticks
           bound == Download!FirstOf(m + 1)
<1>1. S \in SUBSET Nat /\ S # {} /\ bound \in Nat /\ \A q \in S : q <= bound
  <2>1. /\ Download!FirstOf(m) \in Nat \ {0} /\ MonthSlots \in Nat \ {0}
        /\ bound = Download!FirstOf(m) + MonthSlots
    BY MonthFacts
  <2> HIDE DEF bound
  <2>2. Slots(m) = Download!FirstOf(m) .. bound - 1
    BY DEF Slots, bound
  <2>3. \A q \in Slots(m) : q \in Nat /\ q <= bound
    BY <2>1, <2>2
  <2>4. bound \in Nat
    BY <2>1
  <2> QED BY <2>3, <2>4
<1> HIDE DEF S, bound
<1>2. PICK x \in S : \A q \in S : q <= x
  BY <1>1, GreatestBelow
<1>3. \A q \in S : x >= q
  BY <1>1, <1>2
<1>4. Download!Max(S) \in S /\ \A q \in S : Download!Max(S) >= q
  BY <1>2, <1>3 DEF Download!Max
<1>5. \A q \in S : q <= Download!Max(S)
  BY <1>1, <1>4
<1> QED BY <1>4, <1>5 DEF S, Download!Last

\* An open slot that is missing between two ticks of a file is in a hole.
LEMMA MissingIsHole ==
    ASSUME NEW m \in Nat, NEW f, f.ticks \subseteq Slots(m),
           NEW t \in Nat \ f.ticks, Download!IsOpen(t),
           NEW x \in f.ticks, x < t, NEW y \in f.ticks, t < y
    PROVE  \E p \in Download!Holes(f) : p < t
<1> DEFINE S == f.ticks
           below == {q \in S : q < t}
           above == {q \in S : t < q}
<1>1. S \in SUBSET Nat
  BY MonthPlace
<1>2. PICK p \in below : \A q \in below : q <= p
  <2>1. below \in SUBSET Nat /\ below # {} /\ \A q \in below : q <= t
    BY <1>1
  <2> HIDE DEF below
  <2> QED BY <2>1, GreatestBelow
<1>3. PICK q \in above : \A o \in above : q <= o
  <2>1. above \in SUBSET Nat /\ above # {}
    BY <1>1
  <2> HIDE DEF above
  <2> QED BY <2>1, Least
<1>4. p \in Nat /\ q \in Nat /\ p \in S /\ q \in S /\ p < t /\ t < q
  BY <1>1
<1>5. q > p + 1
  BY <1>4
<1>6. ~Download!WeekendGap(p, q)
  BY <1>4, WeekendHasNoTicks
<1>7. ASSUME NEW o \in S PROVE ~(p < o /\ o < q)
  <2>1. o \in Nat /\ o # t
    BY <1>1
  <2>2. CASE o < t
    BY <1>1, <1>2, <1>4, <2>1, <2>2
  <2>3. CASE t < o
    BY <1>1, <1>3, <1>4, <2>1, <2>3
  <2> QED BY <2>1, <2>2, <2>3
<1>8. p \in Download!Holes(f)
  BY <1>4, <1>5, <1>6, <1>7 DEF Download!Holes
<1> QED BY <1>4, <1>8

\* The first hole is behind a tick, and what is missing up to it is the head.
LEMMA FirstHole ==
    ASSUME NEW m \in Nat, NEW f, f.ticks \subseteq Slots(m),
           Download!Holes(f) # {}
    PROVE  LET h == Download!Min(Download!Holes(f)) IN
           /\ h \in f.ticks /\ \E q \in f.ticks : h < q
           /\ \A t \in Slots(m) :
                 t <= h /\ Download!IsOpen(t) /\ t \notin f.ticks => \A q \in f.ticks : t < q
<1> DEFINE H == Download!Holes(f)
           h == Download!Min(H)
<1>1. f.ticks \in SUBSET Nat /\ H \subseteq f.ticks
  BY MonthPlace DEF Download!Holes
<1>2. h \in H /\ \A p \in H : h <= p
  <2>1. H \in SUBSET Nat /\ H # {}
    BY <1>1
  <2> HIDE DEF H
  <2>2. \E z \in H : \A p \in H : z <= p
    BY <2>1, Least
  <2> QED BY <2>2 DEF Download!Min
<1> HIDE DEF h
<1>3. \E q \in f.ticks : h < q
  <2>1. PICK q \in f.ticks : q > h + 1
    BY <1>2 DEF Download!Holes
  <2> QED BY <1>1, <1>2, <2>1
<1>4. ASSUME NEW t \in Slots(m), t <= h, Download!IsOpen(t), t \notin f.ticks,
             NEW q \in f.ticks
      PROVE  t < q
  <2>1. h \in f.ticks /\ h \in Nat /\ t \in Nat /\ q \in Nat /\ t # h /\ t # q
    BY <1>1, <1>2, <1>4, MonthPlace
  <2>2. CASE q < t
    <3>1. t < h
      BY <1>4, <2>1
    <3>2. PICK p \in H : p < t
      BY <1>4, <2>1, <2>2, <3>1, MissingIsHole
    <3>3. h <= p /\ p \in Nat
      BY <1>1, <1>2
    <3> QED BY <2>1, <3>1, <3>2, <3>3
  <2> QED BY <2>1, <2>2
<1> QED BY <1>1, <1>2, <1>3, <1>4 DEF h

\* In a file without holes everything missing is its head or behind its end.
LEMMA NoHoles ==
    ASSUME NEW m \in Nat, NEW f, f.ticks \subseteq Slots(m), f.ticks # {},
           Download!Holes(f) = {}, NEW t \in Slots(m), Download!IsOpen(t),
           t \notin f.ticks, t <= Download!Last(f)
    PROVE  \A q \in f.ticks : t < q
<1> DEFINE l == Download!Last(f)
<1>1. f.ticks \in SUBSET Nat /\ t \in Nat
  BY MonthPlace
<1>2. l \in f.ticks
  BY LastTick
<1>3. t < l
  BY <1>1, <1>2
<1> HIDE DEF l
<1> SUFFICES ASSUME NEW q \in f.ticks PROVE t < q
  OBVIOUS
<1>4. CASE q < t
  BY <1>1, <1>2, <1>3, <1>4, MissingIsHole
<1>5. q \in Nat /\ q # t
  BY <1>1
<1> QED BY <1>1, <1>4, <1>5

-----------------------------------------------------------------------------
(* The ranges of get_missing_months. *)

LEMMA UntilFacts ==
    ASSUME NEW m \in Nat, NEW end \in Nat
    PROVE  /\ Until(m, end) \in Nat /\ Until(m, end) <= end
           /\ Until(m, end) <= Download!FirstOf(m + 1)
           /\ \A t \in Nat : t < end /\ t < Download!FirstOf(m + 1) => t < Until(m, end)
           /\ \A n \in Nat : end <= n =>
                  Download!Capped(Until(m, end), Download!FetchableEnd(n)) = Until(m, end)
<1>1. Download!FirstOf(m + 1) \in Nat
  BY MonthFacts
<1> DEFINE a == Download!FirstOf(m + 1)
           u == Until(m, end)
<1>2. a \in Nat /\ u = IF a < end THEN a ELSE end
  BY <1>1 DEF Until, Download!Capped
<1> HIDE DEF a, u
<1>3. /\ u \in Nat /\ u <= end /\ u <= a
      /\ \A t \in Nat : t < end /\ t < a => t < u
  BY <1>2
<1>4. ASSUME NEW n \in Nat, end <= n
      PROVE  Download!Capped(u, Download!FetchableEnd(n)) = u
  <2>1. Download!FetchableEnd(n) = n
    BY FetchableIsNow
  <2>2. Download!Capped(u, n) = u
    BY <1>3, <1>4 DEF Download!Capped
  <2> QED BY <2>1, <2>2
<1> QED BY <1>3, <1>4 DEF a, u

\* Where get_missing_months begins in a file.
StartIn(f, m) ==
    IF f.state = "none" THEN Download!FirstOf(m)
    ELSE IF Download!Holes(f) # {} THEN Download!Min(Download!Holes(f)) + 1
    ELSE Download!Last(f) + 1

LEMMA MissingForm ==
    ASSUME NEW m \in Nat, NEW f \in MonthFile, NEW end \in Nat, NEW n \in Nat, end <= n,
           NEW r \in Download!MissingIn(f, m, end, n)
    PROVE  f.state # "torn" /\ r = <<StartIn(f, m), Until(m, end)>>
<1> DEFINE u == Until(m, end)
           c == Download!Capped(u, Download!FetchableEnd(n))
           H == Download!Holes(f)
           current == m >= Download!MonthOf(n)
           R == CASE f.state = "none" -> {<<Download!FirstOf(m), u>>}
                  [] f.state = "torn" -> {}
                  [] f.state = "good" /\ H # {} ->
                         {Download!AfterHole(f, IF current THEN c ELSE u)}
                  [] f.state = "good" /\ H = {} /\ current ->
                         {o \in {<<Download!Last(f) + 1, c>>} : o[1] < Download!FetchableEnd(n)}
                  [] f.state = "good" /\ H = {} /\ ~current ->
                         {o \in {<<Download!Last(f) + 1, u>>} : Download!EndsEarly(f, u)}
<1>1. Download!MissingIn(f, m, end, n) = R
  BY DEF Download!MissingIn, Until
<1>2. c = u
  BY UntilFacts
<1>3. f.state \in {"none", "good", "torn"}
  BY DEF MonthFile
<1>4. Download!AfterHole(f, u) = <<Download!Min(H) + 1, u>>
  BY DEF Download!AfterHole
<1> HIDE DEF u, c, H, current
<1>5. CASE f.state = "none"
  <2>1. R = {<<Download!FirstOf(m), u>>}
    BY <1>5
  <2> QED BY <1>1, <1>5, <2>1 DEF StartIn, u
<1>6. CASE f.state = "torn"
  <2>1. R = {}
    BY <1>6
  <2> QED BY <1>1, <2>1
<1>7. CASE f.state = "good" /\ H # {}
  <2>1. R = {Download!AfterHole(f, IF current THEN c ELSE u)}
    BY <1>7
  <2>2. r = <<Download!Min(H) + 1, u>>
    BY <1>1, <1>2, <1>4, <2>1
  <2> QED BY <1>7, <2>2 DEF StartIn, u, H
<1>8. CASE f.state = "good" /\ H = {} /\ current
  <2>1. R = {o \in {<<Download!Last(f) + 1, c>>} : o[1] < Download!FetchableEnd(n)}
    BY <1>8
  <2>2. r = <<Download!Last(f) + 1, u>>
    BY <1>1, <1>2, <2>1
  <2> QED BY <1>8, <2>2 DEF StartIn, u, H
<1>9. CASE f.state = "good" /\ H = {} /\ ~current
  <2>1. R = {o \in {<<Download!Last(f) + 1, u>>} : Download!EndsEarly(f, u)}
    BY <1>9
  <2>2. r = <<Download!Last(f) + 1, u>>
    BY <1>1, <2>1
  <2> QED BY <1>9, <2>2 DEF StartIn, u, H
<1> QED BY <1>3, <1>5, <1>6, <1>7, <1>8, <1>9

\* What is missing before the start is the head that a fault has cost.
LEMMA BeforeStart ==
    ASSUME NEW m \in Nat, NEW f \in MonthFile, IsFile(f, m), f.state # "torn",
           NEW k \in Nat, k = 0 => HeadedFile(f, m)
    PROVE  /\ StartIn(f, m) \in Nat /\ Download!FirstOf(m) <= StartIn(f, m)
           /\ f.state = "none" => StartIn(f, m) = Download!FirstOf(m)
           /\ \A t \in Slots(m) :
                 t < StartIn(f, m) /\ Download!IsOpen(t) /\ t \notin f.ticks =>
                     LostHead(f, t, k)
<1> DEFINE a == StartIn(f, m)
<1>1. f.ticks \subseteq Slots(m) /\ f.ticks \in SUBSET Nat
      /\ (f.state = "good" <=> f.ticks # {}) /\ f.state \in {"none", "good"}
  BY MonthPlace DEF IsFile, MonthFile
<1>2. Download!FirstOf(m) \in Nat
  BY MonthFacts
<1>3. \A t \in Slots(m) : t \in Nat /\ Download!FirstOf(m) <= t
  <2>1. Download!FirstOf(m + 1) \in Int
    BY MonthFacts
  <2>2. \A t \in Slots(m) : Download!FirstOf(m) <= t
    BY <1>2, <2>1 DEF Slots
  <2> QED BY <2>2, MonthPlace
<1>4. CASE f.state = "none"
  <2>1. a = Download!FirstOf(m)
    BY <1>4 DEF StartIn
  <2>2. \A t \in Slots(m) : ~ t < a
    BY <1>2, <1>3, <2>1
  <2> QED BY <1>2, <2>1, <2>2
<1>5. CASE f.state = "good"
  <2>1. /\ a \in Nat /\ Download!FirstOf(m) <= a
        /\ \A t \in Slots(m) :
              t < a /\ Download!IsOpen(t) /\ t \notin f.ticks => \A q \in f.ticks : t < q
    <3>1. CASE Download!Holes(f) # {}
      <4> DEFINE h == Download!Min(Download!Holes(f))
      <4>1. a = h + 1
        BY <1>5, <3>1 DEF StartIn
      <4>2. /\ h \in f.ticks
            /\ \A t \in Slots(m) :
                  t <= h /\ Download!IsOpen(t) /\ t \notin f.ticks =>
                      \A q \in f.ticks : t < q
        BY <1>1, <3>1, FirstHole
      <4> HIDE DEF h
      <4>3. h \in Nat /\ h \in Slots(m)
        BY <1>1, <4>2
      <4>4. a \in Nat /\ Download!FirstOf(m) <= a
        BY <1>2, <1>3, <4>1, <4>3
      <4>5. \A t \in Slots(m) : t < a => t <= h
        BY <1>3, <4>1, <4>3
      <4> QED BY <4>2, <4>4, <4>5
    <3>2. CASE Download!Holes(f) = {}
      <4> DEFINE l == Download!Last(f)
      <4>1. a = l + 1
        BY <1>5, <3>2 DEF StartIn
      <4>2. l \in f.ticks
        BY <1>1, <1>5, LastTick
      <4>3. \A t \in Slots(m) :
               t <= l /\ Download!IsOpen(t) /\ t \notin f.ticks => \A q \in f.ticks : t < q
        BY <1>1, <1>5, <3>2, NoHoles
      <4> HIDE DEF l
      <4>4. l \in Nat /\ l \in Slots(m)
        BY <1>1, <4>2
      <4>5. a \in Nat /\ Download!FirstOf(m) <= a
        BY <1>2, <1>3, <4>1, <4>4
      <4>6. \A t \in Slots(m) : t < a => t <= l
        BY <1>3, <4>1, <4>4
      <4> QED BY <4>3, <4>5, <4>6
    <3> QED BY <3>1, <3>2
  <2> HIDE DEF a
  <2>2. ASSUME NEW t \in Slots(m), Download!IsOpen(t), \A q \in f.ticks : t < q
        PROVE  k > 0
    <3>1. ASSUME k = 0 PROVE FALSE
      <4>1. PICK q \in f.ticks : q <= t
        BY <1>5, <2>2, <3>1 DEF HeadedFile, Headed
      <4>2. q \in Nat /\ t \in Nat /\ t < q
        BY <1>1, <1>3, <2>2, <4>1
      <4> QED BY <4>1, <4>2
    <3> QED BY <3>1
  <2> QED BY <1>5, <2>1, <2>2 DEF LostHead, a
<1> QED BY <1>1, <1>4, <1>5

LEMMA MissingShape ==
    ASSUME NEW m \in Download!Month, NEW f \in MonthFile, IsFile(f, m),
           NEW end \in Nat, NEW n \in Nat, end <= n,
           NEW k \in Nat, k = 0 => HeadedFile(f, m),
           NEW r \in Download!MissingIn(f, m, end, n), r[1] < r[2]
    PROVE  /\ IsRange(r, end) /\ MonthAt(r) = m /\ Aligned(f, r, k)
           /\ r = <<StartIn(f, m), Until(m, end)>>
           /\ r[1] = Download!FirstOf(m) \/ f.state = "good"
<1> DEFINE a == StartIn(f, m)
           u == Until(m, end)
<1>0. m \in Nat
  BY MonthIsNat
<1>1. f.state # "torn" /\ r = <<a, u>>
  BY <1>0, MissingForm
<1>2. /\ a \in Nat /\ Download!FirstOf(m) <= a
      /\ f.state = "none" => a = Download!FirstOf(m)
      /\ \A t \in Slots(m) :
            t < a /\ Download!IsOpen(t) /\ t \notin f.ticks => LostHead(f, t, k)
  BY <1>0, <1>1, BeforeStart
<1>3. u \in Nat /\ u <= Download!FirstOf(m + 1)
  BY <1>0, UntilFacts
<1>4. Download!FirstOf(m) \in Nat /\ Download!FirstOf(m + 1) \in Nat
  BY <1>0, MonthFacts
<1> HIDE DEF a, u
<1>5. r[1] = a /\ r[2] = u /\ a < u /\ r \in Nat \X Nat
  BY <1>1, <1>2, <1>3
<1>6. a \in Slots(m)
  BY <1>2, <1>3, <1>4, <1>5 DEF Slots
<1>7. MonthAt(r) = m
  BY <1>0, <1>5, <1>6, MonthPlace DEF MonthAt
<1>8. IsRange(r, end)
  BY <1>5, <1>6, <1>7 DEF IsRange, u
<1>9. Aligned(f, r, k)
  BY <1>1, <1>2, <1>5, <1>7 DEF Aligned
<1>10. f.state = "none" \/ f.state = "good"
  BY <1>1 DEF MonthFile
<1> QED BY <1>1, <1>2, <1>5, <1>7, <1>8, <1>9, <1>10 DEF a, u

LEMMA NothingMissing ==
    ASSUME NEW m \in Download!Month, NEW f \in MonthFile, IsFile(f, m),
           NEW end \in Nat, NEW n \in Nat, end <= n,
           NEW k \in Nat, k = 0 => HeadedFile(f, m),
           \A r \in Download!MissingIn(f, m, end, n) : ~ r[1] < r[2]
    PROVE  Settled(f, m, end, k, n)
<1> DEFINE a == StartIn(f, m)
           u == Until(m, end)
           c == Download!Capped(u, Download!FetchableEnd(n))
           H == Download!Holes(f)
           l == Download!Last(f)
<1>0. m \in Nat
  BY MonthIsNat
<1>1. CASE f.state = "torn"
  BY <1>1 DEF Settled
<1>2. CASE f.state # "torn"
  <2> SUFFICES ASSUME NEW t \in Download!Expected(m, end) \ f.ticks
               PROVE  \/ LostHead(f, t, k)
                      \/ /\ f.state = "good" /\ m < Download!MonthOf(n) /\ t > l
                         /\ l >= Download!CloseOf(l)
    BY DEF Settled
  <2>1. t \in Slots(m) /\ Download!IsOpen(t) /\ t < end /\ t \in Nat
    BY <1>0, MonthPlace DEF Download!Expected, Slots
  <2>2. /\ a \in Nat
        /\ t < a => LostHead(f, t, k)
    BY <1>0, <1>2, <2>1, BeforeStart
  <2>3. u \in Nat /\ u <= end /\ c = u
    BY <1>0, UntilFacts
  <2>4. t < u
    <3>1. Download!FirstOf(m) \in Nat /\ Download!FirstOf(m + 1) \in Nat
      BY <1>0, MonthFacts
    <3>2. t < Download!FirstOf(m + 1)
      BY <2>1, <3>1 DEF Slots
    <3> QED BY <1>0, <2>1, <3>2, UntilFacts
  <2> HIDE DEF a, u
  <2>5. CASE ~ a < u
    <3>1. t < a
      BY <2>1, <2>2, <2>3, <2>4, <2>5
    <3> QED BY <2>2, <3>1
  <2>6. CASE a < u
    <3> DEFINE r == <<a, u>>
    <3>1. r[1] = a /\ r[2] = u
      OBVIOUS
    <3> HIDE DEF r
    <3>2. r \notin Download!MissingIn(f, m, end, n)
      BY <2>6, <3>1
    <3>3. CASE f.state = "none"
      <4>1. a = Download!FirstOf(m)
        BY <3>3 DEF a, StartIn
      <4>2. r \in Download!MissingIn(f, m, end, n)
        BY <3>3, <4>1 DEF Download!MissingIn, r, u, Until
      <4> QED BY <3>2, <4>2
    <3>4. CASE f.state = "good" /\ H # {}
      <4>1. a = Download!Min(H) + 1
        BY <3>4 DEF a, StartIn
      <4>2. r = Download!AfterHole(f, u) /\ r = Download!AfterHole(f, c)
        BY <2>3, <4>1 DEF Download!AfterHole, r
      <4>3. r \in Download!MissingIn(f, m, end, n)
        BY <3>4, <4>2 DEF Download!MissingIn, c, u, Until
      <4> QED BY <3>2, <4>3
    <3>5. CASE f.state = "good" /\ H = {} /\ m >= Download!MonthOf(n)
      <4>1. a = l + 1
        BY <3>5 DEF a, StartIn
      <4>2. a < Download!FetchableEnd(n)
        <5>1. Download!FetchableEnd(n) = n
          BY FetchableIsNow
        <5>2. a < n
          BY <2>2, <2>3, <2>6
        <5> QED BY <5>1, <5>2
      <4>3. r = <<l + 1, c>> /\ r[1] < Download!FetchableEnd(n)
        BY <2>3, <3>1, <4>1, <4>2 DEF r
      <4>4. r \in Download!MissingIn(f, m, end, n)
        BY <3>5, <4>3 DEF Download!MissingIn, c, u, Until
      <4> QED BY <3>2, <4>4
    <3>6. CASE f.state = "good" /\ H = {} /\ ~(m >= Download!MonthOf(n))
      <4>1. a = l + 1
        BY <3>6 DEF a, StartIn
      <4>2. r = <<l + 1, u>>
        BY <4>1 DEF r
      <4>3. ~Download!EndsEarly(f, u)
        <5>1. ASSUME Download!EndsEarly(f, u)
              PROVE  r \in Download!MissingIn(f, m, end, n)
          BY <3>6, <4>2, <5>1 DEF Download!MissingIn, u, Until
        <5> QED BY <3>2, <5>1
      <4>4. f.ticks \subseteq Slots(m) /\ f.ticks # {}
        BY <3>6 DEF IsFile
      <4>5. l \in f.ticks
        BY <1>0, <4>4, LastTick
      <4>6. l \in Nat
        BY <1>0, <4>4, <4>5, MonthPlace
      <4>7. m < Download!MonthOf(n)
        BY <1>0, <3>6, MonthsGrow
      <4>8. l >= Download!CloseOf(l)
        <5>1. Download!CloseOf(l) \in Int
          BY <4>6, Closes
        <5>2. ~ l < Download!CloseOf(l)
          BY <2>6, <4>1, <4>3 DEF Download!EndsEarly
        <5> HIDE DEF l
        <5> QED BY <4>6, <5>1, <5>2
      <4> HIDE DEF l
      <4>9. CASE t > l
        BY <3>6, <4>7, <4>8, <4>9
      <4>10. CASE ~ t > l
        <5>1. t < a
          BY <2>1, <4>1, <4>6, <4>10
        <5> QED BY <2>2, <5>1
      <4> QED BY <4>9, <4>10
    <3> QED BY <1>2, <3>3, <3>4, <3>5, <3>6 DEF MonthFile
  <2> QED BY <2>5, <2>6
<1> QED BY <1>1, <1>2

\* process_symbol has the ranges of a symbol's files F.
MissingOf(F, end, n) ==
    {r \in UNION {Download!MissingIn(F[m], m, end, n) :
                     m \in {k \in Download!Month : Download!FirstOf(k) <= end}} :
        r[1] < r[2]}

LEMMA ScannedMonths ==
    ASSUME NEW F \in [Download!Month -> MonthFile],
           \A m \in Download!Month : IsFile(F[m], m),
           NEW end \in Nat, NEW n \in Nat, end <= n,
           NEW k \in Nat, k = 0 => \A m \in Download!Month : HeadedFile(F[m], m)
    PROVE  LET todo == MissingOf(F, end, n) IN
           /\ todo \in SUBSET (Nat \X Nat)
           /\ \A r \in todo : /\ IsRange(r, end) /\ Aligned(F[MonthAt(r)], r, k)
                              /\ \/ r[1] = Download!FirstOf(MonthAt(r))
                                 \/ F[MonthAt(r)].state = "good"
           /\ \A r, o \in todo : MonthAt(r) = MonthAt(o) => r = o
           /\ \A m \in Download!Month :
                 (\E r \in todo : MonthAt(r) = m) \/ Settled(F[m], m, end, k, n)
<1> DEFINE todo == MissingOf(F, end, n)
<1>1. ASSUME NEW r \in todo
      PROVE  /\ IsRange(r, end) /\ Aligned(F[MonthAt(r)], r, k)
             /\ r = <<StartIn(F[MonthAt(r)], MonthAt(r)), Until(MonthAt(r), end)>>
             /\ r[1] = Download!FirstOf(MonthAt(r)) \/ F[MonthAt(r)].state = "good"
  <2>1. PICK m \in Download!Month : r \in Download!MissingIn(F[m], m, end, n)
    BY DEF MissingOf
  <2>2. r[1] < r[2] /\ F[m] \in MonthFile /\ IsFile(F[m], m)
        /\ (k = 0 => HeadedFile(F[m], m))
    BY DEF MissingOf
  <2>3. /\ IsRange(r, end) /\ MonthAt(r) = m /\ Aligned(F[m], r, k)
        /\ r = <<StartIn(F[m], m), Until(m, end)>>
        /\ r[1] = Download!FirstOf(m) \/ F[m].state = "good"
    BY <2>1, <2>2, MissingShape
  <2> QED BY <2>3
<1>2. ASSUME NEW m \in Download!Month, \A r \in todo : MonthAt(r) # m
      PROVE  Settled(F[m], m, end, k, n)
  <2>0. m \in Nat /\ F[m] \in MonthFile /\ IsFile(F[m], m)
        /\ (k = 0 => HeadedFile(F[m], m))
    BY MonthIsNat
  <2>1. CASE Download!FirstOf(m) <= end
    <3>1. ASSUME NEW r \in Download!MissingIn(F[m], m, end, n), r[1] < r[2]
          PROVE  FALSE
      <4>1. r \in todo
        BY <2>1, <3>1 DEF MissingOf
      <4>2. MonthAt(r) = m
        BY <2>0, <3>1, MissingShape
      <4> QED BY <1>2, <4>1, <4>2
    <3> HIDE DEF todo
    <3> QED BY <2>0, <3>1, NothingMissing
  <2>2. CASE ~ Download!FirstOf(m) <= end
    <3>1. Download!FirstOf(m) \in Nat /\ Download!FirstOf(m + 1) \in Nat
      BY <2>0, MonthFacts
    <3>2. Download!Expected(m, end) = {}
      BY <2>2, <3>1 DEF Download!Expected
    <3> QED BY <3>2 DEF Settled
  <2> QED BY <2>1, <2>2
<1> HIDE DEF todo
<1>3. todo \in SUBSET (Nat \X Nat)
  BY <1>1 DEF IsRange
<1>4. \A r, o \in todo : MonthAt(r) = MonthAt(o) => r = o
  <2> SUFFICES ASSUME NEW r \in todo, NEW o \in todo, MonthAt(r) = MonthAt(o)
               PROVE  r = o
    OBVIOUS
  <2>1. /\ r = <<StartIn(F[MonthAt(r)], MonthAt(r)), Until(MonthAt(r), end)>>
        /\ o = <<StartIn(F[MonthAt(o)], MonthAt(o)), Until(MonthAt(o), end)>>
    BY <1>1
  <2> QED BY <2>1
<1> QED BY <1>1, <1>2, <1>3, <1>4 DEF todo

-----------------------------------------------------------------------------
(* What a range brings. *)

LEMMA LostHeadStays ==
    ASSUME NEW f, NEW t, NEW k \in Nat, NEW k2 \in Nat, k <= k2, LostHead(f, t, k)
    PROVE  LostHead(f, t, k2)
BY DEF LostHead

LEMMA SettledStays ==
    ASSUME NEW m \in Nat, NEW f, NEW until \in Nat, NEW k \in Nat, NEW k2 \in Nat, k <= k2,
           NEW n \in Nat, NEW n2 \in Nat, n <= n2, Settled(f, m, until, k, n)
    PROVE  Settled(f, m, until, k2, n2)
<1>1. /\ Download!MonthOf(n) \in Int /\ Download!MonthOf(n2) \in Int
      /\ Download!MonthOf(n) <= Download!MonthOf(n2)
  BY MonthsGrow
<1>2. m < Download!MonthOf(n) => m < Download!MonthOf(n2)
  BY <1>1
<1> QED BY <1>2, LostHeadStays DEF Settled

LEMMA AlignedStays ==
    ASSUME NEW f, NEW r, NEW k \in Nat, NEW k2 \in Nat, k <= k2, Aligned(f, r, k)
    PROVE  Aligned(f, r, k2)
BY LostHeadStays DEF Aligned

LEMMA RangeFacts ==
    ASSUME NEW r, NEW end \in Nat, IsRange(r, end)
    PROVE  /\ MonthAt(r) \in Nat /\ r[1] \in Nat /\ r[2] \in Nat /\ r[2] <= end
           /\ \A t \in r[1] .. r[2] - 1 : t \in Slots(MonthAt(r))
           /\ \A t \in Download!Expected(MonthAt(r), end) :
                 /\ t \in Slots(MonthAt(r)) /\ Download!IsOpen(t) /\ t \in Nat
                 /\ t \in OpenIn(r) \/ t < r[1]
<1> DEFINE m == MonthAt(r)
           a == Download!FirstOf(m)
           b == Download!FirstOf(m + 1)
<1>1. /\ m \in Nat /\ r \in Nat \X Nat /\ r[1] \in Nat /\ r[2] \in Nat
      /\ r[1] \in Slots(m) /\ r[1] < r[2] /\ r[2] = Until(m, end)
  BY MonthIsNat DEF IsRange
<1>2. a \in Nat /\ b \in Nat
  BY <1>1, MonthFacts
<1> HIDE DEF m
<1>3. /\ r[2] <= end /\ r[2] <= b
      /\ \A t \in Nat : t < end /\ t < b => t < r[2]
  BY <1>1, UntilFacts
<1>4. Slots(m) = a .. b - 1
  BY DEF Slots
<1> HIDE DEF a, b
<1>5. \A t \in r[1] .. r[2] - 1 : t \in Slots(m)
  BY <1>1, <1>2, <1>3, <1>4
<1>6. ASSUME NEW t \in Download!Expected(m, end)
      PROVE  /\ t \in Slots(m) /\ Download!IsOpen(t) /\ t \in Nat
             /\ t \in OpenIn(r) \/ t < r[1]
  <2>1. t \in a .. b - 1 /\ Download!IsOpen(t) /\ t < end
    BY DEF Download!Expected, a, b
  <2>2. t \in Nat /\ t < r[2]
    BY <1>2, <1>3, <2>1
  <2>3. ~ t < r[1] => t \in r[1] .. r[2] - 1
    BY <1>1, <2>2
  <2> QED BY <1>4, <2>1, <2>2, <2>3 DEF OpenIn
<1> QED BY <1>1, <1>3, <1>5, <1>6 DEF m

LEMMA WholeRange ==
    ASSUME NEW r, NEW end \in Nat, IsRange(r, end), NEW n \in Nat, end <= n
    PROVE  Download!Available(r, n) = OpenIn(r)
<1>1. r[1] \in Nat /\ r[2] \in Nat /\ r[2] <= n
  BY RangeFacts
<1>2. \A t \in r[1] .. r[2] - 1 : t < n
  BY <1>1
<1> QED BY <1>2 DEF Download!Available, OpenIn

LEMMA FewerExpected ==
    ASSUME NEW m \in Nat, NEW end \in Nat, NEW until \in Nat, until <= end
    PROVE  Download!Expected(m, until) \subseteq Download!Expected(m, end)
<1>1. Download!FirstOf(m) \in Nat /\ Download!FirstOf(m + 1) \in Nat
  BY MonthFacts
<1> QED BY <1>1 DEF Download!Expected

\* Behind a range that is written everything is there; before it nothing changes.
LEMMA FilledMonth ==
    ASSUME NEW r, NEW end \in Nat, IsRange(r, end), NEW f \in MonthFile,
           NEW k \in Nat, NEW n \in Nat, NEW until \in Nat, until <= end,
           Aligned(f, r, k)
    PROVE  Settled(Download!Good(f.ticks \union OpenIn(r)), MonthAt(r), until, k, n)
<1> DEFINE g == Download!Good(f.ticks \union OpenIn(r))
           m == MonthAt(r)
<1>1. g.state = "good" /\ g.ticks = f.ticks \union OpenIn(r)
  BY DEF Download!Good
<1>2. m \in Nat /\ r[1] \in Nat /\ r[2] \in Nat
  BY RangeFacts
<1>3. \A q \in OpenIn(r) : q \in Nat /\ r[1] <= q
  BY <1>2 DEF OpenIn
<1> HIDE DEF g
<1>4. ASSUME NEW t \in Download!Expected(m, until) \ g.ticks PROVE LostHead(g, t, k)
  <2>1. t \in Download!Expected(m, end)
    BY <1>2, FewerExpected
  <2>2. /\ t \in Slots(m) /\ Download!IsOpen(t) /\ t \in Nat
        /\ t \in OpenIn(r) \/ t < r[1]
    BY <2>1, RangeFacts
  <2>3. t < r[1] /\ t \notin f.ticks
    BY <1>1, <1>4, <2>2
  <2>4. LostHead(f, t, k)
    BY <2>2, <2>3 DEF Aligned
  <2>5. ASSUME NEW q \in g.ticks PROVE t < q
    <3>1. CASE q \in f.ticks
      BY <2>4, <3>1 DEF LostHead
    <3>2. CASE q \in OpenIn(r)
      BY <1>2, <1>3, <2>2, <2>3, <3>2
    <3> QED BY <1>1, <3>1, <3>2
  <2> QED BY <1>1, <2>4, <2>5 DEF LostHead
<1> QED BY <1>4 DEF Settled, g

LEMMA EmptyRange ==
    ASSUME NEW r, NEW end \in Nat, IsRange(r, end), NEW f \in MonthFile,
           NEW k \in Nat, NEW n \in Nat, Aligned(f, r, k), OpenIn(r) = {}
    PROVE  Settled(f, MonthAt(r), end, k, n)
<1> SUFFICES ASSUME NEW t \in Download!Expected(MonthAt(r), end) \ f.ticks
             PROVE  LostHead(f, t, k)
  BY DEF Settled
<1>1. t \in Slots(MonthAt(r)) /\ Download!IsOpen(t) /\ t < r[1]
  BY RangeFacts
<1> QED BY <1>1 DEF Aligned

\* A file to which ticks of its month are merged is one.
LEMMA MergedFile ==
    ASSUME NEW r, NEW end \in Nat, IsRange(r, end),
           NEW old \in SUBSET Slots(MonthAt(r)),
           NEW got \in SUBSET OpenIn(r), got # {}
    PROVE  /\ Download!Good(old \union got) \in MonthFile
           /\ IsFile(Download!Good(old \union got), MonthAt(r))
<1>1. MonthAt(r) \in Nat /\ OpenIn(r) \subseteq Slots(MonthAt(r))
  BY RangeFacts DEF OpenIn
<1>2. Slots(MonthAt(r)) \subseteq Nat
  BY <1>1, MonthPlace
<1> QED BY <1>1, <1>2 DEF Download!Good, MonthFile, IsFile

\* A range from the first slot of a month brings its head.
LEMMA HeadOfRange ==
    ASSUME NEW r, NEW end \in Nat, IsRange(r, end), OpenIn(r) # {},
           r[1] = Download!FirstOf(MonthAt(r))
    PROVE  Headed(OpenIn(r), MonthAt(r))
<1>1. r[1] \in Nat /\ r[2] \in Nat /\ MonthAt(r) \in Nat
  BY RangeFacts
<1> SUFFICES ASSUME NEW t \in Slots(MonthAt(r)), Download!IsOpen(t)
             PROVE  \E q \in OpenIn(r) : q <= t
  BY DEF Headed
<1>2. t \in Nat /\ r[1] <= t
  <2>1. Download!FirstOf(MonthAt(r)) \in Nat /\ Download!FirstOf(MonthAt(r) + 1) \in Nat
    BY <1>1, MonthFacts
  <2>2. r[1] <= t
    BY <2>1 DEF Slots
  <2> QED BY <1>1, <2>2, MonthPlace
<1>3. CASE t < r[2]
  <2>1. t \in OpenIn(r)
    BY <1>1, <1>2, <1>3 DEF OpenIn
  <2>2. t <= t
    BY <1>2
  <2> QED BY <2>1, <2>2
<1>4. CASE ~ t < r[2]
  <2>1. PICK q \in OpenIn(r) : TRUE
    OBVIOUS
  <2>2. q \in r[1] .. r[2] - 1
    BY DEF OpenIn
  <2>3. q <= t
    BY <1>1, <1>2, <1>4, <2>2
  <2> QED BY <2>3
<1> QED BY <1>3, <1>4

LEMMA HeadedGrows ==
    ASSUME NEW S, NEW T, S \subseteq T, NEW m, Headed(S, m)
    PROVE  Headed(T, m)
BY DEF Headed

\* The range a process turns to is one of its own.
LEMMA NextIsOne ==
    ASSUME NEW todo \in SUBSET (Nat \X Nat), todo # {}
    PROVE  NextOf(todo) \in todo
<1> DEFINE S == {r[1] : r \in todo}
<1>1. S \in SUBSET Nat /\ S # {}
  OBVIOUS
<1>2. \E x \in S : \A y \in S : x <= y
  <2> HIDE DEF S
  <2> QED BY <1>1, Least
<1>3. \E r \in todo : \A o \in todo : r[1] <= o[1]
  BY <1>2
<1> QED BY <1>3 DEF NextOf

-----------------------------------------------------------------------------
(* A step of one process, as the others and their files see it. *)

LEMMA RunType ==
    ASSUME DownloadType, NEW p \in Proc
    PROVE  /\ SymbolOf[p] \in Symbol /\ proc[p] \in Downloader
           /\ file[SymbolOf[p]] \in [Download!Month -> MonthFile]
           /\ done[SymbolOf[p]] \in Nat
BY DownloadConstants DEF DownloadType

StepOf(p) ==
    /\ now' = now /\ faults' \in Nat /\ faults <= faults'
    /\ \A q \in Proc \ {p} : proc'[q] = proc[q]
    /\ \A s \in Symbol \ {SymbolOf[p]} : file'[s] = file[s] /\ done'[s] = done[s]
    /\ Download!Working(p)' => Download!Working(p)
    /\ Download!Working(p) \/ (file' = file /\ done' = done)
    /\ Honest(p) \/ done'[SymbolOf[p]] \in {done[SymbolOf[p]], 0}
    /\ faults' = 0 => \A m \in Download!Month :
           file[SymbolOf[p]][m].state = "good" => file'[SymbolOf[p]][m].state = "good"

LEMMA OtherRuns ==
    ASSUME DownloadInv, NEW p \in Proc, StepOf(p), NEW q \in Proc \ {p}
    PROVE  RunOK(q)'
<1> DEFINE x == proc[q]
           s == SymbolOf[q]
           F == file[s]
           G == file'[s]
<1>1. /\ q \in Proc /\ s \in Symbol /\ x \in Downloader /\ proc'[q] = x /\ now' = now
      /\ faults \in Nat /\ faults' \in Nat /\ faults <= faults' /\ now \in Nat
  BY RunType DEF DownloadInv, DownloadType, StepOf
<1>2. /\ RunShape(x, now)
      /\ faults = 0 => HeadedRun(x, F)
      /\ Honest(q) => /\ Download!Rivals(q) = {} /\ done[s] <= x.end
                      /\ HonestRun(x, F, faults)
      /\ x.clean /\ x.pc \in {"fill", "write"} => ScannedRun(x, F, faults, now)
  BY DEF DownloadInv, RunOK
<1>3. Download!Working(q)' <=> Download!Working(q)
  BY <1>1 DEF Download!Working
<1>4. ASSUME faults' = 0 PROVE HeadedRun(x, G)
  <2>1. faults = 0
    BY <1>1, <1>4
  <2>2. \A m \in Download!Month : F[m].state = "good" => G[m].state = "good"
    BY <1>1, <1>4 DEF StepOf
  <2>3. \A r \in x.todo : MonthAt(r) \in Download!Month
    BY <1>2 DEF RunShape, IsRange
  <2> QED BY <1>2, <2>1, <2>2, <2>3 DEF HeadedRun
<1>5. ASSUME Download!Working(q), x.clean \/ done'[s] # 0
      PROVE  /\ Honest(q) /\ G = F /\ done'[s] = done[s]
             /\ Download!Rivals(q)' = {}
  <2>1. Honest(p) => SymbolOf[p] # s
    <3> SUFFICES ASSUME Honest(p), SymbolOf[p] = s PROVE FALSE
      OBVIOUS
    <3>1. Download!Rivals(p) = {}
      BY DEF DownloadInv, RunOK
    <3>2. q \in Download!Rivals(p)
      BY <1>5 DEF Download!Rivals
    <3> QED BY <3>1, <3>2
  <2>2. done'[s] = done[s] \/ done'[s] = 0
    BY <1>1, <2>1 DEF StepOf
  <2>3. Honest(q)
    BY <1>5, <2>2 DEF Honest
  <2>4. Download!Rivals(q) = {}
    BY <1>2, <2>3
  <2>5. Download!Working(p) => SymbolOf[p] # s
    BY <2>4 DEF Download!Rivals
  <2>6. G = F /\ done'[s] = done[s]
    BY <1>1, <2>5 DEF StepOf
  <2>7. ASSUME NEW o \in Proc \ {q}, Download!Working(o)', SymbolOf[o] = s
        PROVE  FALSE
    <3>1. CASE o = p
      BY <2>5, <2>7, <3>1 DEF StepOf
    <3>2. CASE o # p
      <4>1. proc'[o] = proc[o]
        BY <3>2 DEF StepOf
      <4>2. Download!Working(o)
        BY <2>7, <4>1 DEF Download!Working
      <4> QED BY <2>4, <2>7, <4>2 DEF Download!Rivals
    <3> QED BY <3>1, <3>2
  <2>8. Download!Rivals(q)' = {}
    BY <2>7 DEF Download!Rivals
  <2> QED BY <2>3, <2>6, <2>8
<1>6. ASSUME Honest(q)'
      PROVE  /\ Download!Rivals(q)' = {} /\ done'[s] <= x.end
             /\ HonestRun(x, G, faults')
  <2>1. Download!Working(q) /\ (x.clean \/ done'[s] # 0)
    BY <1>1, <1>3, <1>6 DEF Honest
  <2>2. Honest(q) /\ G = F /\ done'[s] = done[s] /\ Download!Rivals(q)' = {}
    BY <1>5, <2>1
  <2>3. done[s] <= x.end /\ HonestRun(x, F, faults)
    BY <1>2, <2>2
  <2>4. HonestRun(x, F, faults')
    BY <1>1, <2>3, AlignedStays DEF HonestRun
  <2> QED BY <2>2, <2>3, <2>4
<1>7. ASSUME x.clean, x.pc \in {"fill", "write"}
      PROVE  ScannedRun(x, G, faults', now)
  <2>1. Download!Working(q)
    BY <1>7 DEF Download!Working
  <2>2. G = F
    BY <1>5, <1>7, <2>1
  <2>3. x.end \in Nat
    BY <1>1 DEF Downloader
  <2>4. \A m \in Download!Month :
           Settled(F[m], m, x.end, faults, now) => Settled(F[m], m, x.end, faults', now)
    <3>1. now <= now
      BY <1>1
    <3> QED BY <1>1, <2>3, <3>1, SettledStays, MonthIsNat
  <2> QED BY <1>2, <1>7, <2>2, <2>4 DEF ScannedRun
<1>8. RunShape(proc'[q], now') /\ (faults' = 0 => HeadedRun(proc'[q], G))
  BY <1>1, <1>2, <1>4
<1>9. /\ proc'[q].clean /\ proc'[q].pc \in {"fill", "write"} =>
            ScannedRun(proc'[q], G, faults', now')
      /\ Honest(q)' => /\ Download!Rivals(q)' = {} /\ done'[s] <= proc'[q].end
                       /\ HonestRun(proc'[q], G, faults')
  BY <1>1, <1>6, <1>7
<1> QED BY <1>8, <1>9 DEF RunOK

LEMMA SameFiles ==
    ASSUME DownloadInv, file' = file, now' \in Nat, now <= now',
           faults' \in Nat, faults <= faults',
           \A s \in Symbol : done'[s] = done[s] \/ done'[s] = 0
    PROVE  FilesOK' /\ DoneSettled'
<1>1. now \in Nat /\ faults \in Nat /\ done \in [Symbol -> Nat]
      /\ (faults' = 0 => faults = 0)
  BY DEF DownloadInv, DownloadType
<1>2. FilesOK'
  BY <1>1 DEF DownloadInv, FilesOK
<1>3. ASSUME NEW s \in Symbol
      PROVE  /\ done'[s] <= now'
             /\ done'[s] # 0 =>
                  \A m \in Download!Month :
                      Settled(file'[s][m], m, done'[s], faults', now')
  <2>1. CASE done'[s] = 0
    BY <2>1
  <2>2. CASE done'[s] = done[s] /\ done[s] # 0
    <3>1. done[s] \in Nat /\ done[s] <= now
          /\ \A m \in Download!Month : Settled(file[s][m], m, done[s], faults, now)
      BY <1>1, <2>2 DEF DownloadInv, DoneSettled
    <3>2. done'[s] <= now'
      BY <1>1, <2>2, <3>1
    <3>3. ASSUME NEW m \in Download!Month
          PROVE  Settled(file[s][m], m, done[s], faults', now')
      <4>1. m \in Nat /\ Settled(file[s][m], m, done[s], faults, now)
        BY <3>1, MonthIsNat
      <4> QED BY <1>1, <3>1, <4>1, SettledStays
    <3> QED BY <2>2, <3>2, <3>3
  <2> QED BY <2>1, <2>2
<1> QED BY <1>2, <1>3 DEF DoneSettled

LEMMA GoesTo ==
    ASSUME DownloadType, NEW p \in Proc, NEW x \in Downloader, Download!Goes(p, x)
    PROVE  /\ proc' \in [Proc -> Downloader] /\ proc'[p] = x
           /\ \A q \in Proc \ {p} : proc'[q] = proc[q]
           /\ Download!Working(p)' <=> x.pc \in {"scan", "fill", "write"}
<1>1. proc \in [Proc -> Downloader] /\ proc' = [proc EXCEPT ![p] = x]
  BY DEF DownloadType, Download!Goes
<1>2. proc'[p] = x
  BY <1>1
<1> QED BY <1>1, <1>2 DEF Download!Working

LEMMA OneSteps ==
    ASSUME DownloadInv, NEW p \in Proc, StepOf(p), RunOK(p)',
           DownloadType', FilesOK', DoneSettled'
    PROVE  DownloadInv'
<1>1. \A q \in Proc : RunOK(q)'
  BY OtherRuns
<1> QED BY <1>1 DEF DownloadInv

\* A process that does not work, or no longer.
LEMMA StepsAside ==
    ASSUME DownloadInv, NEW p \in Proc, NEW x \in Downloader, Download!Goes(p, x),
           x.pc \notin {"scan", "fill", "write"}, x.end <= now,
           x.todo = {},
           UNCHANGED <<now, file, done>>,
           faults' \in Nat, faults <= faults'
    PROVE  DownloadInv'
<1>1. DownloadType /\ RunOK(p)
  BY DEF DownloadInv
<1>2. /\ proc' \in [Proc -> Downloader] /\ proc'[p] = x
      /\ \A q \in Proc \ {p} : proc'[q] = proc[q]
      /\ ~Download!Working(p)'
  BY <1>1, GoesTo
<1>3. DownloadType'
  BY <1>1, <1>2 DEF DownloadType
<1>4. StepOf(p)
  BY <1>1, <1>2 DEF StepOf, DownloadType
<1>5. FilesOK' /\ DoneSettled'
  <2>1. now' \in Nat /\ now <= now'
    BY <1>1 DEF DownloadType
  <2> QED BY <2>1, SameFiles
<1>6. RunOK(p)'
  <2>1. RunShape(x, now)
    BY <1>1 DEF RunOK, RunShape
  <2>2. faults' = 0 => HeadedRun(x, file[SymbolOf[p]])
    <3>1. faults' = 0 => faults = 0
      BY <1>1 DEF DownloadType
    <3> QED BY <1>1, <3>1 DEF RunOK, HeadedRun
  <2>3. ~Honest(p)'
    BY <1>2 DEF Honest
  <2> QED BY <1>2, <2>1, <2>2, <2>3 DEF RunOK
<1> QED BY <1>3, <1>4, <1>5, <1>6, OneSteps

LEMMA DownloadInit == Download!Init => DownloadInv
<1> SUFFICES ASSUME Download!Init PROVE DownloadInv
  OBVIOUS
<1>1. /\ now = 1 /\ faults = 0
      /\ file = [s \in Symbol |-> [m \in Download!Month |-> Download!NoFile]]
      /\ proc = [p \in Proc |-> Download!Idle]
      /\ done = [s \in Symbol |-> 0]
  BY DEF Download!Init
<1>2. Download!NoFile \in MonthFile /\ Download!Idle \in Downloader
  BY DEF Download!NoFile, Download!Idle, MonthFile, Downloader
<1>3. DownloadType
  BY <1>1, <1>2 DEF DownloadType
<1>4. FilesOK
  BY <1>1 DEF FilesOK, IsFile, HeadedFile, Download!NoFile
<1>5. ASSUME NEW p \in Proc PROVE RunOK(p)
  <2>1. proc[p] = Download!Idle
    BY <1>1
  <2>2. /\ proc[p].pc = "off" /\ proc[p].todo = {} /\ proc[p].end = 0
        /\ proc[p].clean = FALSE
    BY <2>1 DEF Download!Idle
  <2>3. ~Honest(p)
    BY <2>2 DEF Honest, Download!Working
  <2>4. RunShape(proc[p], now)
    BY <1>1, <2>2 DEF RunShape
  <2>5. HeadedRun(proc[p], file[SymbolOf[p]])
    BY <2>2 DEF HeadedRun
  <2> QED BY <2>2, <2>3, <2>4, <2>5 DEF RunOK
<1>6. DoneSettled
  BY <1>1 DEF DoneSettled
<1> QED BY <1>3, <1>4, <1>5, <1>6 DEF DownloadInv

LEMMA DownloadAside ==
    ASSUME DownloadInv, NEW p \in Proc,
           \/ Download!Launch(p) \/ Download!Check(p) \/ Download!Unlink(p)
           \/ Download!Interrupt(p)
    PROVE  DownloadInv'
<1> DEFINE y == proc[p]
<1>0. y.pc \in {"check", "stale"} => y.todo = {}
  BY DEF DownloadInv, RunOK, RunShape
<1>1. /\ DownloadType /\ y \in Downloader /\ y.end <= now /\ now \in Nat
      /\ faults \in Nat /\ faults <= faults
  BY RunType DEF DownloadInv, DownloadType, RunOK, RunShape
<1>2. /\ Download!Idle \in Downloader /\ Download!Idle.end = 0
      /\ Download!Idle.todo = {} /\ Download!Idle.pc = "off"
  BY DEF Download!Idle, Downloader
<1>3. CASE Download!Launch(p)
  <2>1. PICK forced \in BOOLEAN, listed \in BOOLEAN :
           Download!Goes(p, [Download!Idle EXCEPT !.pc = "check", !.forced = forced,
                                                  !.listed = listed])
    BY <1>3 DEF Download!Launch
  <2> DEFINE x == [Download!Idle EXCEPT !.pc = "check", !.forced = forced,
                                        !.listed = listed]
  <2>2. x \in Downloader /\ x.pc = "check" /\ x.end = 0 /\ x.todo = {}
    BY DEF Download!Idle, Downloader
  <2>3. UNCHANGED <<now, file, lock, faults, done>>
    BY <1>3 DEF Download!Launch
  <2> HIDE DEF x
  <2>4. Download!Goes(p, x) /\ x.end <= now
    BY <1>1, <2>1, <2>2 DEF x
  <2> QED BY <1>1, <2>2, <2>3, <2>4, StepsAside
<1>4. ASSUME NEW pc \in {"clear", "stale"}, NEW forced \in BOOLEAN,
             Download!Goes(p, [y EXCEPT !.pc = pc, !.forced = forced]),
             y.pc \in {"check", "stale"}, UNCHANGED <<now, file, faults, done>>
      PROVE  DownloadInv'
  <2> DEFINE x == [y EXCEPT !.pc = pc, !.forced = forced]
  <2>1. /\ x \in Downloader /\ x.pc \notin {"scan", "fill", "write"} /\ x.end = y.end
        /\ x.todo = {}
    BY <1>0, <1>1, <1>4 DEF Downloader
  <2>2. Download!Goes(p, x) /\ x.end <= now
    BY <1>1, <1>4, <2>1
  <2> HIDE DEF x
  <2> QED BY <1>1, <1>4, <2>1, <2>2, StepsAside
<1>5. ASSUME NEW pc \in {"off", "refused"},
             Download!Goes(p, [Download!Idle EXCEPT !.pc = pc]),
             UNCHANGED <<now, file, faults, done>>
      PROVE  DownloadInv'
  <2> DEFINE x == [Download!Idle EXCEPT !.pc = pc]
  <2>1. /\ x \in Downloader /\ x.pc \notin {"scan", "fill", "write"} /\ x.end = 0
        /\ x.todo = {}
    BY DEF Download!Idle, Downloader
  <2>2. Download!Goes(p, x) /\ x.end <= now
    BY <1>1, <1>5, <2>1
  <2> HIDE DEF x
  <2> QED BY <1>1, <1>5, <2>1, <2>2, StepsAside
<1>6. CASE Download!Check(p)
  <2>1. UNCHANGED <<now, file, lock, faults, done>> /\ y.pc \in {"check", "stale"}
    BY <1>6 DEF Download!Check
  <2>2. CASE Download!Goes(p, [y EXCEPT !.pc = "clear", !.forced = FALSE])
    BY <1>4, <2>1, <2>2
  <2>3. CASE Download!Goes(p, [y EXCEPT !.pc = "stale"])
    <3>1. [y EXCEPT !.pc = "stale"] = [y EXCEPT !.pc = "stale", !.forced = y.forced]
          /\ y.forced \in BOOLEAN
      BY <1>1 DEF Downloader
    <3>2. Download!Goes(p, [y EXCEPT !.pc = "stale", !.forced = y.forced])
      BY <2>3, <3>1
    <3> HIDE DEF y
    <3> QED BY <1>4, <2>1, <3>1, <3>2
  <2>4. CASE Download!Goes(p, [Download!Idle EXCEPT !.pc = "refused"])
    BY <1>5, <2>1, <2>4
  <2> QED BY <1>6, <2>2, <2>3, <2>4 DEF Download!Check
<1>7. CASE Download!Unlink(p)
  <2>1. UNCHANGED <<now, file, faults, done>> /\ y.pc \in {"check", "stale"}
    BY <1>7 DEF Download!Unlink
  <2>2. CASE Download!Goes(p, [y EXCEPT !.pc = "clear"])
    <3>1. [y EXCEPT !.pc = "clear"] = [y EXCEPT !.pc = "clear", !.forced = y.forced]
          /\ y.forced \in BOOLEAN
      BY <1>1 DEF Downloader
    <3>2. Download!Goes(p, [y EXCEPT !.pc = "clear", !.forced = y.forced])
      BY <2>2, <3>1
    <3> HIDE DEF y
    <3> QED BY <1>4, <2>1, <3>1, <3>2
  <2>3. CASE Download!Goes(p, [Download!Idle EXCEPT !.pc = "refused"])
    BY <1>5, <2>1, <2>3
  <2> QED BY <1>7, <2>2, <2>3 DEF Download!Unlink
<1>8. CASE Download!Interrupt(p)
  <2>1. UNCHANGED <<now, file, faults, done>> /\ Download!Goes(p, Download!Idle)
    BY <1>8 DEF Download!Interrupt
  <2> QED BY <1>1, <1>2, <2>1, StepsAside
<1> QED BY <1>3, <1>6, <1>7, <1>8

LEMMA DownloadClock ==
    ASSUME DownloadInv, Download!Clock
    PROVE  DownloadInv'
<1>1. /\ now' = now + 1 /\ UNCHANGED <<file, proc, faults, done>>
      /\ now \in Nat /\ faults \in Nat /\ DownloadType
  BY DEF Download!Clock, DownloadInv, DownloadType
<1>2. now' \in Nat /\ now <= now' /\ faults <= faults
  BY <1>1
<1>3. FilesOK' /\ DoneSettled'
  <2>1. faults' \in Nat /\ faults <= faults' /\ \A s \in Symbol : done'[s] = done[s]
    BY <1>1, <1>2
  <2> QED BY <1>1, <1>2, <2>1, SameFiles
<1>4. ASSUME NEW p \in Proc PROVE RunOK(p)'
  <2> DEFINE x == proc[p]
             F == file[SymbolOf[p]]
  <2>1. x \in Downloader /\ x.end \in Nat
    BY <1>1 DEF DownloadType, Downloader
  <2>2. /\ RunShape(x, now)
        /\ faults = 0 => HeadedRun(x, F)
        /\ Honest(p) => /\ Download!Rivals(p) = {} /\ done[SymbolOf[p]] <= x.end
                        /\ HonestRun(x, F, faults)
        /\ x.clean /\ x.pc \in {"fill", "write"} => ScannedRun(x, F, faults, now)
    BY DEF DownloadInv, RunOK
  <2>3. RunShape(x, now')
    BY <1>1, <1>2, <2>1, <2>2 DEF RunShape
  <2>4. (Honest(p)' <=> Honest(p)) /\ Download!Rivals(p)' = Download!Rivals(p)
    BY <1>1 DEF Honest, Download!Rivals, Download!Working
  <2>5. ScannedRun(x, F, faults, now) => ScannedRun(x, F, faults, now')
    <3>1. \A m \in Download!Month :
             Settled(F[m], m, x.end, faults, now) => Settled(F[m], m, x.end, faults, now')
      BY <1>1, <1>2, <2>1, SettledStays, MonthIsNat
    <3> QED BY <3>1 DEF ScannedRun
  <2> QED BY <1>1, <2>2, <2>3, <2>4, <2>5 DEF RunOK
<1>5. DownloadType'
  BY <1>1, <1>2 DEF DownloadType
<1> QED BY <1>3, <1>4, <1>5 DEF DownloadInv

\* A step of a working process that leaves the files alone.
LEMMA KeepsFiles ==
    ASSUME DownloadInv, NEW p \in Proc, Download!Working(p),
           NEW x \in Downloader, Download!Goes(p, x), x.pc \in {"scan", "fill", "write"},
           x.end = proc[p].end, x.clean => proc[p].clean,
           UNCHANGED <<now, file>>, faults' \in Nat, faults <= faults',
           done' = done \/ done' = [done EXCEPT ![SymbolOf[p]] = 0],
           RunShape(x, now), faults' = 0 => HeadedRun(x, file[SymbolOf[p]]),
           (x.clean \/ done'[SymbolOf[p]] # 0) /\ Honest(p) =>
               HonestRun(x, file[SymbolOf[p]], faults'),
           x.clean /\ x.pc \in {"fill", "write"} =>
               ScannedRun(x, file[SymbolOf[p]], faults', now)
    PROVE  DownloadInv'
<1> DEFINE s == SymbolOf[p]
<1>1. DownloadType /\ RunOK(p)
  BY DEF DownloadInv
<1>2. /\ proc' \in [Proc -> Downloader] /\ proc'[p] = x
      /\ \A q \in Proc \ {p} : proc'[q] = proc[q]
  BY <1>1, GoesTo
<1>3. /\ s \in Symbol /\ done' \in [Symbol -> Nat]
      /\ done'[s] = done[s] \/ done'[s] = 0
      /\ \A o \in Symbol \ {s} : done'[o] = done[o]
  <2>1. s \in Symbol /\ done \in [Symbol -> Nat]
    BY <1>1, RunType DEF DownloadType
  <2> HIDE DEF s
  <2>2. CASE done' = done
    BY <2>1, <2>2
  <2>3. CASE done' = [done EXCEPT ![s] = 0]
    BY <2>1, <2>3
  <2> QED BY <2>2, <2>3 DEF s
<1>4. DownloadType'
  BY <1>1, <1>2, <1>3 DEF DownloadType
<1>5. StepOf(p)
  BY <1>1, <1>2, <1>3 DEF StepOf, DownloadType
<1>6. FilesOK' /\ DoneSettled'
  <2>1. now' \in Nat /\ now <= now'
    BY <1>1 DEF DownloadType
  <2>2. \A o \in Symbol : done'[o] = done[o] \/ done'[o] = 0
    BY <1>3
  <2> QED BY <2>1, <2>2, SameFiles
<1>7. RunOK(p)'
  <2>1. ASSUME Honest(p)'
        PROVE  /\ Download!Rivals(p)' = {} /\ done'[s] <= x.end
               /\ HonestRun(x, file[s], faults')
    <3>1. x.clean \/ done'[s] # 0
      BY <1>2, <2>1 DEF Honest
    <3>2. Honest(p) /\ (done'[s] # 0 => done'[s] = done[s])
      BY <1>3, <3>1 DEF Honest
    <3>3. Download!Rivals(p) = {} /\ done[s] <= x.end
      BY <1>1, <3>2 DEF RunOK
    <3>4. Download!Rivals(p)' = {}
      <4>1. \A q \in Proc \ {p} : Download!Working(q)' <=> Download!Working(q)
        BY <1>2 DEF Download!Working
      <4> QED BY <3>3, <4>1 DEF Download!Rivals
    <3>5. x.end \in Nat
      BY DEF Downloader
    <3>6. done'[s] <= x.end
      BY <1>3, <3>2, <3>3, <3>5
    <3> QED BY <3>1, <3>2, <3>4, <3>6
  <2> QED BY <1>2, <2>1 DEF RunOK
<1> QED BY <1>4, <1>5, <1>6, <1>7, OneSteps

LEMMA DownloadScan ==
    ASSUME DownloadInv, NEW p \in Proc, Download!Scan(p)
    PROVE  DownloadInv'
<1> DEFINE y == proc[p]
           F == file[SymbolOf[p]]
           todo == MissingOf(F, y.end, now)
           x == [y EXCEPT !.pc = "fill", !.todo = todo]
<1>1. /\ y \in Downloader /\ y.end \in Nat /\ y.end <= now /\ now \in Nat
      /\ faults \in Nat /\ faults <= faults /\ F \in [Download!Month -> MonthFile]
  BY RunType DEF DownloadInv, DownloadType, RunOK, RunShape, Downloader
<1>2. /\ \A m \in Download!Month : IsFile(F[m], m)
      /\ faults = 0 => \A m \in Download!Month : HeadedFile(F[m], m)
  BY RunType DEF DownloadInv, FilesOK
<1>3. /\ todo \in SUBSET (Nat \X Nat)
      /\ \A r \in todo : /\ IsRange(r, y.end) /\ Aligned(F[MonthAt(r)], r, faults)
                         /\ \/ r[1] = Download!FirstOf(MonthAt(r))
                            \/ F[MonthAt(r)].state = "good"
      /\ \A r, o \in todo : MonthAt(r) = MonthAt(o) => r = o
      /\ \A m \in Download!Month :
            (\E r \in todo : MonthAt(r) = m) \/ Settled(F[m], m, y.end, faults, now)
  <2> HIDE DEF y, F
  <2> QED BY <1>1, <1>2, ScannedMonths
<1>4. /\ Download!Goes(p, x) /\ y.pc = "scan"
      /\ UNCHANGED <<now, file, lock, faults, done>>
  BY DEF Download!Scan, Download!Missing, MissingOf
<1> HIDE DEF todo
<1>5. /\ x \in Downloader /\ x.pc = "fill" /\ x.todo = todo /\ x.end = y.end
      /\ x.clean = y.clean
  BY <1>1, <1>3 DEF Downloader
<1> HIDE DEF x
<1>6. RunShape(x, now)
  BY <1>1, <1>3, <1>5 DEF RunShape
<1>7. HeadedRun(x, F)
  BY <1>3, <1>5 DEF HeadedRun
<1>8. HonestRun(x, F, faults)
  BY <1>3, <1>5 DEF HonestRun
<1>9. ScannedRun(x, F, faults, now)
  BY <1>3, <1>5 DEF ScannedRun
<1>10. Download!Working(p)
  BY <1>4 DEF Download!Working
<1> QED BY <1>1, <1>4, <1>5, <1>6, <1>7, <1>8, <1>9, <1>10, KeepsFiles

LEMMA NextRangeFacts ==
    ASSUME DownloadInv, NEW p \in Proc, proc[p].todo # {}
    PROVE  LET r == Download!NextRange(p) IN
           /\ r = NextOf(proc[p].todo) /\ r \in proc[p].todo
           /\ IsRange(r, proc[p].end) /\ MonthAt(r) \in Download!Month
           /\ proc[p].end \in Nat /\ proc[p].end <= now /\ now \in Nat
           /\ Download!Available(r, now) = OpenIn(r)
           /\ Download!FileOf(p) = file[SymbolOf[p]][MonthAt(r)]
           /\ file[SymbolOf[p]][MonthAt(r)] \in MonthFile
           /\ IsFile(file[SymbolOf[p]][MonthAt(r)], MonthAt(r))
<1> DEFINE r == Download!NextRange(p)
<1>1. r = NextOf(proc[p].todo)
  BY DEF Download!NextRange, NextOf
<1>2. /\ proc[p] \in Downloader /\ SymbolOf[p] \in Symbol /\ now \in Nat
      /\ file[SymbolOf[p]] \in [Download!Month -> MonthFile]
  BY RunType DEF DownloadInv, DownloadType
<1>3. proc[p].todo \in SUBSET (Nat \X Nat) /\ proc[p].end \in Nat
  BY <1>2 DEF Downloader
<1> HIDE DEF r
<1>4. r \in proc[p].todo
  BY <1>1, <1>3, NextIsOne
<1>5. proc[p].end <= now /\ IsRange(r, proc[p].end)
  BY <1>4 DEF DownloadInv, RunOK, RunShape
<1>6. MonthAt(r) \in Download!Month
  BY <1>5 DEF IsRange
<1>7. Download!Available(r, now) = OpenIn(r)
  BY <1>2, <1>3, <1>5, WholeRange
<1>8. Download!FileOf(p) = file[SymbolOf[p]][MonthAt(r)]
  BY DEF Download!FileOf, MonthAt, r
<1>9. IsFile(file[SymbolOf[p]][MonthAt(r)], MonthAt(r))
  BY <1>2, <1>6 DEF DownloadInv, FilesOK
<1> QED BY <1>1, <1>2, <1>3, <1>4, <1>5, <1>6, <1>7, <1>8, <1>9 DEF r

\* What RunOK says of a process, in the terms of its record and its files.
LEMMA RunFacts ==
    ASSUME DownloadInv, NEW p \in Proc
    PROVE  /\ proc[p] \in Downloader /\ proc[p].end \in Nat /\ SymbolOf[p] \in Symbol
           /\ file[SymbolOf[p]] \in [Download!Month -> MonthFile]
           /\ now \in Nat /\ faults \in Nat /\ DownloadType
           /\ RunShape(proc[p], now)
           /\ faults = 0 => HeadedRun(proc[p], file[SymbolOf[p]])
           /\ Honest(p) => HonestRun(proc[p], file[SymbolOf[p]], faults)
           /\ proc[p].clean /\ proc[p].pc \in {"fill", "write"} =>
                  ScannedRun(proc[p], file[SymbolOf[p]], faults, now)
<1>1. proc[p] \in Downloader
  BY RunType DEF DownloadInv
<1>2. proc[p].end \in Nat
  BY <1>1 DEF Downloader
<1> QED BY <1>1, <1>2, RunType DEF DownloadInv, DownloadType, RunOK

LEMMA DownloadNothingNew ==
    ASSUME DownloadInv, NEW p \in Proc, Download!NothingNew(p)
    PROVE  DownloadInv'
<1> DEFINE y == proc[p]
           F == file[SymbolOf[p]]
           r == Download!NextRange(p)
           todo == y.todo \ {r}
           x == [y EXCEPT !.todo = todo,
                          !.clean = @ /\ Download!Available(r, now) = {}]
<1>1. /\ y \in Downloader /\ y.end \in Nat /\ now \in Nat /\ faults \in Nat
      /\ RunShape(y, now) /\ (faults = 0 => HeadedRun(y, F))
      /\ Honest(p) => HonestRun(y, F, faults)
      /\ y.clean /\ y.pc \in {"fill", "write"} => ScannedRun(y, F, faults, now)
  BY RunFacts
<1>2. /\ y.pc = "fill" /\ y.todo # {} /\ Download!Goes(p, x)
      /\ UNCHANGED <<now, file, lock, done>>
      /\ faults' \in Nat /\ faults <= faults'
  BY <1>1 DEF Download!NothingNew, Download!Rest, Download!Fault
<1>3. /\ r \in y.todo /\ IsRange(r, y.end) /\ Download!Available(r, now) = OpenIn(r)
      /\ F[MonthAt(r)] \in MonthFile
  BY <1>2, NextRangeFacts
<1>4. x.clean <=> y.clean /\ OpenIn(r) = {}
  BY <1>1, <1>3 DEF Downloader
<1> HIDE DEF r
<1>5. /\ x \in Downloader /\ x.pc = "fill" /\ x.todo = todo /\ x.end = y.end
      /\ todo \subseteq y.todo
  BY <1>1, <1>2 DEF Downloader
<1> HIDE DEF x
<1>6. RunShape(x, now)
  BY <1>1, <1>5 DEF RunShape
<1>7. faults' = 0 => HeadedRun(x, F)
  <2>1. faults' = 0 => faults = 0
    BY <1>1, <1>2
  <2> QED BY <1>1, <1>5, <2>1 DEF HeadedRun
<1>8. Honest(p) => HonestRun(x, F, faults')
  <2> SUFFICES ASSUME Honest(p) PROVE HonestRun(x, F, faults')
    OBVIOUS
  <2>1. \A o \in x.todo : Aligned(F[MonthAt(o)], o, faults)
    BY <1>1, <1>5 DEF HonestRun
  <2>2. \A o \in x.todo : Aligned(F[MonthAt(o)], o, faults')
    BY <1>1, <1>2, <2>1, AlignedStays
  <2> QED BY <1>5, <2>2 DEF HonestRun
<1>9. Download!Working(p)
  BY <1>2 DEF Download!Working
<1>10. ASSUME x.clean PROVE ScannedRun(x, F, faults', now)
  <2>1. /\ y.clean /\ OpenIn(r) = {} /\ HonestRun(y, F, faults)
        /\ ScannedRun(y, F, faults, now)
    BY <1>1, <1>2, <1>4, <1>9, <1>10 DEF Honest
  <2>2. Aligned(F[MonthAt(r)], r, faults)
    BY <1>3, <2>1 DEF HonestRun
  <2>3. Settled(F[MonthAt(r)], MonthAt(r), y.end, faults, now)
    BY <1>1, <1>3, <2>1, <2>2, EmptyRange
  <2>4. ASSUME NEW m \in Download!Month, \A o \in x.todo : MonthAt(o) # m
        PROVE  Settled(F[m], m, x.end, faults', now)
    <3>1. Settled(F[m], m, y.end, faults, now)
      <4>1. CASE m = MonthAt(r)
        BY <2>3, <4>1
      <4>2. CASE m # MonthAt(r)
        <5>1. \A o \in y.todo : MonthAt(o) # m
          BY <1>5, <2>4, <4>2
        <5> QED BY <2>1, <5>1 DEF ScannedRun
      <4> QED BY <4>1, <4>2
    <3>2. m \in Nat /\ now <= now
      BY <1>1, MonthIsNat
    <3> QED BY <1>1, <1>2, <1>5, <3>1, <3>2, SettledStays
  <2> QED BY <2>4 DEF ScannedRun
<1>11. x.clean => y.clean
  BY <1>4
<1> HIDE DEF F
<1> QED BY <1>2, <1>5, <1>6, <1>7, <1>8, <1>9, <1>10, <1>11, KeepsFiles DEF F

LEMMA DownloadFails ==
    ASSUME DownloadInv, NEW p \in Proc, Download!Fails(p)
    PROVE  DownloadInv'
<1> DEFINE y == proc[p]
           F == file[SymbolOf[p]]
           again == [y EXCEPT !.tries = @ - 1, !.pc = "scan", !.todo = {}]
           given == [y EXCEPT !.tries = 0, !.todo = {}, !.clean = FALSE]
           x == IF y.tries > 1 THEN again ELSE given
<1>1. /\ y \in Downloader /\ y.end \in Nat /\ now \in Nat /\ faults \in Nat
      /\ RunShape(y, now)
  BY RunFacts
<1>2. /\ y.pc = "fill" /\ Download!Goes(p, x)
      /\ UNCHANGED <<now, file, lock, done>>
      /\ faults' \in Nat /\ faults <= faults'
  BY <1>1 DEF Download!Fails, Download!Fault
<1>3. /\ x \in Downloader /\ x.pc \in {"scan", "fill"} /\ x.todo = {} /\ x.end = y.end
      /\ x.clean => y.clean /\ x.pc = "scan"
  <2>1. CASE y.tries > 1
    <3>1. y.tries - 1 \in Nat
      BY <1>1, <2>1 DEF Downloader
    <3>2. x = again
      BY <2>1
    <3> QED BY <1>1, <3>1, <3>2 DEF Downloader
  <2>2. CASE ~ y.tries > 1
    <3>1. x = given
      BY <2>2
    <3> QED BY <1>1, <1>2, <3>1 DEF Downloader
  <2> QED BY <2>1, <2>2
<1> HIDE DEF x
<1>4. RunShape(x, now)
  BY <1>1, <1>3 DEF RunShape
<1>5. HeadedRun(x, F) /\ HonestRun(x, F, faults')
  BY <1>3 DEF HeadedRun, HonestRun
<1>6. Download!Working(p)
  BY <1>2 DEF Download!Working
<1> HIDE DEF F
<1> QED BY <1>2, <1>3, <1>4, <1>5, <1>6, KeepsFiles DEF F

LEMMA DownloadFetch ==
    ASSUME DownloadInv, NEW p \in Proc, Download!Fetch(p)
    PROVE  DownloadInv'
<1> DEFINE y == proc[p]
           F == file[SymbolOf[p]]
           r == Download!NextRange(p)
           all == OpenIn(r)
<1>1. /\ y \in Downloader /\ y.end \in Nat /\ now \in Nat /\ faults \in Nat
      /\ RunShape(y, now) /\ (faults = 0 => HeadedRun(y, F))
      /\ Honest(p) => HonestRun(y, F, faults)
      /\ y.clean /\ y.pc \in {"fill", "write"} => ScannedRun(y, F, faults, now)
      /\ SymbolOf[p] \in Symbol /\ done \in [Symbol -> Nat]
  BY RunFacts DEF DownloadType
<1>2. y.pc = "fill" /\ y.todo # {} /\ UNCHANGED <<now, file, lock>>
  BY DEF Download!Fetch
<1>3. /\ r = NextOf(y.todo) /\ r \in y.todo /\ IsRange(r, y.end)
      /\ Download!Available(r, now) = all
      /\ Download!FileOf(p) = F[MonthAt(r)] /\ F[MonthAt(r)] \in MonthFile
      /\ IsFile(F[MonthAt(r)], MonthAt(r))
  BY <1>2, NextRangeFacts
<1>4. PICK got \in (SUBSET all) \ {{}}, readable \in BOOLEAN :
         /\ IF got = all /\ readable THEN UNCHANGED <<faults, done>>
            ELSE Download!Fault /\ done' = [done EXCEPT ![SymbolOf[p]] = 0]
         /\ Download!Goes(p, [y EXCEPT
                !.pc = "write", !.got = got,
                !.base = IF readable THEN F[MonthAt(r)].ticks ELSE {},
                !.clean = @ /\ got = all /\ readable])
  BY <1>3 DEF Download!Fetch
<1> DEFINE old == IF readable THEN F[MonthAt(r)].ticks ELSE {}
           clean == y.clean /\ got = all /\ readable
           x == [y EXCEPT !.pc = "write", !.got = got, !.base = old, !.clean = clean]
<1>5. Download!Goes(p, x)
  BY <1>4
<1> HIDE DEF r
<1>6. /\ all \subseteq Slots(MonthAt(r)) /\ F[MonthAt(r)].ticks \subseteq Slots(MonthAt(r))
      /\ Slots(MonthAt(r)) \subseteq Nat
  <2>1. MonthAt(r) \in Nat /\ all \subseteq Slots(MonthAt(r))
    BY <1>1, <1>3, RangeFacts DEF OpenIn
  <2> QED BY <1>3, <2>1, MonthPlace DEF IsFile
<1>7. /\ x \in Downloader /\ x.pc = "write" /\ x.todo = y.todo /\ x.end = y.end
      /\ x.got = got /\ x.base = old /\ (x.clean <=> clean)
  <2>1. got \in SUBSET Nat /\ old \in SUBSET Nat /\ clean \in BOOLEAN
    BY <1>6
  <2> HIDE DEF old, clean
  <2> QED BY <1>1, <2>1 DEF Downloader
<1> HIDE DEF x
<1>8. /\ faults' \in Nat /\ faults <= faults'
      /\ done' = done \/ done' = [done EXCEPT ![SymbolOf[p]] = 0]
  BY <1>1, <1>4 DEF Download!Fault
<1>9. ASSUME x.clean \/ done'[SymbolOf[p]] # 0 \/ faults' = 0
      PROVE  got = all /\ readable /\ faults' = faults
  <2> SUFFICES ASSUME ~(got = all /\ readable) PROVE FALSE
    BY <1>4
  <2>1. Download!Fault /\ done' = [done EXCEPT ![SymbolOf[p]] = 0]
    BY <1>4
  <2>2. faults' # 0 /\ done'[SymbolOf[p]] = 0
    BY <1>1, <2>1 DEF Download!Fault
  <2> QED BY <1>7, <1>9, <2>2
<1>10. RunShape(x, now)
  <2>1. old \subseteq Slots(MonthAt(r))
    BY <1>6
  <2>2. x.got # {} /\ x.got \subseteq OpenIn(r) /\ x.base \subseteq Slots(MonthAt(r))
    BY <1>4, <1>7, <2>1
  <2>3. /\ x.end <= now /\ \A o \in x.todo : IsRange(o, x.end)
        /\ \A o, u \in x.todo : MonthAt(o) = MonthAt(u) => o = u
    BY <1>1, <1>7 DEF RunShape
  <2>4. x.todo # {} /\ r = NextOf(x.todo) /\ x.pc = "write"
    BY <1>2, <1>3, <1>7
  <2> QED BY <2>2, <2>3, <2>4 DEF RunShape
<1>11. ASSUME faults' = 0 PROVE HeadedRun(x, F)
  <2>1. got = all /\ old = F[MonthAt(r)].ticks /\ HeadedRun(y, F) /\ faults = 0
    BY <1>1, <1>9, <1>11
  <2>2. Headed(old \union got, MonthAt(r))
    <3>1. CASE r[1] = Download!FirstOf(MonthAt(r))
      <4>1. all # {}
        BY <1>4
      <4>2. Headed(all, MonthAt(r))
        BY <1>1, <1>3, <3>1, <4>1, HeadOfRange
      <4> QED BY <2>1, <4>2, HeadedGrows
    <3>2. CASE F[MonthAt(r)].state = "good"
      <4>1. HeadedFile(F[MonthAt(r)], MonthAt(r))
        BY <1>1, <1>3, <2>1 DEF DownloadInv, FilesOK, IsRange
      <4>2. Headed(F[MonthAt(r)].ticks, MonthAt(r))
        BY <3>2, <4>1 DEF HeadedFile
      <4> QED BY <2>1, <4>2, HeadedGrows
    <3> QED BY <1>3, <2>1, <3>1, <3>2 DEF HeadedRun
  <2> QED BY <1>3, <1>7, <2>1, <2>2 DEF HeadedRun
<1>12. ASSUME x.clean \/ done'[SymbolOf[p]] # 0, Honest(p)
       PROVE  HonestRun(x, F, faults')
  <2>1. got = all /\ old = F[MonthAt(r)].ticks /\ faults' = faults
    BY <1>9, <1>12
  <2> QED BY <1>1, <1>3, <1>7, <1>12, <2>1 DEF HonestRun
<1>13. ASSUME x.clean PROVE ScannedRun(x, F, faults', now)
  <2>1. faults' = faults /\ y.clean
    BY <1>7, <1>9, <1>13
  <2> QED BY <1>1, <1>2, <1>7, <2>1 DEF ScannedRun
<1>14. Download!Working(p)
  BY <1>2 DEF Download!Working
<1>15. x.clean => y.clean
  BY <1>7
<1> HIDE DEF F
<1> QED BY <1>2, <1>5, <1>7, <1>8, <1>10, <1>11, <1>12, <1>13, <1>14, <1>15, KeepsFiles DEF F

\* A process that stops, and has changed what StepOf allows.
LEMMA Stops ==
    ASSUME DownloadInv, NEW p \in Proc, Download!Goes(p, Download!Idle), StepOf(p),
           FilesOK', DoneSettled',
           file' \in [Symbol -> [Download!Month -> MonthFile]],
           done' \in [Symbol -> Nat]
    PROVE  DownloadInv'
<1>1. /\ Download!Idle \in Downloader /\ Download!Idle.end = 0
      /\ Download!Idle.todo = {} /\ Download!Idle.pc = "off"
  BY DEF Download!Idle, Downloader
<1>2. DownloadType /\ now \in Nat
  BY DEF DownloadInv, DownloadType
<1>3. /\ proc' \in [Proc -> Downloader] /\ proc'[p] = Download!Idle
      /\ ~Download!Working(p)'
  BY <1>1, <1>2, GoesTo
<1>4. DownloadType'
  BY <1>2, <1>3 DEF DownloadType, StepOf
<1>5. RunOK(p)'
  <2>1. now' = now /\ ~Honest(p)'
    BY <1>3 DEF StepOf, Honest
  <2>2. RunShape(Download!Idle, now)
    BY <1>1, <1>2 DEF RunShape
  <2>3. HeadedRun(Download!Idle, file'[SymbolOf[p]])
    BY <1>1 DEF HeadedRun
  <2> QED BY <1>1, <1>3, <2>1, <2>2, <2>3 DEF RunOK
<1> QED BY <1>4, <1>5, OneSteps

LEMMA DownloadFinish ==
    ASSUME DownloadInv, NEW p \in Proc, Download!Finish(p)
    PROVE  DownloadInv'
<1> DEFINE y == proc[p]
           s == SymbolOf[p]
<1>1. /\ DownloadType /\ y.end \in Nat /\ now \in Nat /\ faults \in Nat
      /\ s \in Symbol /\ RunShape(y, now) /\ done \in [Symbol -> Nat]
      /\ y.clean /\ y.pc \in {"fill", "write"} =>
            ScannedRun(y, file[s], faults, now)
  BY RunFacts DEF DownloadType
<1>2. /\ y.pc = "fill" /\ y.todo = {} /\ Download!Goes(p, Download!Idle)
      /\ UNCHANGED <<now, file, faults>>
      /\ done' = IF y.clean THEN [done EXCEPT ![s] = y.end] ELSE done
  BY DEF Download!Finish
<1> HIDE DEF s
<1>3. /\ done' \in [Symbol -> Nat]
      /\ \A o \in Symbol \ {s} : done'[o] = done[o]
      /\ y.clean => done'[s] = y.end
      /\ ~y.clean => done' = done
  BY <1>1, <1>2
<1>4. StepOf(p)
  <2>1. Download!Working(p)
    BY <1>2 DEF Download!Working
  <2>2. y.clean => Honest(p)
    BY <2>1 DEF Honest
  <2>3. ~y.clean => done'[s] = done[s]
    BY <1>3
  <2>4. /\ now' = now /\ faults' \in Nat /\ faults <= faults' /\ file' = file
        /\ \A o \in Proc \ {p} : proc'[o] = proc[o]
    <3>1. Download!Idle \in Downloader
      BY DEF Download!Idle, Downloader
    <3> QED BY <1>1, <1>2, <3>1, GoesTo
  <2> QED BY <1>3, <2>1, <2>2, <2>3, <2>4 DEF StepOf, s
<1>5. FilesOK'
  BY <1>2 DEF DownloadInv, FilesOK
<1>6. DoneSettled'
  <2> SUFFICES ASSUME NEW o \in Symbol
               PROVE  /\ done'[o] <= now
                      /\ done'[o] # 0 =>
                           \A m \in Download!Month :
                               Settled(file[o][m], m, done'[o], faults, now)
    BY <1>2 DEF DoneSettled
  <2>1. CASE o = s /\ y.clean
    <3>1. done'[o] = y.end /\ y.end <= now
      BY <1>1, <1>3, <2>1 DEF RunShape
    <3>2. \A m \in Download!Month : Settled(file[o][m], m, y.end, faults, now)
      BY <1>1, <1>2, <2>1 DEF ScannedRun
    <3> QED BY <3>1, <3>2
  <2>2. CASE ~(o = s /\ y.clean)
    <3>1. done'[o] = done[o]
      BY <1>3, <2>2
    <3> QED BY <3>1 DEF DownloadInv, DoneSettled
  <2> QED BY <2>1, <2>2
<1>7. file' \in [Symbol -> [Download!Month -> MonthFile]]
  BY <1>1, <1>2 DEF DownloadType
<1> QED BY <1>2, <1>3, <1>4, <1>5, <1>6, <1>7, Stops

\* One month file changes.
LEMMA OneFile ==
    ASSUME DownloadInv, NEW s \in Symbol, NEW m \in Download!Month, NEW g \in MonthFile,
           file' = [file EXCEPT ![s][m] = g]
    PROVE  /\ file' \in [Symbol -> [Download!Month -> MonthFile]]
           /\ file'[s][m] = g
           /\ \A o \in Symbol \ {s} : file'[o] = file[o]
           /\ \A k \in Download!Month \ {m} : file'[s][k] = file[s][k]
BY DEF DownloadInv, DownloadType

LEMMA DownloadKill ==
    ASSUME DownloadInv, NEW p \in Proc, Download!Kill(p)
    PROVE  DownloadInv'
<1> DEFINE y == proc[p]
           s == SymbolOf[p]
           M == MonthAt(Download!NextRange(p))
<1>1. /\ DownloadType /\ now \in Nat /\ faults \in Nat /\ s \in Symbol
      /\ RunShape(y, now) /\ done \in [Symbol -> Nat]
  BY RunFacts DEF DownloadType
<1>2. /\ Download!Goes(p, Download!Idle) /\ UNCHANGED <<now, lock>>
      /\ faults' = faults + 1
  BY DEF Download!Kill, Download!Fault
<1>3. faults' \in Nat /\ faults <= faults' /\ faults' # 0
  BY <1>1, <1>2
<1>4. /\ Download!Idle \in Downloader /\ Download!Idle.end = 0
      /\ Download!Idle.todo = {} /\ Download!Idle.pc = "off"
  BY DEF Download!Idle, Downloader
<1>5. CASE y.pc # "write"
  <2>1. UNCHANGED <<file, done>>
    BY <1>5 DEF Download!Kill
  <2>2. 0 <= now
    BY <1>1
  <2> QED BY <1>2, <1>3, <1>4, <2>1, <2>2, StepsAside
<1>6. CASE y.pc = "write"
  <2> DEFINE g == Download!Torn
  <2>1. M \in Download!Month
    BY <1>1, <1>6, NextRangeFacts DEF RunShape
  <2>2. /\ file' = [file EXCEPT ![s][M] = g] /\ done' = [done EXCEPT ![s] = 0]
    BY <1>6 DEF Download!Kill, MonthAt
  <2>3. g \in MonthFile /\ IsFile(g, M)
    BY DEF Download!Torn, MonthFile, IsFile
  <2> HIDE DEF g, M, s
  <2>4. /\ file' \in [Symbol -> [Download!Month -> MonthFile]]
        /\ file'[s][M] = g
        /\ \A o \in Symbol \ {s} : file'[o] = file[o]
        /\ \A m \in Download!Month \ {M} : file'[s][m] = file[s][m]
    BY <1>1, <2>1, <2>2, <2>3, OneFile
  <2>5. /\ done' \in [Symbol -> Nat] /\ done'[s] = 0
        /\ \A o \in Symbol \ {s} : done'[o] = done[o]
    BY <1>1, <2>2
  <2>6. StepOf(p)
    <3>1. Download!Working(p) /\ ~Download!Working(p)'
          /\ \A o \in Proc \ {p} : proc'[o] = proc[o]
      BY <1>1, <1>2, <1>4, <1>6, GoesTo DEF Download!Working
    <3> QED BY <1>2, <1>3, <2>4, <2>5, <3>1 DEF StepOf, s
  <2>7. FilesOK'
    <3> SUFFICES ASSUME NEW o \in Symbol, NEW m \in Download!Month
                 PROVE  IsFile(file'[o][m], m)
      BY <1>3 DEF FilesOK
    <3>1. IsFile(file[o][m], m)
      BY DEF DownloadInv, FilesOK
    <3> QED BY <2>3, <2>4, <3>1
  <2>8. DoneSettled'
    <3> SUFFICES ASSUME NEW o \in Symbol \ {s}
                 PROVE  /\ done'[o] <= now'
                        /\ done'[o] # 0 =>
                             \A m \in Download!Month :
                                 Settled(file'[o][m], m, done'[o], faults', now')
      BY <1>1, <1>2, <2>5 DEF DoneSettled
    <3>1. /\ done'[o] = done[o] /\ file'[o] = file[o] /\ now' = now /\ done[o] \in Nat
      BY <1>1, <1>2, <2>4, <2>5
    <3>2. /\ done[o] <= now
          /\ done[o] # 0 => \A m \in Download!Month :
                                Settled(file[o][m], m, done[o], faults, now)
      BY DEF DownloadInv, DoneSettled
    <3>3. \A m \in Download!Month :
             Settled(file[o][m], m, done[o], faults, now) =>
                 Settled(file[o][m], m, done[o], faults', now)
      <4>1. now <= now
        BY <1>1
      <4> QED BY <1>1, <1>3, <3>1, <4>1, SettledStays, MonthIsNat
    <3> QED BY <3>1, <3>2, <3>3
  <2> QED BY <1>2, <2>4, <2>5, <2>6, <2>7, <2>8, Stops
<1> QED BY <1>5, <1>6

LEMMA DownloadWrite ==
    ASSUME DownloadInv, NEW p \in Proc, Download!Write(p)
    PROVE  DownloadInv'
<1> DEFINE y == proc[p]
           s == SymbolOf[p]
           F == file[s]
           G == file'[s]
           r == Download!NextRange(p)
           M == MonthAt(r)
           g == Download!Good(y.base \union y.got)
           todo == y.todo \ {r}
           x == [y EXCEPT !.pc = "fill", !.todo = todo, !.got = {}, !.base = {}]
<1>1. /\ DownloadType /\ y \in Downloader /\ y.end \in Nat /\ now \in Nat /\ faults \in Nat
      /\ RunShape(y, now) /\ (faults = 0 => HeadedRun(y, F))
      /\ Honest(p) => HonestRun(y, F, faults)
      /\ y.clean /\ y.pc \in {"fill", "write"} => ScannedRun(y, F, faults, now)
      /\ s \in Symbol /\ done \in [Symbol -> Nat]
  BY RunFacts DEF DownloadType
<1>2. /\ y.pc = "write" /\ Download!Goes(p, x) /\ UNCHANGED <<now, lock, faults, done>>
      /\ file' = [file EXCEPT ![s][M] = g]
  BY DEF Download!Write, Download!Merged, Download!Rest, MonthAt
<1>3. y.todo # {}
  BY <1>1, <1>2 DEF RunShape
<1>4. /\ r = NextOf(y.todo) /\ r \in y.todo /\ IsRange(r, y.end) /\ M \in Download!Month
      /\ F[M] \in MonthFile /\ y.end <= now
  BY <1>3, NextRangeFacts
<1> HIDE DEF r
<1>5. /\ y.got # {} /\ y.got \subseteq OpenIn(r) /\ y.base \subseteq Slots(M)
  BY <1>1, <1>2, <1>4 DEF RunShape
<1>6. g \in MonthFile /\ IsFile(g, M) /\ g.state = "good"
      /\ g.ticks = y.base \union y.got
  BY <1>1, <1>4, <1>5, MergedFile DEF Download!Good
<1>7. /\ x \in Downloader /\ x.pc = "fill" /\ x.todo = todo /\ x.end = y.end
      /\ x.clean = y.clean /\ todo \subseteq y.todo
  BY <1>1 DEF Downloader
<1>8. \A o \in todo : MonthAt(o) # M
  BY <1>1, <1>4 DEF RunShape
<1> HIDE DEF x, todo
<1>9. /\ file' \in [Symbol -> [Download!Month -> MonthFile]]
      /\ G[M] = g
      /\ \A o \in Symbol \ {s} : file'[o] = file[o]
      /\ \A m \in Download!Month \ {M} : G[m] = F[m]
  <2> HIDE DEF g, M, s
  <2> QED BY <1>1, <1>2, <1>4, <1>6, OneFile
<1>10. /\ proc' \in [Proc -> Downloader] /\ proc'[p] = x
       /\ \A q \in Proc \ {p} : proc'[q] = proc[q]
       /\ Download!Working(p) /\ Download!Working(p)'
  BY <1>1, <1>2, <1>7, GoesTo DEF Download!Working
<1>11. DownloadType'
  BY <1>1, <1>2, <1>9, <1>10 DEF DownloadType
\* The month that is written is settled from here on.
<1>12. ASSUME Honest(p), NEW until \in Nat, until <= y.end
       PROVE  Settled(g, M, until, faults, now)
  <2>1. y.base = F[M].ticks /\ y.got = OpenIn(r) /\ Aligned(F[M], r, faults)
    BY <1>1, <1>2, <1>4, <1>12 DEF HonestRun
  <2> HIDE DEF F
  <2> QED BY <1>1, <1>4, <1>12, <2>1, FilledMonth
<1> HIDE DEF g, M
<1>13. ASSUME faults = 0 PROVE HeadedFile(g, M)
  <2>1. Headed(y.base \union y.got, MonthAt(NextOf(y.todo)))
    BY <1>1, <1>2, <1>13 DEF HeadedRun
  <2>2. Headed(g.ticks, M)
    BY <1>4, <1>6, <2>1 DEF M
  <2> QED BY <1>6, <2>2 DEF HeadedFile
<1>14. FilesOK'
  <2> SUFFICES ASSUME NEW o \in Symbol, NEW m \in Download!Month
               PROVE  IsFile(file'[o][m], m) /\ (faults = 0 => HeadedFile(file'[o][m], m))
    BY <1>2 DEF FilesOK
  <2>1. CASE o = s /\ m = M
    BY <1>6, <1>9, <1>13, <2>1
  <2>2. CASE ~(o = s /\ m = M)
    <3>1. file'[o][m] = file[o][m]
      BY <1>9, <2>2
    <3> QED BY <3>1 DEF DownloadInv, FilesOK
  <2> QED BY <2>1, <2>2
<1>15. DoneSettled'
  <2> SUFFICES ASSUME NEW o \in Symbol
               PROVE  /\ done[o] <= now
                      /\ done[o] # 0 =>
                           \A m \in Download!Month :
                               Settled(file'[o][m], m, done[o], faults, now)
    BY <1>2 DEF DoneSettled
  <2>1. /\ done[o] <= now
        /\ done[o] # 0 => \A m \in Download!Month :
                              Settled(file[o][m], m, done[o], faults, now)
    BY DEF DownloadInv, DoneSettled
  <2>2. ASSUME done[o] # 0, NEW m \in Download!Month
        PROVE  Settled(file'[o][m], m, done[o], faults, now)
    <3>1. CASE o = s /\ m = M
      <4>1. Honest(p)
        BY <1>10, <2>2, <3>1 DEF Honest
      <4>2. done[o] \in Nat /\ done[o] <= y.end
        BY <1>1, <3>1, <4>1 DEF DownloadInv, RunOK
      <4> QED BY <1>9, <1>12, <3>1, <4>1, <4>2
    <3>2. CASE ~(o = s /\ m = M)
      <4>1. file'[o][m] = file[o][m]
        BY <1>9, <3>2
      <4> QED BY <2>1, <2>2, <4>1
    <3> QED BY <3>1, <3>2
  <2> QED BY <2>1, <2>2
<1>16. \A m \in Download!Month : F[m].state = "good" => G[m].state = "good"
  BY <1>6, <1>9
<1>17. StepOf(p)
  <2>1. faults' \in Nat /\ faults <= faults' /\ now' = now /\ done' = done
    BY <1>1, <1>2
  <2> QED BY <1>9, <1>10, <1>16, <2>1 DEF StepOf
<1>18. RunOK(p)'
  <2>1. RunShape(x, now)
    BY <1>1, <1>7 DEF RunShape
  <2>2. faults = 0 => HeadedRun(x, G)
    <3>1. \A o \in todo : MonthAt(o) \in Download!Month
      BY <1>1, <1>7 DEF RunShape, IsRange
    <3> QED BY <1>1, <1>7, <1>16, <3>1 DEF HeadedRun
  <2>3. ASSUME Honest(p)'
        PROVE  /\ Honest(p) /\ Download!Rivals(p)' = {} /\ done[s] <= x.end
               /\ HonestRun(x, G, faults)
    <3>1. Honest(p)
      BY <1>2, <1>7, <1>10, <2>3 DEF Honest
    <3>2. Download!Rivals(p) = {} /\ done[s] <= y.end
      BY <3>1 DEF DownloadInv, RunOK
    <3>3. Download!Rivals(p)' = {}
      <4>1. \A q \in Proc \ {p} : Download!Working(q)' <=> Download!Working(q)
        BY <1>10 DEF Download!Working
      <4> QED BY <3>2, <4>1 DEF Download!Rivals
    <3>4. \A o \in x.todo : Aligned(G[MonthAt(o)], o, faults)
      <4> SUFFICES ASSUME NEW o \in todo PROVE Aligned(G[MonthAt(o)], o, faults)
        BY <1>7
      <4>1. MonthAt(o) \in Download!Month /\ o \in y.todo
        BY <1>1, <1>7 DEF RunShape, IsRange
      <4>2. G[MonthAt(o)] = F[MonthAt(o)]
        BY <1>8, <1>9, <4>1
      <4>3. Aligned(F[MonthAt(o)], o, faults)
        BY <1>1, <3>1, <4>1 DEF HonestRun
      <4> QED BY <4>2, <4>3
    <3> QED BY <1>7, <3>1, <3>2, <3>3, <3>4 DEF HonestRun
  <2>4. ASSUME x.clean PROVE ScannedRun(x, G, faults, now)
    <3>1. y.clean /\ Honest(p) /\ ScannedRun(y, F, faults, now)
      BY <1>1, <1>2, <1>7, <1>10, <2>4 DEF Honest
    <3>2. ASSUME NEW m \in Download!Month, \A o \in x.todo : MonthAt(o) # m
          PROVE  Settled(G[m], m, x.end, faults, now)
      <4>1. CASE m = M
        <5>1. y.end <= y.end
          BY <1>1
        <5> QED BY <1>1, <1>7, <1>9, <1>12, <3>1, <4>1, <5>1
      <4>2. CASE m # M
        <5>1. \A o \in y.todo : MonthAt(o) # m
          BY <1>7, <3>2, <4>2 DEF todo, M
        <5>2. Settled(F[m], m, y.end, faults, now)
          BY <3>1, <5>1 DEF ScannedRun
        <5> QED BY <1>7, <1>9, <4>2, <5>2
      <4> QED BY <4>1, <4>2
    <3> QED BY <3>2 DEF ScannedRun
  <2> QED BY <1>2, <1>10, <2>1, <2>2, <2>3, <2>4 DEF RunOK
<1> QED BY <1>11, <1>14, <1>15, <1>17, <1>18, OneSteps

LEMMA DownloadTouch ==
    ASSUME DownloadInv, NEW p \in Proc, Download!Touch(p)
    PROVE  DownloadInv'
<1> DEFINE y == proc[p]
           s == SymbolOf[p]
           R == Download!Rivals(p)
           x == [y EXCEPT !.pc = "scan", !.end = now, !.tries = 3, !.clean = R = {}]
<1>1. /\ DownloadType /\ y \in Downloader /\ now \in Nat /\ faults \in Nat
      /\ s \in Symbol /\ RunShape(y, now) /\ done \in [Symbol -> Nat]
      /\ proc \in [Proc -> Downloader]
  BY RunFacts DEF DownloadType
<1>2. /\ y.pc = "clear" /\ UNCHANGED <<now, file, faults>>
      /\ proc' = [Download!Disturb(R) EXCEPT ![p] = x]
      /\ done' = IF R = {} THEN done ELSE [done EXCEPT ![s] = 0]
  BY DEF Download!Touch
<1>3. y.todo = {}
  BY <1>1, <1>2 DEF RunShape
<1>4. R \subseteq Proc \ {p}
  BY DEF Download!Rivals
<1>5. /\ x \in Downloader /\ x.pc = "scan" /\ x.end = now /\ x.todo = {}
      /\ x.clean <=> R = {}
  BY <1>1, <1>3 DEF Downloader
<1> HIDE DEF x
<1>6. /\ proc' \in [Proc -> Downloader] /\ proc'[p] = x
      /\ \A q \in R : proc'[q] = [proc[q] EXCEPT !.clean = FALSE]
      /\ \A q \in Proc \ {p} : q \notin R => proc'[q] = proc[q]
  <2> DEFINE D == Download!Disturb(R)
  <2>1. /\ D = [q \in Proc |-> IF q \in R THEN [proc[q] EXCEPT !.clean = FALSE] ELSE proc[q]]
    BY DEF Download!Disturb
  <2>2. \A q \in Proc : [proc[q] EXCEPT !.clean = FALSE] \in Downloader
    BY <1>1 DEF Downloader
  <2>3. /\ D \in [Proc -> Downloader]
        /\ \A q \in R : D[q] = [proc[q] EXCEPT !.clean = FALSE]
        /\ \A q \in Proc : q \notin R => D[q] = proc[q]
    BY <1>1, <1>4, <2>1, <2>2
  <2> HIDE DEF D, R
  <2> QED BY <1>2, <1>4, <1>5, <2>3 DEF D
<1>7. /\ done' \in [Symbol -> Nat]
      /\ R # {} => done'[s] = 0
      /\ R = {} => done' = done
      /\ \A o \in Symbol \ {s} : done'[o] = done[o]
  <2> HIDE DEF R, s
  <2> QED BY <1>1, <1>2
<1>8. DownloadType'
  BY <1>1, <1>2, <1>6, <1>7 DEF DownloadType
<1>9. FilesOK' /\ DoneSettled'
  <2>1. now' \in Nat /\ now <= now' /\ faults' \in Nat /\ faults <= faults'
    BY <1>1, <1>2
  <2>2. \A o \in Symbol : done'[o] = done[o] \/ done'[o] = 0
    BY <1>7
  <2> QED BY <1>2, <2>1, <2>2, SameFiles
<1>10. \A q \in Proc \ {p} : Download!Working(q)' <=> Download!Working(q)
  <2> SUFFICES ASSUME NEW q \in Proc \ {p} PROVE proc'[q].pc = proc[q].pc
    BY DEF Download!Working
  <2>1. proc[q] \in Downloader
    BY <1>1
  <2>2. CASE q \in R
    BY <1>6, <2>1, <2>2 DEF Downloader
  <2> QED BY <1>6, <2>2
<1>11. RunOK(p)'
  <2>1. RunShape(x, now)
    BY <1>1, <1>5 DEF RunShape
  <2>2. HeadedRun(x, file[s]) /\ HonestRun(x, file[s], faults)
    BY <1>5 DEF HeadedRun, HonestRun
  <2>3. ASSUME Honest(p)' PROVE Download!Rivals(p)' = {} /\ done'[s] <= x.end
    <3>1. R = {}
      BY <1>5, <1>6, <1>7, <2>3 DEF Honest
    <3>2. Download!Rivals(p)' = {}
      BY <1>10, <3>1 DEF Download!Rivals
    <3>3. done'[s] <= now
      BY <1>1, <1>7, <3>1 DEF DownloadInv, DoneSettled
    <3> QED BY <1>5, <3>2, <3>3
  <2> QED BY <1>2, <1>5, <1>6, <2>1, <2>2, <2>3 DEF RunOK
<1>12. ASSUME NEW q \in Proc \ {p} PROVE RunOK(q)'
  <2> DEFINE z == proc[q]
             o == SymbolOf[q]
             F == file[o]
  <2>1. /\ z \in Downloader /\ RunShape(z, now) /\ (faults = 0 => HeadedRun(z, F))
        /\ z.clean /\ z.pc \in {"fill", "write"} => ScannedRun(z, F, faults, now)
        /\ o \in Symbol
    BY RunFacts
  <2>2. CASE q \in R
    <3> DEFINE w == [z EXCEPT !.clean = FALSE]
    <3>1. proc'[q] = w
      BY <1>6, <2>2
    <3>2. /\ w.pc = z.pc /\ w.end = z.end /\ w.todo = z.todo /\ w.got = z.got
          /\ w.base = z.base /\ w.clean = FALSE
      BY <2>1 DEF Downloader
    <3> HIDE DEF w
    <3>3. RunShape(w, now) /\ (faults = 0 => HeadedRun(w, F))
      BY <2>1, <3>2 DEF RunShape, HeadedRun
    <3>4. ~Honest(q)'
      <4>1. o = s /\ R # {}
        BY <2>2 DEF Download!Rivals
      <4> QED BY <1>7, <3>1, <3>2, <4>1 DEF Honest
    <3> QED BY <1>2, <3>1, <3>2, <3>3, <3>4 DEF RunOK
  <2>3. CASE q \notin R
    <3>1. proc'[q] = z
      BY <1>6, <2>3
    <3>2. ASSUME Honest(q)'
          PROVE  /\ Download!Rivals(q)' = {} /\ done'[o] <= z.end
                 /\ HonestRun(z, F, faults)
      <4>1. Download!Working(q) /\ o # s
        BY <1>10, <2>3, <3>2 DEF Honest, Download!Rivals
      <4>2. done'[o] = done[o]
        BY <1>7, <2>1, <4>1
      <4>3. Honest(q)
        BY <3>1, <3>2, <4>1, <4>2 DEF Honest
      <4>4. /\ Download!Rivals(q) = {} /\ done[o] <= z.end /\ HonestRun(z, F, faults)
        BY <4>3 DEF DownloadInv, RunOK
      <4>5. Download!Rivals(q)' = {}
        BY <1>10, <4>1, <4>4 DEF Download!Rivals
      <4> QED BY <4>2, <4>4, <4>5
    <3> QED BY <1>2, <2>1, <3>1, <3>2 DEF RunOK
  <2> QED BY <2>2, <2>3
<1> QED BY <1>8, <1>9, <1>11, <1>12 DEF DownloadInv

LEMMA DownloadNext == DownloadInv /\ [Download!Next]_downloadVars => DownloadInv'
<1> SUFFICES ASSUME DownloadInv, [Download!Next]_downloadVars PROVE DownloadInv'
  OBVIOUS
<1>1. CASE UNCHANGED downloadVars
  <2>1. \A p \in Proc : /\ Honest(p)' <=> Honest(p)
                        /\ Download!Rivals(p)' = Download!Rivals(p)
    BY <1>1 DEF downloadVars, Honest, Download!Rivals, Download!Working
  <2>2. \A p \in Proc : RunOK(p)'
    BY <1>1, <2>1 DEF downloadVars, DownloadInv, RunOK
  <2>3. DownloadType' /\ FilesOK' /\ DoneSettled'
    BY <1>1 DEF downloadVars, DownloadInv, DownloadType, FilesOK, DoneSettled
  <2> QED BY <2>2, <2>3 DEF DownloadInv
<1>2. CASE Download!Clock
  BY <1>2, DownloadClock
<1>3. ASSUME NEW p \in Proc,
             \/ Download!Launch(p) \/ Download!Check(p) \/ Download!Unlink(p)
             \/ Download!Interrupt(p)
      PROVE  DownloadInv'
  BY <1>3, DownloadAside
<1>4. ASSUME NEW p \in Proc, Download!Touch(p) PROVE DownloadInv'
  BY <1>4, DownloadTouch
<1>5. ASSUME NEW p \in Proc, Download!Scan(p) PROVE DownloadInv'
  BY <1>5, DownloadScan
<1>6. ASSUME NEW p \in Proc, Download!Fetch(p) PROVE DownloadInv'
  BY <1>6, DownloadFetch
<1>7. ASSUME NEW p \in Proc, Download!NothingNew(p) PROVE DownloadInv'
  BY <1>7, DownloadNothingNew
<1>8. ASSUME NEW p \in Proc, Download!Fails(p) PROVE DownloadInv'
  BY <1>8, DownloadFails
<1>9. ASSUME NEW p \in Proc, Download!Write(p) PROVE DownloadInv'
  BY <1>9, DownloadWrite
<1>10. ASSUME NEW p \in Proc, Download!Finish(p) PROVE DownloadInv'
  BY <1>10, DownloadFinish
<1>11. ASSUME NEW p \in Proc, Download!Kill(p) PROVE DownloadInv'
  BY <1>11, DownloadKill
<1> QED BY <1>1, <1>2, <1>3, <1>4, <1>5, <1>6, <1>7, <1>8, <1>9, <1>10, <1>11
        DEF Download!Next

LEMMA SettledIsOverlooked == DownloadInv => GapsFilled
<1> SUFFICES ASSUME DownloadInv, NEW s \in Symbol, done[s] # 0,
                    NEW m \in Download!Month,
                    NEW t \in Download!Expected(m, done[s]) \ file[s][m].ticks
             PROVE  Download!Overlooked(file[s][m], m, t)
  BY DEF GapsFilled, Download!GapsFilled
<1> DEFINE f == file[s][m]
<1>1. Settled(f, m, done[s], faults, now)
  BY DEF DownloadInv, DoneSettled
<1>2. /\ f.ticks \in SUBSET Nat /\ (f.state = "good" <=> f.ticks # {})
  BY DEF DownloadInv, DownloadType, FilesOK, IsFile, MonthFile
<1> HIDE DEF f
<1>3. ASSUME LostHead(f, t, faults)
      PROVE  f.state = "good" /\ faults > 0 /\ t < Download!Min(f.ticks)
  <2>1. f.ticks # {} /\ f.state = "good" /\ faults > 0 /\ \A q \in f.ticks : t < q
    BY <1>2, <1>3 DEF LostHead
  <2>2. \E q \in f.ticks : \A o \in f.ticks : q <= o
    BY <1>2, <2>1, Least
  <2>3. Download!Min(f.ticks) \in f.ticks
    BY <2>2 DEF Download!Min
  <2> QED BY <2>1, <2>3
<1>4. t \in Download!Expected(m, done[s]) \ f.ticks
  BY DEF f
<1>5. Download!Overlooked(f, m, t)
  BY <1>1, <1>3, <1>4 DEF Settled, Download!Overlooked
<1> QED BY <1>5 DEF f

\* For any processes, symbols, months and faults, killed, interrupted or beside
\* each other: after a run that nothing disturbed every tick up to its end_date
\* is in its file, but for what get_missing_months does not look for
\* (process_symbol, get_missing_months, _handle_existing_lock of
\* download_tick_vault_data.py).
THEOREM MonthsAreFilled == Download!Spec => []GapsFilled
<1>1. Download!Spec => []DownloadInv
  <2>1. Download!Spec <=> Download!Init /\ [][Download!Next]_downloadVars
    BY DEF Download!Spec, Download!vars, downloadVars
  <2> QED BY <2>1, DownloadInit, DownloadNext, PTL
<1> QED BY <1>1, SettledIsOverlooked, PTL
=============================================================================
