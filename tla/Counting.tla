------------------------------- MODULE Counting --------------------------------
(***************************************************************************)
(* What the proofs about the relay's tables and counters keep needing: a   *)
(* set of numbers has a least element, the size of a set follows what      *)
(* leaves and what enters it, and so does a sum.                           *)
(***************************************************************************)
EXTENDS Sums, TLAPS, FiniteSetTheorems, FunctionTheorems, WellFoundedInduction,
        SequenceTheorems

\* A non-empty set of numbers has a least element.
LEMMA LeastElement ==
    ASSUME NEW S, S \subseteq Nat, S # {}
    PROVE  \E x \in S : \A y \in S : x <= y
<1>1. PICK x \in S : \A y \in S : <<y, x>> \notin OpToRel(<, Nat)
  BY NatLessThanWellFounded, WFMin
<1>2. \A y \in S : ~(y < x)
  BY <1>1, Zenon DEF OpToRel
<1>3. \A y \in S : x <= y
  BY <1>2
<1>4. QED
  BY <1>3

\* T is S with one part of it replaced by another.
Replaced(S, T, out, in) ==
    /\ T = (S \ out) \cup in
    /\ out \subseteq S /\ (S \ out) \cap in = {}

\* Counting is subtracting what leaves and adding what enters.
LEMMA CountChange ==
    ASSUME NEW S, NEW T, NEW out, NEW in, IsFiniteSet(S), IsFiniteSet(in),
           Replaced(S, T, out, in)
    PROVE  IsFiniteSet(T) /\ Cardinality(T) = Cardinality(S) - Cardinality(out) + Cardinality(in)
<1>1. T = (S \ out) \cup in /\ (S \ out) \cap in = {} /\ S \cap out = out
      /\ out \subseteq S
  BY DEF Replaced
<1>2. IsFiniteSet(S \ out) /\ Cardinality(S \ out) = Cardinality(S) - Cardinality(S \cap out)
  BY FS_Difference
<1>3. /\ IsFiniteSet((S \ out) \cup in)
      /\ Cardinality((S \ out) \cup in)
           = Cardinality(S \ out) + Cardinality(in) - Cardinality((S \ out) \cap in)
  BY <1>2, FS_Union, Zenon
<1>4. Cardinality((S \ out) \cap in) = 0
  BY <1>1, FS_EmptySet, Zenon
<1>5. /\ Cardinality(S) \in Nat /\ Cardinality(out) \in Nat /\ Cardinality(in) \in Nat
      /\ Cardinality(S \ out) \in Nat
  <2>1. IsFiniteSet(out)
    BY <1>1, FS_Subset
  <2>2. QED
    BY <1>2, <2>1, FS_CardinalityType
<1>6. IsFiniteSet(T) /\ Cardinality(T) = Cardinality((S \ out) \cup in)
  BY <1>1, <1>3, Zenon
<1>7. Cardinality(S \ out) = Cardinality(S) - Cardinality(out)
  BY <1>1, <1>2, Zenon
<1>8. QED
  BY <1>3, <1>4, <1>5, <1>6, <1>7

\* A new element adds one to the count.
LEMMA CountEntered ==
    ASSUME NEW S, IsFiniteSet(S), NEW x, x \notin S
    PROVE  Cardinality(S \cup {x}) = Cardinality(S) + 1 /\ Cardinality(S) \in Nat
BY FS_AddElement, FS_CardinalityType

\* An element that leaves takes one from the count.
LEMMA CountLeft ==
    ASSUME NEW S, IsFiniteSet(S), NEW x, x \in S
    PROVE  Cardinality(S \ {x}) = Cardinality(S) - 1 /\ Cardinality(S) \in Nat
BY FS_RemoveElement, FS_CardinalityType

\* A part of a finite set, and its size.
LEMMA PartIsFinite ==
    ASSUME NEW S, IsFiniteSet(S), NEW T, T \subseteq S
    PROVE  IsFiniteSet(T) /\ Cardinality(T) \in Nat
BY FS_Subset, FS_CardinalityType

--------------------------------------------------------------------------------
(* Sums, for functions whose values on S are numbers.                      *)

Charged(S, f) == IsFiniteSet(S) /\ \A x \in S : f[x] \in Nat

\* What one entry of a sum contributes.
LEMMA UnitsOfOne ==
    ASSUME NEW x, NEW n \in Nat
    PROVE  IsFiniteSet({x} \X (1 .. n)) /\ Cardinality({x} \X (1 .. n)) = n
<1>1. IsFiniteSet(1 .. n) /\ Cardinality(1 .. n) = n
  BY FS_Interval
<1>2. IsFiniteSet({x}) /\ Cardinality({x}) = 1
  BY FS_Singleton
<1>3. QED
  BY <1>1, <1>2, FS_Product

\* The units are pairs of an element and a number.
LEMMA UnitsAre ==
    ASSUME NEW S, NEW f, NEW u
    PROVE  u \in UnitsOf(S, f) <=> \E x \in S : \E k \in 1 .. f[x] : u = <<x, k>>
BY DEF UnitsOf

\* There are finitely many units, so that a sum is a number.
LEMMA TotalType ==
    ASSUME NEW S, NEW f, Charged(S, f)
    PROVE  IsFiniteSet(UnitsOf(S, f)) /\ Total(S, f) \in Nat
<1> DEFINE parts == {{x} \X (1 .. f[x]) : x \in S}
           part == [x \in S |-> {x} \X (1 .. f[x])]
<1>1. part \in Surjection(S, parts)
  BY DEF Surjection
<1>2. IsFiniteSet(parts)
  BY <1>1, FS_Surjection DEF Charged
<1>3. ASSUME NEW p \in parts
      PROVE  IsFiniteSet(p)
  <2>1. PICK x \in S : p = {x} \X (1 .. f[x])
    OBVIOUS
  <2>2. f[x] \in Nat
    BY DEF Charged
  <2>3. QED
    BY <2>1, <2>2, UnitsOfOne
<1>4. IsFiniteSet(UnitsOf(S, f))
  BY <1>2, <1>3, FS_UNION DEF UnitsOf
<1>5. QED
  BY <1>4, FS_CardinalityType DEF Total

\* A sum over nothing.
LEMMA TotalEmpty == ASSUME NEW f PROVE Total({}, f) = 0
<1>1. UnitsOf({}, f) = {}
  BY DEF UnitsOf
<1>2. QED
  BY <1>1, FS_EmptySet DEF Total

\* Only the values on S count.
LEMMA TotalSame ==
    ASSUME NEW S, NEW f, NEW g, \A x \in S : g[x] = f[x]
    PROVE  Total(S, g) = Total(S, f)
<1>1. UnitsOf(S, g) = UnitsOf(S, f)
  BY DEF UnitsOf
<1>2. QED
  BY <1>1 DEF Total

\* The sum over two sets that have nothing in common.
LEMMA TotalUnion ==
    ASSUME NEW S, NEW T, NEW f, Charged(S, f), Charged(T, f), S \cap T = {}
    PROVE  Total(S \cup T, f) = Total(S, f) + Total(T, f)
<1>1. UnitsOf(S \cup T, f) = UnitsOf(S, f) \cup UnitsOf(T, f)
  BY DEF UnitsOf
<1>2. UnitsOf(S, f) \cap UnitsOf(T, f) = {}
  <2> SUFFICES ASSUME NEW u \in UnitsOf(S, f), u \in UnitsOf(T, f) PROVE FALSE
    OBVIOUS
  <2>1. PICK x \in S : \E k \in 1 .. f[x] : u = <<x, k>>
    BY UnitsAre
  <2>2. PICK y \in T : \E k \in 1 .. f[y] : u = <<y, k>>
    BY UnitsAre
  <2>3. x = y
    BY <2>1, <2>2
  <2>4. QED
    BY <2>3
<1>3. /\ IsFiniteSet(UnitsOf(S, f)) /\ Cardinality(UnitsOf(S, f)) \in Nat
      /\ IsFiniteSet(UnitsOf(T, f)) /\ Cardinality(UnitsOf(T, f)) \in Nat
  BY TotalType DEF Total
<1>4. Cardinality(UnitsOf(S, f) \cap UnitsOf(T, f)) = 0
  BY <1>2, FS_EmptySet
<1>5. Cardinality(UnitsOf(S, f) \cup UnitsOf(T, f))
        = Cardinality(UnitsOf(S, f)) + Cardinality(UnitsOf(T, f)) - 0
  BY <1>3, <1>4, FS_Union
<1>6. Total(S \cup T, f) = Total(S, f) + Total(T, f) - 0
  BY <1>1, <1>5, Zenon DEF Total
<1>7. Total(S, f) \in Nat /\ Total(T, f) \in Nat
  BY <1>3 DEF Total
<1>8. QED
  BY <1>6, <1>7

\* The sum over one element.
LEMMA TotalOne ==
    ASSUME NEW x, NEW f, f[x] \in Nat
    PROVE  Total({x}, f) = f[x]
<1>1. UnitsOf({x}, f) = {x} \X (1 .. f[x])
  BY DEF UnitsOf
<1>2. QED
  BY <1>1, UnitsOfOne DEF Total

\* One more element.
LEMMA TotalMore ==
    ASSUME NEW S, NEW f, NEW x, x \notin S, Charged(S, f), f[x] \in Nat
    PROVE  Total(S \cup {x}, f) = Total(S, f) + f[x]
<1>1. IsFiniteSet({x})
  BY FS_Singleton
<1>2. Charged({x}, f)
  BY <1>1 DEF Charged
<1>3. Total(S \cup {x}, f) = Total(S, f) + Total({x}, f)
  BY <1>2, TotalUnion
<1>4. QED
  BY <1>3, TotalOne

\* One element less.
LEMMA TotalLess ==
    ASSUME NEW S, NEW f, NEW x \in S, Charged(S, f)
    PROVE  /\ Total(S, f) = Total(S \ {x}, f) + f[x]
           /\ Total(S \ {x}, f) \in Nat /\ Total(S, f) \in Nat
<1>1. IsFiniteSet(S \ {x})
  BY FS_RemoveElement DEF Charged
<1>2. Charged(S \ {x}, f) /\ f[x] \in Nat
  BY <1>1 DEF Charged
<1>3. (S \ {x}) \cup {x} = S
  OBVIOUS
<1>4. Total((S \ {x}) \cup {x}, f) = Total(S \ {x}, f) + f[x]
  BY <1>2, TotalMore
<1>5. QED
  BY <1>2, <1>3, <1>4, TotalType

\* One value changes, and the sum by as much.
LEMMA TotalChange ==
    ASSUME NEW S, NEW f, NEW g, NEW x \in S, Charged(S, f), g[x] \in Nat,
           \A y \in S \ {x} : g[y] = f[y]
    PROVE  /\ Total(S, g) = Total(S, f) - f[x] + g[x]
           /\ Charged(S, g)
<1>1. Charged(S, g)
  BY DEF Charged
<1>2. Total(S \ {x}, g) = Total(S \ {x}, f)
  BY TotalSame
<1>3. /\ Total(S, f) = Total(S \ {x}, f) + f[x] /\ Total(S \ {x}, f) \in Nat
      /\ Total(S, g) = Total(S \ {x}, g) + g[x]
      /\ f[x] \in Nat
  BY <1>1, TotalLess DEF Charged
<1>4. QED
  BY <1>1, <1>2, <1>3

\* A sum of nothings.
LEMMA TotalZero ==
    ASSUME NEW S, NEW f, \A x \in S : f[x] = 0
    PROVE  Total(S, f) = 0
<1>1. UnitsOf(S, f) = {}
  BY DEF UnitsOf
<1>2. QED
  BY <1>1, FS_EmptySet DEF Total

\* The same values at other places.
LEMMA TotalMoved ==
    ASSUME NEW S, NEW T, NEW f, NEW g, Charged(S, f),
           NEW h \in Bijection(S, T), \A x \in S : g[h[x]] = f[x]
    PROVE  Total(T, g) = Total(S, f)
<1> DEFINE U == UnitsOf(S, f)
           V == UnitsOf(T, g)
           m == [u \in U |-> <<h[u[1]], u[2]>>]
<1>0. /\ h \in [S -> T]
      /\ \A x, y \in S : h[x] = h[y] => x = y
      /\ \A y \in T : \E x \in S : h[x] = y
  BY Fun_BijectionProperties
<1>1. \A u \in U : m[u] \in V
  <2> SUFFICES ASSUME NEW u \in U PROVE m[u] \in V
    OBVIOUS
  <2>1. PICK x \in S : \E k \in 1 .. f[x] : u = <<x, k>>
    BY UnitsAre
  <2>2. PICK k \in 1 .. f[x] : u = <<x, k>>
    BY <2>1
  <2>3. m[u] = <<h[x], k>> /\ h[x] \in T /\ k \in 1 .. g[h[x]]
    BY <1>0, <2>2
  <2>4. QED
    BY <2>3, UnitsAre
<1>2. ASSUME NEW v \in V
      PROVE  \E u \in U : m[u] = v
  <2>1. PICK y \in T : \E k \in 1 .. g[y] : v = <<y, k>>
    BY UnitsAre
  <2>2. PICK k \in 1 .. g[y] : v = <<y, k>>
    BY <2>1
  <2>3. PICK x \in S : h[x] = y
    BY <1>0
  <2>4. <<x, k>> \in U
    BY <2>2, <2>3, UnitsAre
  <2>5. m[<<x, k>>] = v
    BY <2>2, <2>3, <2>4
  <2>6. QED
    BY <2>4, <2>5
<1>3. ASSUME NEW u \in U, NEW w \in U, m[u] = m[w]
      PROVE  u = w
  <2>1. PICK x \in S : \E k \in 1 .. f[x] : u = <<x, k>>
    BY UnitsAre
  <2>2. PICK y \in S : \E l \in 1 .. f[y] : w = <<y, l>>
    BY UnitsAre
  <2>3. PICK k \in 1 .. f[x] : u = <<x, k>>
    BY <2>1
  <2>4. PICK l \in 1 .. f[y] : w = <<y, l>>
    BY <2>2
  <2>5. h[x] = h[y] /\ k = l
    BY <1>3, <2>3, <2>4
  <2>6. QED
    BY <1>0, <2>3, <2>4, <2>5
<1>4. m \in Bijection(U, V)
  <2>1. m \in [U -> V]
    BY <1>1
  <2>2. QED
    BY <1>2, <1>3, <2>1, Fun_IsBij, Zenon
<1>5. ExistsBijection(U, V)
  BY <1>4 DEF ExistsBijection
<1>6. IsFiniteSet(U)
  BY TotalType
<1>7. QED
  BY <1>5, <1>6, FS_Bijection DEF Total

\* From f to g the value of x changes, and E, which is empty or one other
\* element, loses its value c.
ValuesChange(S, f, g, x, E, c) ==
    /\ \/ E = {} /\ c = 0
       \/ \E e \in S \ {x} : E = {e} /\ c = f[e]
    /\ \A k \in S : g[k] \in Nat
    /\ \A e \in E : g[e] = 0
    /\ \A k \in S \ (E \cup {x}) : g[k] = f[k]

\* The sum follows such a change.
LEMMA TotalChanges ==
    ASSUME NEW S, NEW f, NEW g, NEW x \in S, NEW E, NEW c, Charged(S, f),
           ValuesChange(S, f, g, x, E, c)
    PROVE  Total(S, g) = Total(S, f) - f[x] + g[x] - c
<1>1. CASE E = {} /\ c = 0
  <2>1. Total(S, g) = Total(S, f) - f[x] + g[x]
    BY <1>1, TotalChange DEF ValuesChange
  <2>2. Total(S, f) \in Nat /\ f[x] \in Nat /\ g[x] \in Nat
    BY TotalType DEF Charged, ValuesChange
  <2>3. QED
    BY <1>1, <2>1, <2>2
<1>2. ASSUME NEW e \in S \ {x}, E = {e}, c = f[e]
      PROVE  Total(S, g) = Total(S, f) - f[x] + g[x] - c
  <2> DEFINE h == [k \in S |-> IF k = x THEN g[x] ELSE f[k]]
  <2>1. h[x] = g[x] /\ h[e] = f[e] /\ \A k \in S \ {x} : h[k] = f[k]
    OBVIOUS
  <2>2. g[e] = 0 /\ \A k \in S \ {e} : g[k] = h[k]
    BY <1>2 DEF ValuesChange
  <2> HIDE DEF h
  <2>3. Total(S, h) = Total(S, f) - f[x] + h[x] /\ Charged(S, h)
    <3>1. h[x] \in Nat
      BY <2>1 DEF ValuesChange
    <3>2. QED
      BY <2>1, <3>1, TotalChange
  <2>4. Total(S, g) = Total(S, h) - h[e] + g[e]
    <3>1. e \in S /\ g[e] \in Nat /\ Charged(S, h) /\ \A k \in S \ {e} : g[k] = h[k]
      BY <2>2, <2>3
    <3>2. QED
      BY ONLY <3>1, TotalChange
  <2>5. Total(S, f) \in Nat /\ f[x] \in Nat /\ g[x] \in Nat /\ f[e] \in Nat
    BY TotalType DEF Charged, ValuesChange
  <2>6. QED
    BY <1>2, <2>1, <2>2, <2>3, <2>4, <2>5
<1>3. QED
  BY <1>1, <1>2 DEF ValuesChange
--------------------------------------------------------------------------------
(* Sums of sequences of numbers.                                           *)

\* What a sequence of numbers is to a sum.
LEMMA SumIs ==
    ASSUME NEW s \in Seq(Nat)
    PROVE  /\ Len(s) \in Nat /\ DOMAIN s = 1 .. Len(s)
           /\ Charged(1 .. Len(s), s)
           /\ SumOf(s) = Total(1 .. Len(s), s) /\ SumOf(s) \in Nat
<1>1. Len(s) \in Nat /\ DOMAIN s = 1 .. Len(s) /\ \A i \in 1 .. Len(s) : s[i] \in Nat
  BY LenProperties, ElementOfSeq
<1>2. IsFiniteSet(1 .. Len(s))
  BY <1>1, FS_Interval
<1>3. Charged(1 .. Len(s), s)
  BY <1>1, <1>2 DEF Charged
<1>4. SumOf(s) = Total(1 .. Len(s), s)
  BY <1>1 DEF SumOf
<1>5. QED
  BY <1>1, <1>3, <1>4, TotalType

\* The sum of the empty sequence.
LEMMA SumEmpty == SumOf(<< >>) = 0
<1>1. DOMAIN << >> = {}
  OBVIOUS
<1>2. QED
  BY <1>1, TotalEmpty DEF SumOf

\* One more number at the end.
LEMMA SumAppended ==
    ASSUME NEW s \in Seq(Nat), NEW x \in Nat
    PROVE  SumOf(Append(s, x)) = SumOf(s) + x
<1> DEFINE r == Append(s, x)
           n == Len(s)
           S == 1 .. Len(s)
           m == Len(s) + 1
<1>1. /\ n \in Nat /\ r \in Seq(Nat) /\ Len(r) = n + 1
      /\ \A i \in 1 .. n : r[i] = s[i]
      /\ r[m] = x
  BY LenProperties, AppendProperties
<1>2. 1 .. Len(r) = S \cup {m} /\ m \notin S
  BY <1>1
<1>3. \A i \in S : r[i] = s[i]
  BY <1>1
<1>4. Charged(S, s) /\ SumOf(s) = Total(S, s)
  BY SumIs
<1>5. SumOf(r) = Total(S \cup {m}, r) /\ Charged(S \cup {m}, r)
  BY <1>1, <1>2, SumIs
<1>6. Charged(S, r)
  BY <1>3, <1>4 DEF Charged
<1>7. r[m] \in Nat
  BY <1>1
<1> HIDE DEF r, S, m
<1>8. Total(S \cup {m}, r) = Total(S, r) + r[m]
  BY <1>2, <1>6, <1>7, TotalMore
<1>9. Total(S, r) = Total(S, s)
  BY <1>3, TotalSame
<1>10. QED
  BY <1>1, <1>4, <1>5, <1>8, <1>9 DEF r

\* One number replaced by another.
LEMMA SumReplaced ==
    ASSUME NEW s \in Seq(Nat), NEW i \in 1 .. Len(s), NEW x \in Nat
    PROVE  /\ [s EXCEPT ![i] = x] \in Seq(Nat) /\ s[i] \in Nat
           /\ SumOf([s EXCEPT ![i] = x]) = SumOf(s) - s[i] + x
<1> DEFINE r == [s EXCEPT ![i] = x]
           S == 1 .. Len(s)
<1>1. r \in Seq(Nat) /\ Len(r) = Len(s) /\ \A j \in S : r[j] = IF j = i THEN x ELSE s[j]
  BY ExceptSeq
<1>2. SumOf(r) = Total(S, r)
  BY <1>1, SumIs
<1>3. SumOf(s) = Total(S, s) /\ Charged(S, s)
  BY SumIs
<1>4. r[i] = x /\ \A j \in S \ {i} : r[j] = s[j]
  BY <1>1
<1>5. s[i] \in Nat
  BY ElementOfSeq
<1> HIDE DEF r, S
<1>6. Total(S, r) = Total(S, s) - s[i] + r[i]
  <2>1. i \in S /\ r[i] \in Nat
    BY <1>4 DEF S
  <2>2. i \in S /\ r[i] \in Nat /\ Charged(S, s) /\ \A j \in S \ {i} : r[j] = s[j]
    BY <1>3, <1>4, <2>1 DEF S
  <2>3. (Total(S, r) = Total(S, s) - s[i] + r[i]) /\ Charged(S, r)
    BY <2>2, TotalChange, ZenonT(30)
  <2>4. QED
    BY <2>3
<1>7. QED
  BY <1>1, <1>2, <1>3, <1>4, <1>5, <1>6 DEF r, S

\* A sequence cut in two.
LEMMA SumCut ==
    ASSUME NEW s \in Seq(Nat), NEW n \in 0 .. Len(s)
    PROVE  SumOf(SubSeq(s, 1, n)) + SumOf(SubSeq(s, n + 1, Len(s))) = SumOf(s)
<1> DEFINE a == SubSeq(s, 1, n)
           b == SubSeq(s, n + 1, Len(s))
           m == Len(s) - n
           move == [i \in 1 .. m |-> n + i]
           L == 1 .. n
           R == n + 1 .. Len(s)
           B == 1 .. m
<1>1. /\ Len(s) \in Nat /\ n \in Nat /\ n <= Len(s) /\ m \in Nat
      /\ a \in Seq(Nat) /\ Len(a) = n /\ \A i \in 1 .. n : a[i] = s[i]
      /\ b \in Seq(Nat) /\ Len(b) = m
      /\ \A i \in 1 .. m : b[i] = s[n + i]
  <2>1. /\ Len(s) \in Nat /\ n \in Nat /\ n <= Len(s) /\ m \in Nat
        /\ \A i \in 1 .. Len(s) : s[i] \in Nat
    BY LenProperties, ElementOfSeq
  <2>2. a \in Seq(Nat) /\ Len(a) = n /\ \A i \in 1 .. n : a[i] = s[i]
    BY <2>1, SubSeqProperties
  <2>3. b \in Seq(Nat) /\ Len(b) = m /\ \A i \in 1 .. m : b[i] = s[n + i]
    BY <2>1, SubSeqProperties
  <2>4. QED
    BY <2>1, <2>2, <2>3
<1>2. SumOf(a) = Total(L, a) /\ SumOf(b) = Total(B, b) /\ Charged(L, a) /\ Charged(B, b)
  BY <1>1, SumIs
<1>3. SumOf(s) = Total(1 .. Len(s), s) /\ Charged(1 .. Len(s), s)
  BY SumIs
<1>4. 1 .. Len(s) = L \cup R /\ L \cap R = {}
  BY <1>1
<1>5. move \in Bijection(B, R)
  <2>1. move \in [B -> R]
    <3>1. \A i \in B : n + i \in R
      <4>1. Len(s) \in Nat /\ n \in Nat /\ n <= Len(s)
        BY <1>1
      <4>2. QED
        BY ONLY <4>1 DEF B, R, m
    <3>2. QED
      BY <3>1
  <2>2. \A i, j \in B : move[i] = move[j] => i = j
    BY <1>1
  <2>3. ASSUME NEW k \in R
        PROVE  \E i \in B : move[i] = k
    <3>1. k - n \in B /\ n + (k - n) = k
      BY <1>1
    <3>2. move[k - n] = k
      BY <3>1
    <3>3. QED
      BY <3>1, <3>2
  <2>4. QED
    BY <2>1, <2>2, <2>3, Fun_IsBij, Zenon
<1>6. \A i \in B : s[move[i]] = b[i]
  BY <1>1
<1>7. \A i \in L : s[i] = a[i]
  BY <1>1
<1>8. Charged(L, s) /\ Charged(R, s)
  <2>1. IsFiniteSet(L) /\ IsFiniteSet(R)
    BY <1>1, FS_Interval
  <2>2. QED
    BY <1>3, <1>4, <2>1 DEF Charged
<1> HIDE DEF a, b, move, L, R, B
<1>9. Total(R, s) = Total(B, b)
  BY <1>2, <1>5, <1>6, TotalMoved
<1>10. Total(L, s) = Total(L, a)
  BY <1>7, TotalSame
<1>11. Total(L \cup R, s) = Total(L, s) + Total(R, s)
  BY <1>4, <1>8, TotalUnion
<1>12. SumOf(s) = SumOf(a) + SumOf(b)
  BY <1>2, <1>3, <1>4, <1>9, <1>10, <1>11, Zenon
<1>13. QED
  BY <1>12 DEF a, b

\* A number taken from the front.
LEMMA SumTail ==
    ASSUME NEW s \in Seq(Nat), s # << >>
    PROVE  /\ Head(s) \in Nat /\ Tail(s) \in Seq(Nat) /\ Len(Tail(s)) = Len(s) - 1
           /\ SumOf(s) = Head(s) + SumOf(Tail(s)) /\ SumOf(Tail(s)) \in Nat
<1>1. /\ Head(s) \in Nat /\ Tail(s) \in Seq(Nat) /\ Len(Tail(s)) = Len(s) - 1
      /\ Len(s) \in Nat \ {0} /\ Tail(s) = SubSeq(s, 2, Len(s)) /\ Head(s) = s[1]
  BY HeadTailProperties, EmptySeq, TailIsSubSeq
<1>2. SubSeq(s, 1, 1) \in Seq(Nat) /\ Len(SubSeq(s, 1, 1)) = 1 /\ SubSeq(s, 1, 1)[1] = s[1]
  BY <1>1, SubSeqProperties
<1>3. SumOf(SubSeq(s, 1, 1)) = s[1]
  <2> DEFINE t == SubSeq(s, 1, 1)
  <2>1. t \in Seq(Nat) /\ 1 .. Len(t) = {1} /\ t[1] = s[1] /\ t[1] \in Nat
    BY <1>1, <1>2
  <2> HIDE DEF t
  <2>2. SumOf(t) = Total(1 .. Len(t), t)
    BY <2>1, SumIs
  <2>3. SumOf(t) = Total({1}, t)
    BY <2>1, <2>2, Zenon
  <2>4. Total({1}, t) = t[1]
    BY <2>1, TotalOne
  <2>5. QED
    BY <2>1, <2>3, <2>4 DEF t
<1>4. SumOf(SubSeq(s, 1, 1)) + SumOf(SubSeq(s, 1 + 1, Len(s))) = SumOf(s)
  BY <1>1, SumCut
<1>5. SumOf(Tail(s)) \in Nat
  BY <1>1, SumIs
<1>6. SubSeq(s, 1 + 1, Len(s)) = Tail(s)
  BY <1>1
<1>7. SumOf(s) = Head(s) + SumOf(Tail(s))
  BY <1>1, <1>3, <1>4, <1>6
<1>8. QED
  BY <1>1, <1>5, <1>7
================================================================================
