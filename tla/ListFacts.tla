------------------------------- MODULE ListFacts -------------------------------
(***************************************************************************)
(* Facts about naturals, finite sets and sequences that the proofs of      *)
(* several modules need: least and greatest members, induction as a fact   *)
(* about sets of naturals, sets listed as sequences, what the recursive    *)
(* definition of a concatenation says step by step, sums and counts, the   *)
(* items at some places of a list, and stable sorting.                     *)
(***************************************************************************)
EXTENDS Selection, StableSort, FiniteSetTheorems, SequenceTheorems,
        WellFoundedInduction, TLAPS

\* A set of naturals has a least member.
LEMMA LeastOf ==
  ASSUME NEW S, S \subseteq Nat, S # {}
  PROVE  \E n \in S : \A m \in S : n <= m
<1> DEFINE Below == {0..n : n \in S}
<1>1. \A n \in Nat : IsFiniteSet(0..n)
  BY FS_Interval
<1>2. Below \subseteq FiniteSubsetsOf(Nat) /\ Below # {}
  <2>1. \A n \in S : 0..n \subseteq Nat /\ IsFiniteSet(0..n)
    BY <1>1
  <2>2. \A n \in S : 0..n \in FiniteSubsetsOf(Nat)
    BY <2>1 DEF FiniteSubsetsOf
  <2> QED
    BY <2>2
<1>3. PICK B \in Below : \A C \in Below : <<C, B>> \notin StrictSubsetOrdering(Nat)
  <2> HIDE DEF Below
  <2> QED
    BY <1>2, FS_StrictSubsetOrderingWellFounded, WFMin
<1>4. PICK n \in S : B = 0..n
  BY DEF Below
<1>5. ASSUME NEW m \in S, m < n PROVE FALSE
  <2>1. 0..m \in Below /\ 0..m \subseteq 0..n /\ 0..m # 0..n
    <3>1. n \in 0..n /\ n \notin 0..m /\ 0..m \subseteq 0..n
      BY <1>5
    <3> QED
      BY <3>1
  <2>2. <<0..m, B>> \in StrictSubsetOrdering(Nat)
    BY <2>1, <1>4 DEF StrictSubsetOrdering
  <2> QED
    BY <1>3, <2>1, <2>2
<1> QED
  BY <1>5

\* A bounded set of naturals has a greatest member.
LEMMA GreatestOf ==
  ASSUME NEW S, S \subseteq Nat, S # {}, NEW b \in Nat, \A n \in S : n <= b
  PROVE  \E n \in S : \A m \in S : m <= n
<1> DEFINE T == {b - n : n \in S}
<1>1. T \subseteq Nat /\ T # {}
  <2>1. \A n \in S : b - n \in Nat
    OBVIOUS
  <2> QED
    BY <2>1
<1>2. PICK t \in T : \A u \in T : t <= u
  <2> HIDE DEF T
  <2> QED
    BY <1>1, LeastOf
<1>3. PICK n \in S : t = b - n
  OBVIOUS
<1>4. \A m \in S : b - n <= b - m
  BY <1>2, <1>3
<1>5. \A m \in S : m <= n
  <2> TAKE m \in S
  <2>1. m \in Nat /\ n \in Nat /\ b - n <= b - m
    BY <1>4
  <2> HIDE DEF T
  <2> QED
    BY ONLY <2>1, b \in Nat
<1> QED
  BY <1>5

\* Induction: a set with 0, and with n + 1 whenever with n, has every natural.
LEMMA Induction ==
  ASSUME NEW S, 0 \in S, \A n \in Nat : n \in S => n + 1 \in S
  PROVE  Nat \subseteq S
<1> DEFINE Missing == Nat \ S
<1> SUFFICES ASSUME Missing # {} PROVE FALSE
  OBVIOUS
<1>1. PICK n \in Missing : \A m \in Missing : n <= m
  <2>1. Missing \subseteq Nat
    OBVIOUS
  <2> HIDE DEF Missing
  <2> QED
    BY <2>1, LeastOf
<1>2. n \in Nat /\ n # 0 /\ n \notin S
  OBVIOUS
<1>3. n - 1 \in Nat /\ ~(n <= n - 1) /\ (n - 1) + 1 = n
  BY <1>2
<1>4. n - 1 \in S
  BY <1>1, <1>3
<1> QED
  BY <1>2, <1>3, <1>4

\* A finite set as a sequence: every member, at one place.
LEMMA Listed ==
  ASSUME NEW S, IsFiniteSet(S)
  PROVE  /\ SetToSeq(S) \in Seq(S)
         /\ Len(SetToSeq(S)) = Cardinality(S)
         /\ Cardinality(S) \in Nat
         /\ DOMAIN SetToSeq(S) = 1..Cardinality(S)
         /\ \A i \in 1..Cardinality(S) : SetToSeq(S)[i] \in S
         /\ \A i, j \in 1..Cardinality(S) : SetToSeq(S)[i] = SetToSeq(S)[j] => i = j
         /\ \A x \in S : \E i \in 1..Cardinality(S) : SetToSeq(S)[i] = x
<1> DEFINE n == Cardinality(S)
           Enum(f) == f \in [1..n -> S] /\ IsInjective(f)
           s == CHOOSE f \in [1..n -> S] : IsInjective(f)
<1>1. n \in Nat
  BY FS_CardinalityType
<1>2. PICK b : b \in Bijection(1..n, S)
  BY <1>1, FS_CardinalityType DEF ExistsBijection
<1>3. b \in [1..n -> S] /\ \A i, j \in 1..n : b[i] = b[j] => i = j
  BY <1>2 DEF Bijection, Injection, IsInjective
<1>4. IsInjective(b)
  BY <1>3 DEF IsInjective
<1>5. s \in [1..n -> S] /\ IsInjective(s)
  <2> HIDE DEF n
  <2> QED
    BY <1>3, <1>4
<1>6. \A i, j \in 1..n : s[i] = s[j] => i = j
  <2> HIDE DEF s, n
  <2> QED
    BY <1>5 DEF IsInjective
<1>7. s = SetToSeq(S)
  BY DEF SetToSeq
<1> HIDE DEF s
<1>8. \A x \in S : \E i \in 1..n : s[i] = x
  <2>1. s \in Injection(1..n, S)
    BY <1>5, <1>6 DEF Injection, IsInjective
  <2>2. IsFiniteSet(1..n) /\ Cardinality(1..n) = n
    BY <1>1, FS_Interval
  <2>3. s \in Surjection(1..n, S)
    <3>1. Cardinality(1..n) = Cardinality(S)
      BY <2>2
    <3> HIDE DEF n, s
    <3> QED
      BY <2>1, <3>1, FS_Injection
  <2> QED
    BY <2>3 DEF Surjection
<1> HIDE DEF n
<1>9. s \in Seq(S) /\ Len(s) = n
  BY <1>1, <1>5
<1> QED
  BY <1>1, <1>5, <1>6, <1>7, <1>8, <1>9 DEF n

\* The concatenation of sequences, step by step.
LEMMA Flattened ==
  ASSUME NEW T, NEW seqs \in Seq(Seq(T))
  PROVE  \E f : /\ f[0] = <<>>
                /\ \A i \in 1..Len(seqs) : f[i] = f[i-1] \o seqs[i]
                /\ FlattenSeq(seqs) = f[Len(seqs)]
<1> DEFINE n == Len(seqs)
           Step(f, m) == [i \in 1..m |-> IF i = 1 THEN seqs[i] ELSE f[i-1] \o seqs[i]]
           Good == {m \in Nat : \E f : f = Step(f, m)}
           Flat == CHOOSE f : f = Step(f, Len(seqs))
           g == [i \in 0..n |-> IF i = 0 THEN <<>> ELSE Flat[i]]
<1>1. n \in Nat /\ DOMAIN seqs = 1..n /\ \A i \in 1..n : seqs[i] \in Seq(T)
  OBVIOUS
<1>2. n # 0 => FlattenSeq(seqs) = Flat[n]
  BY DEF FlattenSeq
<1>3. n = 0 => FlattenSeq(seqs) = <<>>
  BY DEF FlattenSeq
<1> HIDE DEF n
<1>4. 0 \in Good
  <2> DEFINE e == [i \in 1..0 |-> i]
  <2>1. 1..0 = {}
    OBVIOUS
  <2>2. e = Step(e, 0)
    BY <2>1
  <2> QED
    BY <2>2
<1>5. ASSUME NEW m \in Nat, m \in Good PROVE m + 1 \in Good
  <2>1. PICK f : f = Step(f, m)
    BY <1>5
  <2> DEFINE h == [i \in 1..(m+1) |-> IF i = m + 1
                                        THEN IF i = 1 THEN seqs[i] ELSE f[i-1] \o seqs[i]
                                        ELSE f[i]]
  <2>2. \A i \in 1..m : f[i] = IF i = 1 THEN seqs[i] ELSE f[i-1] \o seqs[i]
    <3> HIDE DEF Good
    <3>1. DOMAIN f = 1..m /\ \A i \in 1..m : f[i] = Step(f, m)[i]
      BY <2>1
    <3> QED
      BY <3>1
  <2>3. \A i \in 1..m : h[i] = f[i]
    OBVIOUS
  <2>4. \A i \in 1..(m+1) : h[i] = IF i = 1 THEN seqs[i] ELSE h[i-1] \o seqs[i]
    <3> TAKE i \in 1..(m+1)
    <3>1. CASE i = 1
      <4>1. CASE m = 0
        BY <3>1, <4>1
      <4>2. CASE m # 0
        <5>1. i \in 1..m
          BY <3>1, <4>2
        <5> QED
          BY <5>1, <3>1, <2>2, <2>3
      <4> QED
        BY <4>1, <4>2
    <3>2. CASE i # 1
      <4>1. i - 1 \in 1..m /\ h[i-1] = f[i-1]
        BY <3>2
      <4>2. CASE i = m + 1
        BY <3>2, <4>1, <4>2
      <4>3. CASE i # m + 1
        <5>1. i \in 1..m
          BY <4>3
        <5> QED
          BY <5>1, <3>2, <4>1, <2>2, <2>3
      <4> QED
        BY <4>2, <4>3
    <3> QED
      BY <3>1, <3>2
  <2>5. h = Step(h, m + 1)
    <3>1. h = [i \in 1..(m+1) |-> h[i]]
      OBVIOUS
    <3> HIDE DEF h
    <3> QED
      BY <3>1, <2>4
  <2> HIDE DEF h
  <2>6. \E x : x = Step(x, m + 1)
    BY <2>5
  <2>7. m + 1 \in Nat
    OBVIOUS
  <2> HIDE DEF Step
  <2> QED
    BY <2>6, <2>7
<1>6. n \in Good
  <2> HIDE DEF Good
  <2> QED
    BY <1>1, <1>4, <1>5, Induction
<1>7. Flat = Step(Flat, n)
  BY <1>6 DEF n
<1> HIDE DEF Flat
<1>8. \A i \in 1..n : Flat[i] = IF i = 1 THEN seqs[i] ELSE Flat[i-1] \o seqs[i]
  BY <1>7
<1>9. g[0] = <<>> /\ \A i \in 1..n : g[i] = Flat[i]
  BY <1>1
<1> HIDE DEF g
<1>10. \A i \in 1..n : g[i] = g[i-1] \o seqs[i]
  <2> TAKE i \in 1..n
  <2>1. CASE i = 1
    <3>1. g[i] = seqs[i] /\ g[i-1] = <<>>
      BY <2>1, <1>8, <1>9
    <3>2. <<>> \o seqs[i] = seqs[i]
      BY <1>1
    <3> QED
      BY <3>1, <3>2
  <2>2. CASE i # 1
    <3>1. i - 1 \in 1..n
      BY <1>1, <2>2
    <3> QED
      BY <3>1, <2>2, <1>8, <1>9
  <2> QED
    BY <2>1, <2>2
<1>11. FlattenSeq(seqs) = g[n]
  <2>1. CASE n = 0
    BY <2>1, <1>3, <1>9
  <2>2. CASE n # 0
    <3>1. n \in 1..n
      BY <1>1, <2>2
    <3> QED
      BY <3>1, <2>2, <1>2, <1>9
  <2> QED
    BY <2>1, <2>2
<1> QED
  BY <1>9, <1>10, <1>11 DEF n

\* A recursion over 0..m from e, whose b-th step is next[b], stays within T.
Iterates(T, m, e, next) ==
  \E f \in [0..m -> T] : f[0] = e /\ \A b \in 1..m : f[b] = next[b][f[b-1]]

\* It exists if every step does.
LEMMA Iterated ==
  ASSUME NEW T, NEW m \in Nat, NEW e \in T, NEW next,
         \A b \in 1..m, t \in T : next[b][t] \in T
  PROVE  Iterates(T, m, e, next)
<1> DEFINE Upto(f, l) == f[0] = e /\ \A b \in 1..l : f[b] = next[b][f[b-1]]
           Good == {l \in Nat : l <= m => \E f \in [0..l -> T] : Upto(f, l)}
<1>1. 0 \in Good
  <2> DEFINE g == [b \in 0..0 |-> e]
  <2>1. g \in [0..0 -> T] /\ Upto(g, 0)
    OBVIOUS
  <2> QED
    BY <2>1
<1>2. ASSUME NEW l \in Nat, l \in Good PROVE l + 1 \in Good
  <2> SUFFICES ASSUME l + 1 <= m PROVE \E f \in [0..(l+1) -> T] : Upto(f, l + 1)
    OBVIOUS
  <2>1. PICK f \in [0..l -> T] : Upto(f, l)
    BY <1>2
  <2> DEFINE g == [b \in 0..(l+1) |-> IF b = l + 1 THEN next[l+1][f[l]] ELSE f[b]]
  <2>2. \A b \in 0..l : g[b] = f[b] /\ f[b] \in T
    OBVIOUS
  <2>3. g[l+1] = next[l+1][f[l]] /\ next[l+1][f[l]] \in T
    <3>1. l + 1 \in 1..m /\ f[l] \in T
      BY <2>2
    <3> QED
      BY <3>1
  <2>4. g \in [0..(l+1) -> T]
    <3>1. \A b \in 0..(l+1) : g[b] \in T
      <4>1. \A b \in 0..(l+1) : b \in 0..l \/ b = l + 1
        OBVIOUS
      <4> HIDE DEF g
      <4> QED
        BY <4>1, <2>2, <2>3
    <3> QED
      BY <3>1
  <2> HIDE DEF g
  <2>5. g[0] = e
    BY <2>1, <2>2
  <2>6. \A b \in 1..(l+1) : g[b] = next[b][g[b-1]]
    <3> TAKE b \in 1..(l+1)
    <3>1. CASE b = l + 1
      <4>1. b - 1 = l /\ g[l] = f[l]
        BY <3>1, <2>2
      <4> QED
        BY <4>1, <3>1, <2>3
    <3>2. CASE b # l + 1
      <4>1. b \in 1..l /\ b \in 0..l /\ b - 1 \in 0..l
        BY <3>2
      <4>2. g[b] = f[b] /\ g[b-1] = f[b-1]
        BY <4>1, <2>2
      <4> QED
        BY <4>1, <4>2, <2>1
    <3> QED
      BY <3>1, <3>2
  <2> QED
    BY <2>4, <2>5, <2>6
<1>3. m \in Good
  <2> HIDE DEF Good
  <2> QED
    BY <1>1, <1>2, Induction
<1> QED
  BY <1>3 DEF Iterates

\* One more element.
LEMMA OneMore ==
  ASSUME NEW S, NEW s \in Seq(S), NEW x \in S
  PROVE  /\ Append(s, x) \in Seq(S)
         /\ Len(s) \in Nat /\ DOMAIN s = 1..Len(s)
         /\ Len(Append(s, x)) = Len(s) + 1
         /\ DOMAIN Append(s, x) = 1..(Len(s) + 1)
         /\ \A i \in 1..Len(s) : Append(s, x)[i] = s[i]
         /\ Append(s, x)[Len(s) + 1] = x
         /\ ToSet(Append(s, x)) = ToSet(s) \cup {x}
         /\ IsInjective(s) /\ x \notin ToSet(s) => IsInjective(Append(s, x))
<1> DEFINE t == Append(s, x)
           n == Len(s)
<1>1. /\ t \in Seq(S) /\ n \in Nat /\ DOMAIN s = 1..n /\ Len(t) = n + 1
      /\ DOMAIN t = 1..(n + 1) /\ t[n + 1] = x
  OBVIOUS
<1>2. \A i \in 1..n : t[i] = s[i]
  OBVIOUS
<1>3. \A i \in 1..(n + 1) : i \in 1..n \/ i = n + 1
  BY <1>1
<1>4. 1..n \subseteq 1..(n + 1) /\ n + 1 \in 1..(n + 1)
  BY <1>1
<1> HIDE DEF t, n
<1>5. ToSet(t) = ToSet(s) \cup {x}
  BY <1>1, <1>2, <1>3, <1>4 DEF ToSet
<1>6. ASSUME IsInjective(s), x \notin ToSet(s) PROVE IsInjective(t)
  <2>1. \A i, j \in 1..n : s[i] = s[j] => i = j
    BY <1>1, <1>6 DEF IsInjective
  <2>2. \A i \in 1..n : s[i] # x
    BY <1>1, <1>6 DEF ToSet
  <2>3. \A i, j \in 1..(n + 1) : t[i] = t[j] => i = j
    BY <1>1, <1>2, <1>3, <2>1, <2>2
  <2> QED
    BY <1>1, <2>3 DEF IsInjective
<1> QED
  BY <1>1, <1>2, <1>5, <1>6 DEF t, n

\* One sequence after the other.
LEMMA Concatenated ==
  ASSUME NEW S, NEW a \in Seq(S), NEW b \in Seq(S)
  PROVE  /\ a \o b \in Seq(S)
         /\ ToSet(a \o b) = ToSet(a) \cup ToSet(b)
         /\ IsInjective(a) /\ IsInjective(b) /\ ToSet(a) \cap ToSet(b) = {}
              => IsInjective(a \o b)
<1> DEFINE c == a \o b
           m == Len(a)
           n == Len(b)
<1>1. /\ c \in Seq(S) /\ m \in Nat /\ n \in Nat /\ DOMAIN a = 1..m /\ DOMAIN b = 1..n
      /\ DOMAIN c = 1..(m + n)
  OBVIOUS
<1>2. /\ \A i \in 1..m : c[i] = a[i]
      /\ \A i \in 1..n : c[m + i] = b[i]
  OBVIOUS
<1> HIDE DEF c, m, n
<1>3. \A x \in 1..(m + n) : x \in 1..m \/ \E i \in 1..n : x = m + i
  <2> SUFFICES ASSUME NEW x \in 1..(m + n), x \notin 1..m
               PROVE  \E i \in 1..n : x = m + i
    OBVIOUS
  <2>1. x - m \in 1..n /\ x = m + (x - m)
    BY <1>1
  <2> QED
    BY <2>1
<1>4. /\ \A i \in 1..m : i \in 1..(m + n)
      /\ \A i \in 1..n : m + i \in 1..(m + n)
  BY <1>1
<1>5. ToSet(c) = ToSet(a) \cup ToSet(b)
  <2>1. ASSUME NEW y \in ToSet(c) PROVE y \in ToSet(a) \cup ToSet(b)
    <3>1. PICK x \in 1..(m + n) : y = c[x]
      BY <1>1 DEF ToSet
    <3>2. CASE x \in 1..m
      BY <3>1, <3>2, <1>1, <1>2 DEF ToSet
    <3>3. CASE \E i \in 1..n : x = m + i
      BY <3>1, <3>3, <1>1, <1>2 DEF ToSet
    <3> QED
      BY <3>2, <3>3, <1>3
  <2>2. ASSUME NEW y \in ToSet(a) PROVE y \in ToSet(c)
    <3>1. PICK i \in 1..m : y = a[i]
      BY <1>1 DEF ToSet
    <3> QED
      BY <3>1, <1>1, <1>2, <1>4 DEF ToSet
  <2>3. ASSUME NEW y \in ToSet(b) PROVE y \in ToSet(c)
    <3>1. PICK i \in 1..n : y = b[i]
      BY <1>1 DEF ToSet
    <3>2. m + i \in DOMAIN c /\ c[m + i] = y
      BY <3>1, <1>1, <1>2, <1>4
    <3> QED
      BY <3>2 DEF ToSet
  <2> QED
    BY <2>1, <2>2, <2>3
<1>6. ASSUME IsInjective(a), IsInjective(b), ToSet(a) \cap ToSet(b) = {}
      PROVE  IsInjective(c)
  <2>1. /\ \A i, j \in 1..m : a[i] = a[j] => i = j
        /\ \A i, j \in 1..n : b[i] = b[j] => i = j
    BY <1>1, <1>6 DEF IsInjective
  <2>2. \A i \in 1..m, j \in 1..n : a[i] # b[j]
    BY <1>1, <1>6 DEF ToSet
  <2>3. \A x, y \in 1..(m + n) : c[x] = c[y] => x = y
    <3> SUFFICES ASSUME NEW x \in 1..(m + n), NEW y \in 1..(m + n), c[x] = c[y]
                 PROVE  x = y
      OBVIOUS
    <3>1. CASE x \in 1..m /\ y \in 1..m
      BY <3>1, <2>1, <1>2
    <3>2. CASE x \in 1..m /\ \E j \in 1..n : y = m + j
      BY <3>2, <2>2, <1>2
    <3>3. CASE y \in 1..m /\ \E i \in 1..n : x = m + i
      BY <3>3, <2>2, <1>2
    <3>4. CASE (\E i \in 1..n : x = m + i) /\ (\E j \in 1..n : y = m + j)
      <4>1. PICK i \in 1..n, j \in 1..n : x = m + i /\ y = m + j
        BY <3>4
      <4>2. b[i] = b[j]
        BY <4>1, <1>2
      <4> QED
        BY <4>1, <4>2, <2>1
    <3> QED
      BY <3>1, <3>2, <3>3, <3>4, <1>3
  <2> QED
    BY <1>1, <2>3 DEF IsInjective
<1> QED
  BY <1>1, <1>5, <1>6 DEF c

\* A sequence of what it holds.
LEMMA Narrowed ==
  ASSUME NEW S, NEW T, NEW s \in Seq(S), ToSet(s) \subseteq T
  PROVE  s \in Seq(T)
<1>1. s = [i \in 1..Len(s) |-> s[i]] /\ Len(s) \in Nat /\ DOMAIN s = 1..Len(s)
  OBVIOUS
<1>2. \A i \in 1..Len(s) : s[i] \in T
  BY <1>1 DEF ToSet
<1> QED
  BY <1>1, <1>2

\* A concatenation of many holds what they hold.
LEMMA FlattenedSet ==
  ASSUME NEW T, NEW seqs \in Seq(Seq(T))
  PROVE  /\ FlattenSeq(seqs) \in Seq(T)
         /\ ToSet(FlattenSeq(seqs)) = UNION {ToSet(seqs[i]) : i \in 1..Len(seqs)}
<1> DEFINE m == Len(seqs)
<1>1. m \in Nat /\ \A i \in 1..m : seqs[i] \in Seq(T)
  OBVIOUS
<1>2. PICK f : /\ f[0] = <<>>
               /\ \A i \in 1..m : f[i] = f[i-1] \o seqs[i]
               /\ FlattenSeq(seqs) = f[m]
  BY Flattened
<1> HIDE DEF m
<1> DEFINE Held(n) == UNION {ToSet(seqs[i]) : i \in 1..n}
           Good == {n \in Nat : n \in 0..m => f[n] \in Seq(T) /\ ToSet(f[n]) = Held(n)}
<1>3. 0 \in Good
  <2>1. f[0] = <<>> /\ 1..0 = {} /\ DOMAIN <<>> = {} /\ <<>> \in Seq(T)
    BY <1>2
  <2>2. ToSet(<<>>) = {}
    BY <2>1 DEF ToSet
  <2>3. Held(0) = {}
    BY <2>1
  <2> HIDE DEF Held
  <2> QED
    BY <2>1, <2>2, <2>3
<1>4. ASSUME NEW n \in Nat, n \in Good PROVE n + 1 \in Good
  <2> SUFFICES ASSUME n + 1 \in 0..m
               PROVE  f[n+1] \in Seq(T) /\ ToSet(f[n+1]) = Held(n + 1)
    OBVIOUS
  <2>1. /\ n \in 0..m /\ n + 1 \in 1..m /\ (n + 1) - 1 = n
        /\ 1..(n+1) = 1..n \cup {n + 1}
    BY <1>1
  <2>2. f[n] \in Seq(T) /\ ToSet(f[n]) = Held(n)
    BY <1>4, <2>1
  <2>3. f[n+1] = f[n] \o seqs[n+1] /\ seqs[n+1] \in Seq(T)
    BY <2>1, <1>1, <1>2
  <2>4. /\ f[n] \o seqs[n+1] \in Seq(T)
        /\ ToSet(f[n] \o seqs[n+1]) = ToSet(f[n]) \cup ToSet(seqs[n+1])
    BY <2>2, <2>3, Concatenated
  <2>5. Held(n + 1) = Held(n) \cup ToSet(seqs[n+1])
    BY <2>1
  <2> HIDE DEF Held
  <2> QED
    BY <2>2, <2>3, <2>4, <2>5
<1>5. m \in Good
  <2> HIDE DEF Good
  <2> QED
    BY <1>1, <1>3, <1>4, Induction
<1>6. m \in 0..m
  BY <1>1
<1> QED
  BY <1>2, <1>5, <1>6 DEF m

\* ItemsAt, line by line.
KeptUpTo(S, lines, places) ==
  \E f \in [0..Len(lines) -> Seq(S)] :
    /\ f[0] = <<>>
    /\ \A n \in 1..Len(lines) :
         f[n] = IF n \in places THEN Append(f[n-1], lines[n]) ELSE f[n-1]
    /\ ItemsAt(lines, places) = f[Len(lines)]

\* It goes through the lines one after the other.
LEMMA LineByLine ==
  ASSUME NEW S, NEW lines \in Seq(S), NEW places
  PROVE  KeptUpTo(S, lines, places)
<1> DEFINE m == Len(lines)
           T == Seq(S)
           Step(f) == [n \in 0..m |->
                         IF n = 0 THEN <<>>
                         ELSE IF n \in places THEN Append(f[n-1], lines[n]) ELSE f[n-1]]
           kept == CHOOSE f : f = Step(f)
           next == [n \in 1..m |->
                      [s \in T |-> IF n \in places THEN Append(s, lines[n]) ELSE s]]
<1>1. m \in Nat /\ \A n \in 1..m : lines[n] \in S
  OBVIOUS
<1>2. ItemsAt(lines, places) = kept[m]
  BY DEF ItemsAt
<1>3. \A n \in 1..m, s \in T : next[n][s] \in T
  <2>1. \A n \in 1..m, s \in T : Append(s, lines[n]) \in T
    BY <1>1
  <2> HIDE DEF T, m
  <2> QED
    BY <2>1
<1>4. <<>> \in T
  OBVIOUS
<1> HIDE DEF m, T, next
<1>5. PICK f \in [0..m -> T] : f[0] = <<>> /\ \A n \in 1..m : f[n] = next[n][f[n-1]]
  <2> DEFINE none == <<>>
  <2>1. none \in T
    BY <1>4
  <2> HIDE DEF none
  <2>2. Iterates(T, m, none, next)
    BY <1>1, <1>3, <2>1, Iterated
  <2> QED
    BY <2>2 DEF none, Iterates
<1>6. \A n \in 1..m : f[n] = IF n \in places THEN Append(f[n-1], lines[n]) ELSE f[n-1]
  <2> TAKE n \in 1..m
  <2>1. n - 1 \in 0..m
    BY <1>1
  <2>2. f[n-1] \in T
    BY <2>1
  <2> QED
    BY <2>2, <1>5 DEF next
<1>7. f = Step(f)
  <2>1. \A n \in 0..m : n = 0 \/ n \in 1..m
    BY <1>1
  <2>2. \A n \in 0..m : f[n] = IF n = 0 THEN <<>>
                               ELSE IF n \in places THEN Append(f[n-1], lines[n]) ELSE f[n-1]
    BY <2>1, <1>5, <1>6, <1>1
  <2>3. f = [n \in 0..m |-> f[n]]
    OBVIOUS
  <2> QED
    BY <2>2, <2>3
<1>8. kept = Step(kept)
  <2> HIDE DEF Step
  <2> QED
    BY <1>7
<1> HIDE DEF kept
<1> DEFINE Agree == {n \in Nat : n \in 0..m => kept[n] = f[n]}
<1>9. \A n \in 0..m : kept[n] = IF n = 0 THEN <<>>
                      ELSE IF n \in places THEN Append(kept[n-1], lines[n]) ELSE kept[n-1]
  BY <1>8
<1>10. 0 \in Agree
  BY <1>9, <1>5
<1>11. ASSUME NEW n \in Nat, n \in Agree PROVE n + 1 \in Agree
  <2> SUFFICES ASSUME n + 1 \in 0..m PROVE kept[n+1] = f[n+1]
    OBVIOUS
  <2>1. n \in 0..m /\ n + 1 \in 1..m /\ n + 1 # 0 /\ (n + 1) - 1 = n
    BY <1>1
  <2>2. kept[n] = f[n]
    BY <2>1, <1>11
  <2>3. kept[n+1] = IF n + 1 \in places THEN Append(kept[n], lines[n+1]) ELSE kept[n]
    BY <2>1, <1>9
  <2>4. f[n+1] = IF n + 1 \in places THEN Append(f[n], lines[n+1]) ELSE f[n]
    BY <2>1, <1>6
  <2> QED
    BY <2>2, <2>3, <2>4
<1>12. m \in Agree
  <2> HIDE DEF Agree
  <2> QED
    BY <1>1, <1>10, <1>11, Induction
<1>13. kept[m] = f[m]
  BY <1>1, <1>12
<1> QED
  BY <1>2, <1>5, <1>6, <1>13 DEF m, T, KeptUpTo

\* What ItemsAt keeps: the lines at the places, none twice, all of them if
\* there is no other place.
LEMMA KeptLines ==
  ASSUME NEW S, NEW lines \in Seq(S), NEW places
  PROVE  /\ ItemsAt(lines, places) \in Seq(S)
         /\ ToSet(ItemsAt(lines, places)) = {lines[i] : i \in places \cap DOMAIN lines}
         /\ (\A i, j \in places \cap DOMAIN lines : lines[i] = lines[j] => i = j)
              => IsInjective(ItemsAt(lines, places))
         /\ DOMAIN lines \subseteq places => ItemsAt(lines, places) = lines
<1> DEFINE m == Len(lines)
           Once == \A i, j \in places \cap DOMAIN lines : lines[i] = lines[j] => i = j
<1>1. m \in Nat /\ DOMAIN lines = 1..m /\ \A n \in 1..m : lines[n] \in S
  OBVIOUS
<1>2. PICK f \in [0..m -> Seq(S)] :
        /\ f[0] = <<>>
        /\ \A n \in 1..m : f[n] = IF n \in places THEN Append(f[n-1], lines[n]) ELSE f[n-1]
        /\ ItemsAt(lines, places) = f[m]
  <2>1. KeptUpTo(S, lines, places)
    BY LineByLine
  <2> QED
    BY <2>1 DEF KeptUpTo
<1> HIDE DEF m
<1> DEFINE Sofar(n) == {lines[i] : i \in places \cap (1..n)}
           Sound(n) == /\ ToSet(f[n]) = Sofar(n)
                       /\ Once => IsInjective(f[n])
                       /\ DOMAIN lines \subseteq places =>
                            /\ Len(f[n]) = n
                            /\ \A i \in 1..n : f[n][i] = lines[i]
           Good == {n \in Nat : n \in 0..m => Sound(n)}
<1>3. 0 \in Good
  <2>1. f[0] = <<>> /\ 1..0 = {} /\ Len(<<>>) = 0 /\ DOMAIN <<>> = {}
    BY <1>2
  <2>2. ToSet(<<>>) = {} /\ IsInjective(<<>>)
    BY <2>1 DEF ToSet, IsInjective
  <2>3. Sofar(0) = {}
    BY <2>1
  <2> HIDE DEF Sofar
  <2> QED
    BY <2>1, <2>2, <2>3
<1>4. ASSUME NEW n \in Nat, n \in Good PROVE n + 1 \in Good
  <2> SUFFICES ASSUME n + 1 \in 0..m PROVE Sound(n + 1)
    OBVIOUS
  <2>1. /\ n \in 0..m /\ n + 1 \in 1..m /\ (n + 1) - 1 = n
        /\ 1..(n+1) = 1..n \cup {n + 1} /\ n + 1 \notin 1..n
        /\ 1..n \subseteq 1..m
    <3>1. n \in 0..m /\ n + 1 \in 1..m /\ (n + 1) - 1 = n
      BY <1>1
    <3>2. 1..(n+1) = 1..n \cup {n + 1} /\ n + 1 \notin 1..n
      OBVIOUS
    <3>3. 1..n \subseteq 1..m
      BY <3>1, <1>1
    <3> QED
      BY <3>1, <3>2, <3>3
  <2>2. f[n] \in Seq(S) /\ lines[n+1] \in S
    BY <2>1, <1>1, <1>2
  <2>3. f[n+1] = IF n + 1 \in places THEN Append(f[n], lines[n+1]) ELSE f[n]
    BY <2>1, <1>2
  <2>4. Sound(n)
    BY <1>4, <2>1
  <2>5. CASE n + 1 \in places
    <3>1. f[n+1] = Append(f[n], lines[n+1])
      BY <2>3, <2>5
    <3>2. Sofar(n + 1) = Sofar(n) \cup {lines[n+1]}
      BY <2>1, <2>5
    <3>3. ToSet(f[n+1]) = Sofar(n + 1)
      <4>1. ToSet(f[n]) = Sofar(n)
        BY <2>4
      <4>2. ToSet(Append(f[n], lines[n+1])) = ToSet(f[n]) \cup {lines[n+1]}
        BY <2>2, OneMore
      <4> HIDE DEF Sofar
      <4> QED
        BY <3>1, <3>2, <4>1, <4>2
    <3>4. ASSUME Once PROVE IsInjective(f[n+1])
      <4>1. lines[n+1] \notin Sofar(n)
        BY <2>1, <2>5, <3>4, <1>1
      <4> HIDE DEF Sofar, Once
      <4> QED
        BY <3>1, <3>4, <4>1, <2>2, <2>4, OneMore
    <3>5. ASSUME DOMAIN lines \subseteq places
          PROVE  Len(f[n+1]) = n + 1 /\ \A i \in 1..(n+1) : f[n+1][i] = lines[i]
      <4>1. Len(f[n]) = n /\ \A i \in 1..n : f[n][i] = lines[i]
        BY <2>4, <3>5
      <4>2. /\ Len(f[n+1]) = n + 1
            /\ \A i \in 1..n : f[n+1][i] = f[n][i]
            /\ f[n+1][n+1] = lines[n+1]
        BY <3>1, <4>1, <2>2, OneMore
      <4>3. \A i \in 1..(n+1) : i \in 1..n \/ i = n + 1
        BY <2>1
      <4> QED
        BY <4>1, <4>2, <4>3
    <3> HIDE DEF Sofar, Once
    <3> QED
      BY <3>3, <3>4, <3>5
  <2>6. CASE n + 1 \notin places
    <3>1. f[n+1] = f[n]
      BY <2>3, <2>6
    <3>2. Sofar(n + 1) = Sofar(n)
      BY <2>1, <2>6
    <3>3. ~(DOMAIN lines \subseteq places)
      BY <2>1, <2>6, <1>1
    <3> HIDE DEF Sofar, Once
    <3> QED
      BY <3>1, <3>2, <3>3, <2>4
  <2> QED
    BY <2>5, <2>6
<1>5. m \in Good
  <2> HIDE DEF Good
  <2> QED
    BY <1>1, <1>3, <1>4, Induction
<1>6. Sound(m) /\ f[m] \in Seq(S)
  <2>1. m \in 0..m
    BY <1>1
  <2>2. Sound(m)
    <3> HIDE DEF Sound
    <3> QED
      BY <1>5, <2>1
  <2> HIDE DEF Sound, Good
  <2> QED
    BY <2>1, <2>2
<1>7. ToSet(f[m]) = {lines[i] : i \in places \cap DOMAIN lines}
  BY <1>1, <1>6
<1>8. ASSUME DOMAIN lines \subseteq places PROVE f[m] = lines
  <2>1. Len(f[m]) = m /\ \A i \in 1..m : f[m][i] = lines[i]
    BY <1>6, <1>8
  <2> DEFINE s == f[m]
  <2>2. s \in Seq(S)
    BY <1>6
  <2> HIDE DEF s
  <2>3. s = [i \in 1..Len(s) |-> s[i]]
    BY <2>2
  <2>4. lines = [i \in 1..m |-> lines[i]]
    BY DEF m
  <2> QED
    BY <2>1, <2>3, <2>4 DEF s
<1> QED
  BY <1>2, <1>6, <1>7, <1>8

\* ItemsAt of a file to which a line was appended.
LEMMA KeptAfterAppend ==
  ASSUME NEW S, NEW lines \in Seq(S), NEW x \in S, NEW places, NEW more,
         \A i \in 1..Len(lines) : i \in places <=> i \in more
  PROVE  ItemsAt(Append(lines, x), more) =
           IF Len(lines) + 1 \in more THEN Append(ItemsAt(lines, places), x)
                                      ELSE ItemsAt(lines, places)
<1> DEFINE m == Len(lines)
           longer == Append(lines, x)
<1>1. /\ m \in Nat /\ longer \in Seq(S) /\ Len(longer) = m + 1
      /\ \A i \in 1..m : longer[i] = lines[i]
      /\ longer[m + 1] = x
  BY OneMore
<1>2. PICK f \in [0..m -> Seq(S)] :
        /\ f[0] = <<>>
        /\ \A n \in 1..m : f[n] = IF n \in places THEN Append(f[n-1], lines[n]) ELSE f[n-1]
        /\ ItemsAt(lines, places) = f[m]
  <2>1. KeptUpTo(S, lines, places)
    BY LineByLine
  <2> QED
    BY <2>1 DEF KeptUpTo
<1>3. PICK g \in [0..(m+1) -> Seq(S)] :
        /\ g[0] = <<>>
        /\ \A n \in 1..(m+1) :
             g[n] = IF n \in more THEN Append(g[n-1], longer[n]) ELSE g[n-1]
        /\ ItemsAt(longer, more) = g[m+1]
  <2>1. KeptUpTo(S, longer, more)
    BY <1>1, LineByLine
  <2> HIDE DEF m, longer
  <2> QED
    BY <2>1, <1>1 DEF KeptUpTo
<1> HIDE DEF m, longer
<1> DEFINE Good == {n \in Nat : n \in 0..m => f[n] = g[n]}
<1>4. 0 \in Good
  BY <1>2, <1>3
<1>5. ASSUME NEW n \in Nat, n \in Good PROVE n + 1 \in Good
  <2> SUFFICES ASSUME n + 1 \in 0..m PROVE f[n+1] = g[n+1]
    OBVIOUS
  <2>1. n \in 0..m /\ n + 1 \in 1..m /\ n + 1 \in 1..(m+1) /\ (n + 1) - 1 = n
    BY <1>1
  <2>2. f[n] = g[n] /\ longer[n+1] = lines[n+1]
    BY <1>1, <1>5, <2>1
  <2>3. n + 1 \in places <=> n + 1 \in more
    BY <2>1 DEF m
  <2>4. f[n+1] = IF n + 1 \in places THEN Append(f[n], lines[n+1]) ELSE f[n]
    BY <2>1, <1>2
  <2>5. g[n+1] = IF n + 1 \in more THEN Append(g[n], longer[n+1]) ELSE g[n]
    BY <2>1, <1>3
  <2> QED
    BY <2>2, <2>3, <2>4, <2>5
<1>6. m \in Good
  <2> HIDE DEF Good
  <2> QED
    BY <1>1, <1>4, <1>5, Induction
<1>7. f[m] = g[m]
  BY <1>1, <1>6
<1>8. g[m+1] = IF m + 1 \in more THEN Append(g[m], longer[m+1]) ELSE g[m]
  <2>1. m + 1 \in 1..(m+1) /\ (m + 1) - 1 = m
    BY <1>1
  <2> QED
    BY <2>1, <1>3
<1>9. ItemsAt(longer, more) = IF m + 1 \in more THEN Append(ItemsAt(lines, places), x)
                                                 ELSE ItemsAt(lines, places)
  BY <1>1, <1>2, <1>3, <1>7, <1>8
<1> QED
  BY <1>9 DEF m, longer

\* A concatenation with one part more.
LEMMA FlattenedMore ==
  ASSUME NEW T, NEW seqs \in Seq(Seq(T)), NEW x \in Seq(T)
  PROVE  FlattenSeq(Append(seqs, x)) = FlattenSeq(seqs) \o x
<1> DEFINE m == Len(seqs)
           longer == Append(seqs, x)
<1>1. /\ m \in Nat /\ longer \in Seq(Seq(T)) /\ Len(longer) = m + 1
      /\ \A i \in 1..m : longer[i] = seqs[i]
      /\ longer[m + 1] = x
  BY OneMore
<1>2. PICK f : /\ f[0] = <<>>
               /\ \A i \in 1..m : f[i] = f[i-1] \o seqs[i]
               /\ FlattenSeq(seqs) = f[m]
  BY Flattened
<1>3. PICK g : /\ g[0] = <<>>
               /\ \A i \in 1..(m+1) : g[i] = g[i-1] \o longer[i]
               /\ FlattenSeq(longer) = g[m+1]
  <2> HIDE DEF m, longer
  <2> QED
    BY <1>1, Flattened
<1> HIDE DEF m, longer
<1> DEFINE Good == {n \in Nat : n \in 0..m => f[n] = g[n]}
<1>4. 0 \in Good
  BY <1>2, <1>3
<1>5. ASSUME NEW n \in Nat, n \in Good PROVE n + 1 \in Good
  <2> SUFFICES ASSUME n + 1 \in 0..m PROVE f[n+1] = g[n+1]
    OBVIOUS
  <2>1. n \in 0..m /\ n + 1 \in 1..m /\ n + 1 \in 1..(m+1) /\ (n + 1) - 1 = n
    BY <1>1
  <2>2. f[n] = g[n] /\ longer[n+1] = seqs[n+1]
    BY <1>1, <1>5, <2>1
  <2>3. f[n+1] = f[n] \o seqs[n+1] /\ g[n+1] = g[n] \o longer[n+1]
    BY <2>1, <1>2, <1>3
  <2> QED
    BY <2>2, <2>3
<1>6. m \in Good
  <2> HIDE DEF Good
  <2> QED
    BY <1>1, <1>4, <1>5, Induction
<1>7. f[m] = g[m]
  BY <1>1, <1>6
<1>8. g[m+1] = g[m] \o x
  <2>1. m + 1 \in 1..(m+1) /\ (m + 1) - 1 = m
    BY <1>1
  <2> QED
    BY <2>1, <1>1, <1>3
<1> QED
  BY <1>2, <1>3, <1>7, <1>8 DEF longer

\* A list of members of a set.
LEMMA ListOf ==
  ASSUME NEW s, NEW T
  PROVE  /\ s \in Seq(T) => IsList(s) /\ ToSet(s) \subseteq T
         /\ IsList(s) /\ ToSet(s) \subseteq T => s \in Seq(T)
         /\ IsList(s) => Len(s) \in Nat /\ DOMAIN s = 1..Len(s) /\ s = [i \in 1..Len(s) |-> s[i]]
<1>1. ASSUME s \in Seq(T) PROVE IsList(s) /\ ToSet(s) \subseteq T
  <2>1. DOMAIN s = 1..Len(s) /\ \A i \in 1..Len(s) : s[i] \in T
    BY <1>1
  <2>2. ToSet(s) \subseteq T
    BY <2>1 DEF ToSet
  <2>3. s \in Seq(ToSet(s))
    <3> DEFINE Held == ToSet(s)
    <3>1. ToSet(s) \subseteq Held
      OBVIOUS
    <3> HIDE DEF Held
    <3>2. s \in Seq(Held)
      BY <1>1, <3>1, Narrowed
    <3> QED
      BY <3>2 DEF Held
  <2> QED
    BY <2>2, <2>3 DEF IsList
<1>2. ASSUME IsList(s), ToSet(s) \subseteq T PROVE s \in Seq(T)
  BY <1>2, Narrowed DEF IsList
<1>3. ASSUME IsList(s)
      PROVE  Len(s) \in Nat /\ DOMAIN s = 1..Len(s) /\ s = [i \in 1..Len(s) |-> s[i]]
  <2> DEFINE Held == ToSet(s)
  <2>1. s \in Seq(Held)
    BY <1>3 DEF IsList
  <2> HIDE DEF Held
  <2> QED
    BY <2>1
<1> QED
  BY <1>1, <1>2, <1>3

\* A list made item by item.
LEMMA MadeList ==
  ASSUME NEW m \in Nat, NEW s, s = [i \in 1..m |-> s[i]]
  PROVE  /\ IsList(s) /\ Len(s) = m /\ DOMAIN s = 1..m
         /\ ToSet(s) = {s[i] : i \in 1..m}
<1> DEFINE T == {s[i] : i \in 1..m}
<1>1. DOMAIN s = 1..m /\ \A i \in 1..m : s[i] \in T
  OBVIOUS
<1>2. ToSet(s) = T
  BY <1>1 DEF ToSet
<1> HIDE DEF T
<1>3. s \in [1..m -> T]
  BY <1>1
<1>4. s \in Seq(T) /\ Len(s) = m
  BY <1>3
<1> QED
  BY <1>1, <1>2, <1>4 DEF T, IsList

\* A concatenation of lists is a list of what they hold.
LEMMA FlattenedLists ==
  ASSUME NEW m \in Nat, NEW seqs, seqs = [i \in 1..m |-> seqs[i]],
         \A i \in 1..m : IsList(seqs[i])
  PROVE  /\ IsList(FlattenSeq(seqs))
         /\ ToSet(FlattenSeq(seqs)) = UNION {ToSet(seqs[i]) : i \in 1..m}
<1> DEFINE T == UNION {ToSet(seqs[i]) : i \in 1..m}
<1>1. \A i \in 1..m : ToSet(seqs[i]) \subseteq T
  OBVIOUS
<1> HIDE DEF T
<1>2. \A i \in 1..m : seqs[i] \in Seq(T)
  BY <1>1, ListOf
<1>3. seqs \in Seq(Seq(T)) /\ Len(seqs) = m
  BY <1>2
<1>4. FlattenSeq(seqs) \in Seq(T) /\ ToSet(FlattenSeq(seqs)) = T
  BY <1>3, FlattenedSet DEF T
<1> QED
  BY <1>4, ListOf DEF T

\* The first items of a list.
LEMMA FirstItems ==
  ASSUME NEW S, NEW lines \in Seq(S), NEW n \in 0..Len(lines), NEW places,
         \A i \in 1..Len(lines) : i \in places <=> i <= n
  PROVE  /\ ItemsAt(lines, places) = [i \in 1..n |-> lines[i]]
         /\ ItemsAt(lines, places) \in Seq(S) /\ Len(ItemsAt(lines, places)) = n
<1> DEFINE m == Len(lines)
<1>1. m \in Nat /\ DOMAIN lines = 1..m /\ n \in Nat /\ n <= m /\ \A i \in 1..m : lines[i] \in S
  OBVIOUS
<1>2. PICK f \in [0..m -> Seq(S)] :
        /\ f[0] = <<>>
        /\ \A i \in 1..m : f[i] = IF i \in places THEN Append(f[i-1], lines[i]) ELSE f[i-1]
        /\ ItemsAt(lines, places) = f[m]
  <2>1. KeptUpTo(S, lines, places)
    BY LineByLine
  <2> QED
    BY <2>1 DEF KeptUpTo
<1>3. \A i \in 1..m : i \in places <=> i <= n
  OBVIOUS
<1> HIDE DEF m
<1> DEFINE Sound(k) == IF k <= n THEN Len(f[k]) = k /\ \A i \in 1..k : f[k][i] = lines[i]
                                 ELSE f[k] = f[n]
           Good == {k \in Nat : k \in 0..m => Sound(k)}
<1>4. 0 \in Good
  BY <1>1, <1>2
<1>5. ASSUME NEW k \in Nat, k \in Good PROVE k + 1 \in Good
  <2> SUFFICES ASSUME k + 1 \in 0..m PROVE Sound(k + 1)
    OBVIOUS
  <2>1. k \in 0..m /\ k + 1 \in 1..m /\ (k + 1) - 1 = k
    BY <1>1
  <2>2. f[k] \in Seq(S) /\ lines[k+1] \in S
    BY <2>1, <1>1, <1>2
  <2>3. f[k+1] = IF k + 1 \in places THEN Append(f[k], lines[k+1]) ELSE f[k]
    BY <2>1, <1>2
  <2>4. Sound(k)
    BY <1>5, <2>1
  <2>5. CASE k + 1 <= n
    <3>1. f[k+1] = Append(f[k], lines[k+1]) /\ k <= n
      BY <1>1, <1>3, <2>1, <2>3, <2>5
    <3>2. Len(f[k]) = k /\ \A i \in 1..k : f[k][i] = lines[i]
      BY <2>4, <3>1
    <3>3. /\ Len(f[k+1]) = k + 1
          /\ \A i \in 1..k : f[k+1][i] = f[k][i]
          /\ f[k+1][k+1] = lines[k+1]
      BY <2>2, <3>1, <3>2, OneMore
    <3>4. \A i \in 1..(k+1) : i \in 1..k \/ i = k + 1
      BY <2>1
    <3> QED
      BY <2>5, <3>2, <3>3, <3>4
  <2>6. CASE ~(k + 1 <= n)
    <3>1. f[k+1] = f[k]
      BY <1>3, <2>1, <2>3, <2>6
    <3>2. k = n \/ ~(k <= n)
      BY <1>1, <2>6
    <3> QED
      BY <2>4, <2>6, <3>1, <3>2
  <2> QED
    BY <2>5, <2>6
<1>6. {0, n, m} \subseteq Good
  <2> HIDE DEF Good
  <2> QED
    BY <1>1, <1>4, <1>5, Induction
<1>7. Sound(n) /\ Sound(m) /\ n \in 0..m /\ m \in 0..m
  BY <1>1, <1>6
<1>8. f[m] = f[n]
  BY <1>1, <1>7
<1>9. Len(f[n]) = n /\ (\A i \in 1..n : f[n][i] = lines[i]) /\ f[n] \in Seq(S)
  BY <1>1, <1>7
<1>10. f[n] = [i \in 1..n |-> lines[i]]
  <2> DEFINE s == f[n]
  <2>1. s \in Seq(S) /\ Len(s) = n /\ \A i \in 1..n : s[i] = lines[i]
    BY <1>9
  <2> HIDE DEF s
  <2>2. s = [i \in 1..n |-> s[i]]
    BY <2>1
  <2>3. s = [i \in 1..n |-> lines[i]]
    BY <2>1, <2>2
  <2> QED
    BY <2>3 DEF s
<1> QED
  BY <1>2, <1>8, <1>9, <1>10

-----------------------------------------------------------------------------
(* Counting and adding up.                                                 *)

\* What a list holds.
LEMMA Items ==
  ASSUME NEW S, NEW list \in Seq(S)
  PROVE  /\ Len(list) \in Nat /\ DOMAIN list = 1..Len(list)
         /\ \A i \in DOMAIN list : list[i] \in S
         /\ \A i \in 1..Len(list) : list[i] \in S
         /\ list = [i \in 1..Len(list) |-> list[i]]
         /\ ToSet(list) = {list[i] : i \in 1..Len(list)}
BY DEF ToSet

\* Counting one set by another.
LEMMA Paired ==
  ASSUME NEW S, NEW T, IsFiniteSet(S), NEW f \in [S -> T],
         \A x, y \in S : f[x] = f[y] => x = y,
         \A y \in T : \E x \in S : f[x] = y
  PROVE  IsFiniteSet(T) /\ Cardinality(T) = Cardinality(S)
<1>1. f \in Bijection(S, T)
  BY DEF Bijection, Injection, Surjection, IsInjective
<1> QED
  BY <1>1, FS_Bijection DEF ExistsBijection

\* Finite heaps make a finite heap.
LEMMA HeapsFinite ==
  ASSUME NEW f, IsFiniteSet(DOMAIN f), \A x \in DOMAIN f : f[x] \in Nat
  PROVE  IsFiniteSet(Heaps(f)) /\ Total(f) \in Nat
<1> DEFINE D == DOMAIN f
           Heap == {{x} \X (1..f[x]) : x \in D}
<1>1. \A x \in D : IsFiniteSet({x} \X (1..f[x]))
  <2> TAKE x \in D
  <2>1. IsFiniteSet({x})
    BY FS_Singleton
  <2>2. f[x] \in Int
    OBVIOUS
  <2>3. IsFiniteSet(1..f[x])
    BY <2>2, FS_Interval
  <2> QED
    BY <2>1, <2>3, FS_Product
<1>2. IsFiniteSet(Heap)
  <2> DEFINE g == [x \in D |-> {x} \X (1..f[x])]
  <2>1. g \in Surjection(D, Heap)
    BY DEF Surjection
  <2> QED
    BY <2>1, FS_Surjection
<1>3. \A T \in Heap : IsFiniteSet(T)
  BY <1>1
<1>4. IsFiniteSet(UNION Heap)
  <2> HIDE DEF Heap
  <2> QED
    BY <1>2, <1>3, FS_UNION
<1>5. Heaps(f) = UNION Heap
  BY DEF Heaps
<1> QED
  BY <1>4, <1>5, FS_CardinalityType DEF Total

\* What a heap holds.
LEMMA HeapsHold ==
  ASSUME NEW f
  PROVE  /\ \A p \in Heaps(f) : p = <<p[1], p[2]>> /\ p[1] \in DOMAIN f /\ p[2] \in 1..f[p[1]]
         /\ \A x \in DOMAIN f : \A i \in 1..f[x] : <<x, i>> \in Heaps(f)
BY DEF Heaps

\* The sum over two parts.
LEMMA TotalOfParts ==
  ASSUME NEW f, NEW g, NEW h, IsFiniteSet(DOMAIN f), \A x \in DOMAIN f : f[x] \in Nat,
         DOMAIN f = DOMAIN g \cup DOMAIN h, DOMAIN g \cap DOMAIN h = {},
         \A x \in DOMAIN g : g[x] = f[x], \A x \in DOMAIN h : h[x] = f[x]
  PROVE  Total(f) = Total(g) + Total(h)
<1>1. IsFiniteSet(DOMAIN g) /\ IsFiniteSet(DOMAIN h)
  BY FS_Subset
<1>2. /\ IsFiniteSet(Heaps(g)) /\ IsFiniteSet(Heaps(h))
      /\ Total(g) \in Nat /\ Total(h) \in Nat
  BY <1>1, HeapsFinite
<1>3. Heaps(f) = Heaps(g) \cup Heaps(h)
  BY DEF Heaps
<1>4. Heaps(g) \cap Heaps(h) = {}
  BY DEF Heaps
<1>5. Cardinality(Heaps(f)) = Cardinality(Heaps(g)) + Cardinality(Heaps(h)) - Cardinality({})
  BY <1>2, <1>3, <1>4, FS_Union
<1> QED
  BY <1>2, <1>5, FS_EmptySet DEF Total

\* The sum of one.
LEMMA TotalOfOne ==
  ASSUME NEW f, NEW a, DOMAIN f = {a}, f[a] \in Nat
  PROVE  Total(f) = f[a]
<1> DEFINE g == [i \in 1..f[a] |-> <<a, i>>]
<1>1. Heaps(f) = {<<a, i>> : i \in 1..f[a]}
  BY DEF Heaps
<1>2. g \in [1..f[a] -> Heaps(f)]
  BY <1>1
<1>3. IsFiniteSet(1..f[a]) /\ Cardinality(1..f[a]) = f[a]
  BY FS_Interval
<1>4. \A x, y \in 1..f[a] : g[x] = g[y] => x = y
  OBVIOUS
<1>5. \A y \in Heaps(f) : \E x \in 1..f[a] : g[x] = y
  BY <1>1
<1> DEFINE I == 1..f[a]
           H == Heaps(f)
<1>6. Cardinality(H) = Cardinality(I)
  <2>1. /\ IsFiniteSet(I) /\ g \in [I -> H]
        /\ \A x, y \in I : g[x] = g[y] => x = y
        /\ \A y \in H : \E x \in I : g[x] = y
    BY <1>2, <1>3, <1>4, <1>5
  <2> HIDE DEF g, I, H
  <2> QED
    BY <2>1, Paired
<1> QED
  BY <1>3, <1>6 DEF Total

\* The sum of a list, without its last item and with it.
LEMMA TotalOfLast ==
  ASSUME NEW m \in Nat, NEW f, NEW g, DOMAIN f = 1..m, DOMAIN g = 1..(m + 1),
         \A i \in 1..m : f[i] = g[i], \A i \in 1..(m + 1) : g[i] \in Nat
  PROVE  Total(g) = Total(f) + g[m + 1] /\ Total(f) \in Nat
<1> DEFINE h == [i \in {m + 1} |-> g[i]]
<1>1. IsFiniteSet(DOMAIN g) /\ IsFiniteSet(DOMAIN f)
  BY FS_Interval
<1>2. DOMAIN g = DOMAIN f \cup DOMAIN h /\ DOMAIN f \cap DOMAIN h = {} /\ DOMAIN h = {m + 1}
  OBVIOUS
<1>3. h[m + 1] = g[m + 1] /\ g[m + 1] \in Nat
  OBVIOUS
<1> HIDE DEF h
<1>4. Total(h) = g[m + 1]
  BY <1>2, <1>3, TotalOfOne
<1>5. \A x \in DOMAIN h : h[x] = g[x]
  BY <1>2, <1>3
<1>6. Total(g) = Total(f) + Total(h)
  BY <1>1, <1>2, <1>5, TotalOfParts
<1>7. Total(f) \in Nat
  <2>1. \A i \in DOMAIN f : f[i] \in Nat
    OBVIOUS
  <2> QED
    BY <1>1, <2>1, HeapsFinite
<1> QED
  BY <1>4, <1>6, <1>7

\* A set counted by the values of a key.
LEMMA TotalByKey ==
  ASSUME NEW S, IsFiniteSet(S), NEW K, NEW key \in [S -> K], NEW f, DOMAIN f = K,
         \A k \in K : f[k] = Cardinality({x \in S : key[x] = k})
  PROVE  IsFiniteSet(K) => Total(f) = Cardinality(S)
<1> SUFFICES ASSUME IsFiniteSet(K) PROVE Total(f) = Cardinality(S)
  OBVIOUS
<1> DEFINE Of(k) == {x \in S : key[x] = k}
<1>1. \A k \in K : /\ f[k] \in Nat
                   /\ \E b \in [1..f[k] -> Of(k)] :
                        /\ \A i, j \in 1..f[k] : b[i] = b[j] => i = j
                        /\ \A x \in Of(k) : \E i \in 1..f[k] : b[i] = x
  <2> TAKE k \in K
  <2>1. IsFiniteSet(Of(k)) /\ f[k] = Cardinality(Of(k))
    BY FS_Subset
  <2>2. f[k] \in Nat /\ ExistsBijection(1..f[k], Of(k))
    BY <2>1, FS_CardinalityType
  <2>3. PICK b : b \in Bijection(1..f[k], Of(k))
    BY <2>2 DEF ExistsBijection
  <2>4. /\ b \in [1..f[k] -> Of(k)]
        /\ \A i, j \in 1..f[k] : b[i] = b[j] => i = j
        /\ \A x \in Of(k) : \E i \in 1..f[k] : b[i] = x
    BY <2>3 DEF Bijection, Injection, Surjection, IsInjective
  <2> QED
    BY <2>2, <2>4
<1> DEFINE B(k) == CHOOSE b \in [1..f[k] -> Of(k)] :
                        /\ \A i, j \in 1..f[k] : b[i] = b[j] => i = j
                        /\ \A x \in Of(k) : \E i \in 1..f[k] : b[i] = x
           g == [p \in Heaps(f) |-> B(p[1])[p[2]]]
<1> HIDE DEF Of
<1>2. \A k \in K : /\ B(k) \in [1..f[k] -> Of(k)]
                   /\ \A i, j \in 1..f[k] : B(k)[i] = B(k)[j] => i = j
                   /\ \A x \in Of(k) : \E i \in 1..f[k] : B(k)[i] = x
  <2> TAKE k \in K
  <2> QED
    BY <1>1
<1> HIDE DEF B
<1>3. \A p \in Heaps(f) : /\ p = <<p[1], p[2]>> /\ p[1] \in K /\ p[2] \in 1..f[p[1]]
                          /\ g[p] = B(p[1])[p[2]]
                          /\ g[p] \in Of(p[1])
  <2> TAKE p \in Heaps(f)
  <2>1. p = <<p[1], p[2]>> /\ p[1] \in K /\ p[2] \in 1..f[p[1]]
    BY HeapsHold
  <2> QED
    BY <2>1, <1>2
<1>4. g \in [Heaps(f) -> S]
  BY <1>3 DEF Of
<1>5. \A p, q \in Heaps(f) : g[p] = g[q] => p = q
  <2> SUFFICES ASSUME NEW p \in Heaps(f), NEW q \in Heaps(f), g[p] = g[q] PROVE p = q
    OBVIOUS
  <2> HIDE DEF g
  <2>1. p[1] = q[1]
    BY <1>3 DEF Of
  <2>2. p[2] = q[2]
    BY <2>1, <1>2, <1>3
  <2> QED
    BY <2>1, <2>2, <1>3
<1>6. \A x \in S : \E p \in Heaps(f) : g[p] = x
  <2> TAKE x \in S
  <2>1. key[x] \in K /\ x \in Of(key[x])
    BY DEF Of
  <2>2. PICK i \in 1..f[key[x]] : B(key[x])[i] = x
    BY <2>1, <1>2
  <2>3. <<key[x], i>> \in Heaps(f)
    BY <2>1, HeapsHold
  <2> QED
    BY <2>2, <2>3
<1>7. IsFiniteSet(Heaps(f))
  BY <1>1, HeapsFinite
<1> HIDE DEF g
<1> QED
  BY <1>4, <1>5, <1>6, <1>7, Paired DEF Total

-----------------------------------------------------------------------------
(* The first of finitely many.                                             *)

\* The pairs of R order S.
Orders(R, S) ==
  /\ \A x, y \in S : x = y \/ <<x, y>> \in R \/ <<y, x>> \in R
  /\ \A x, y, z \in S : <<x, y>> \in R /\ <<y, z>> \in R => <<x, z>> \in R

\* Of finitely many some one is first.
LEMMA FirstInOrder ==
  ASSUME NEW S, IsFiniteSet(S), S # {}, NEW R, Orders(R, S)
  PROVE  \E x \in S : \A y \in S : x = y \/ <<x, y>> \in R
<1> DEFINE HasFirst(T) == \E x \in T : \A y \in T : x = y \/ <<x, y>> \in R
           Good == {n \in Nat : \A T \in SUBSET S : Cardinality(T) = n /\ T # {} => HasFirst(T)}
<1>1. \A T \in SUBSET S : IsFiniteSet(T) /\ Cardinality(T) \in Nat
  BY FS_Subset, FS_CardinalityType
<1>2. 0 \in Good
  <2>1. \A T \in SUBSET S : Cardinality(T) = 0 => T = {}
    BY <1>1, FS_EmptySet
  <2> HIDE DEF HasFirst
  <2> QED
    BY <2>1
<1>3. ASSUME NEW n \in Nat, n \in Good PROVE n + 1 \in Good
  <2> SUFFICES ASSUME NEW T \in SUBSET S, Cardinality(T) = n + 1, T # {} PROVE HasFirst(T)
    <3> HIDE DEF HasFirst
    <3> QED
      OBVIOUS
  <2>1. PICK z \in T : TRUE
    OBVIOUS
  <2> DEFINE U == T \ {z}
  <2>2. Cardinality(U) = n /\ U \in SUBSET S
    BY <1>1, FS_RemoveElement
  <2>3. CASE U = {}
    <3>1. \A y \in T : z = y
      BY <2>3
    <3> QED
      BY <3>1
  <2>4. CASE U # {}
    <3>1. HasFirst(U)
      <4> HIDE DEF HasFirst, U
      <4> QED
        BY <1>3, <2>2, <2>4
    <3>2. PICK x \in U : \A y \in U : x = y \/ <<x, y>> \in R
      BY <3>1
    <3>3. x \in S /\ z \in S /\ \A y \in T : y = z \/ y \in U
      OBVIOUS
    <3> HIDE DEF U
    <3>4. CASE <<x, z>> \in R
      <4>1. \A y \in T : x = y \/ <<x, y>> \in R
        BY <3>2, <3>3, <3>4
      <4>2. x \in T
        BY DEF U
      <4> QED
        BY <4>1, <4>2
    <3>5. CASE <<z, x>> \in R
      <4>1. \A y \in T : z = y \/ <<z, y>> \in R
        <5> TAKE y \in T
        <5>1. y \in S
          OBVIOUS
        <5> QED
          BY <5>1, <3>2, <3>3, <3>5 DEF Orders
      <4> QED
        BY <4>1, <2>1
    <3>6. x # z
      BY DEF U
    <3> QED
      BY <3>3, <3>4, <3>5, <3>6 DEF Orders
  <2> QED
    BY <2>3, <2>4
<1>4. Nat \subseteq Good
  <2> HIDE DEF Good
  <2> QED
    BY <1>2, <1>3, Induction
<1>5. Cardinality(S) \in Good
  BY <1>1, <1>4
<1> QED
  BY <1>5

\* The least and the greatest of finitely many integers.
LEMMA LeastIs ==
  ASSUME NEW S, IsFiniteSet(S), S # {}, S \subseteq Int
  PROVE  /\ Least(S) \in S /\ \A y \in S : Least(S) <= y
         /\ Greatest(S) \in S /\ \A y \in S : y <= Greatest(S)
<1>1. \E x \in S : \A y \in S : x <= y
  <2> DEFINE R == {p \in S \X S : p[1] < p[2]}
  <2>1. \A x, y \in S : <<x, y>> \in R <=> x < y
    OBVIOUS
  <2>2. Orders(R, S)
    <3> HIDE DEF R
    <3> QED
      BY <2>1 DEF Orders
  <2> HIDE DEF R
  <2>3. PICK x \in S : \A y \in S : x = y \/ <<x, y>> \in R
    BY <2>2, FirstInOrder
  <2>4. \A y \in S : x <= y
    <3> TAKE y \in S
    <3>1. x = y \/ <<x, y>> \in R
      BY <2>3
    <3> QED
      BY <2>1, <3>1
  <2> QED
    BY <2>4
<1>2. \E x \in S : \A y \in S : y <= x
  <2> DEFINE R == {p \in S \X S : p[2] < p[1]}
  <2>1. \A x, y \in S : <<x, y>> \in R <=> y < x
    OBVIOUS
  <2>2. Orders(R, S)
    <3> HIDE DEF R
    <3> QED
      BY <2>1 DEF Orders
  <2> HIDE DEF R
  <2>3. PICK x \in S : \A y \in S : x = y \/ <<x, y>> \in R
    BY <2>2, FirstInOrder
  <2>4. \A y \in S : y <= x
    <3> TAKE y \in S
    <3>1. x = y \/ <<x, y>> \in R
      BY <2>3
    <3> QED
      BY <2>1, <3>1
  <2> QED
    BY <2>4
<1> QED
  BY <1>1, <1>2 DEF Least, Greatest

\* One made of each of finitely many is finitely many.
LEMMA MadeFinite ==
  ASSUME NEW f, IsFiniteSet(DOMAIN f)
  PROVE  IsFiniteSet({f[x] : x \in DOMAIN f})
<1> DEFINE S == DOMAIN f
           T == {f[x] : x \in S}
           g == [x \in S |-> f[x]]
<1>1. g \in Surjection(S, T)
  BY DEF Surjection
<1>2. IsFiniteSet(T)
  <2> HIDE DEF g, T
  <2> QED
    BY <1>1, FS_Surjection
<1> QED
  BY <1>2

\* What does not change from one place to the next is the same everywhere.
LEMMA Steady ==
  ASSUME NEW f, NEW a \in Nat, NEW b \in Nat, \A k \in (a + 1)..b : f[k] = f[k - 1]
  PROVE  \A k \in a..b : f[k] = f[a]
<1> DEFINE Good == {n \in Nat : a + n <= b => f[a + n] = f[a]}
<1>1. 0 \in Good
  OBVIOUS
<1>2. ASSUME NEW n \in Nat, n \in Good PROVE n + 1 \in Good
  <2> SUFFICES ASSUME a + (n + 1) <= b PROVE f[a + (n + 1)] = f[a]
    OBVIOUS
  <2>1. a + (n + 1) \in (a + 1)..b /\ (a + (n + 1)) - 1 = a + n /\ a + n <= b
    OBVIOUS
  <2>2. f[a + (n + 1)] = f[(a + (n + 1)) - 1]
    BY <2>1
  <2>3. f[a + n] = f[a]
    BY <1>2, <2>1
  <2> QED
    BY <2>1, <2>2, <2>3
<1>3. Nat \subseteq Good
  <2> HIDE DEF Good
  <2> QED
    BY <1>1, <1>2, Induction
<1> TAKE k \in a..b
<1>4. k - a \in Nat /\ a + (k - a) = k /\ a + (k - a) <= b
  OBVIOUS
<1>5. k - a \in Good
  BY <1>3, <1>4
<1> HIDE DEF Good
<1>6. a + (k - a) <= b => f[a + (k - a)] = f[a]
  BY <1>5 DEF Good
<1> QED
  BY <1>4, <1>6

-----------------------------------------------------------------------------
(* The items at some places, by number.                                    *)

\* kept has the items at the places, e says from where each of them is.
Enumerates(e, items, places, kept) ==
  LET found == places \cap DOMAIN items IN
  /\ e \in [1..Len(kept) -> found]
  /\ \A n \in 1..Len(kept) : kept[n] = items[e[n]]
  /\ \A n, k \in 1..Len(kept) : n < k <=> e[n] < e[k]
  /\ \A p \in found : \E n \in 1..Len(kept) : e[n] = p

\* What is kept is numbered in the order of the places.
LEMMA KeptByPlace ==
  ASSUME NEW S, NEW items \in Seq(S), NEW places
  PROVE  /\ ItemsAt(items, places) \in Seq(S)
         /\ \E e : Enumerates(e, items, places, ItemsAt(items, places))
<1> DEFINE m == Len(items)
<1>1. m \in Nat /\ DOMAIN items = 1..m
  OBVIOUS
<1>2. PICK f \in [0..m -> Seq(S)] :
        /\ f[0] = <<>>
        /\ \A n \in 1..m : f[n] = IF n \in places THEN Append(f[n-1], items[n]) ELSE f[n-1]
        /\ ItemsAt(items, places) = f[m]
  <2>1. KeptUpTo(S, items, places)
    BY LineByLine
  <2> QED
    BY <2>1 DEF KeptUpTo
<1> DEFINE P(n) == places \cap (1..n)
           Numbered(n, e) ==
             /\ e \in [1..Len(f[n]) -> P(n)]
             /\ \A i \in 1..Len(f[n]) : f[n][i] = items[e[i]]
             /\ \A i, j \in 1..Len(f[n]) : i < j <=> e[i] < e[j]
             /\ \A p \in P(n) : \E i \in 1..Len(f[n]) : e[i] = p
           Good == {n \in Nat : n \in 0..m => \E e : Numbered(n, e)}
<1> HIDE DEF m
<1>3. 0 \in Good
  <2>1. Len(f[0]) = 0 /\ P(0) = {} /\ 1..0 = {}
    BY <1>2
  <2>2. Numbered(0, [i \in {} |-> 0])
    BY <2>1
  <2> HIDE DEF Numbered
  <2> QED
    BY <2>2
<1>4. \A n \in Nat : n \in Good => n + 1 \in Good
  <2> SUFFICES ASSUME NEW n \in Nat, n \in Good, n + 1 \in 0..m PROVE \E e : Numbered(n + 1, e)
    <3> HIDE DEF Numbered
    <3> QED
      OBVIOUS
  <2>1. n \in 0..m /\ n + 1 \in 1..m /\ (n + 1) - 1 = n
    BY <1>1
  <2>2. PICK e : Numbered(n, e)
    <3> HIDE DEF Numbered
    <3> QED
      BY <2>1
  <2>3. f[n] \in Seq(S) /\ items[n + 1] \in S
    BY <2>1, <1>1, <1>2
  <2>4. CASE n + 1 \notin places
    <3>1. f[n + 1] = f[n] /\ P(n + 1) = P(n)
      BY <2>4, <2>1, <1>2
    <3>2. Numbered(n + 1, e)
      BY <3>1, <2>2
    <3> QED
      BY <3>2
  <2>5. CASE n + 1 \in places
    <3> DEFINE l == Len(f[n])
               d == [i \in 1..(l + 1) |-> IF i <= l THEN e[i] ELSE n + 1]
    <3>1. /\ f[n + 1] = Append(f[n], items[n + 1])
          /\ P(n + 1) = P(n) \cup {n + 1}
      <4>1. f[n + 1] = Append(f[n], items[n + 1])
        BY <2>5, <2>1, <1>2
      <4>2. 1..(n + 1) = (1..n) \cup {n + 1}
        OBVIOUS
      <4> QED
        BY <4>1, <4>2, <2>5
    <3>2. /\ l \in Nat /\ Len(f[n + 1]) = l + 1
          /\ \A i \in 1..l : f[n + 1][i] = f[n][i]
          /\ f[n + 1][l + 1] = items[n + 1]
      BY <3>1, <2>3, OneMore
    <3> HIDE DEF l
    <3>3. /\ \A i \in 1..l : e[i] \in P(n) /\ f[n][i] = items[e[i]]
          /\ \A i, j \in 1..l : i < j <=> e[i] < e[j]
          /\ \A p \in P(n) : \E i \in 1..l : e[i] = p
      BY <2>2 DEF l
    <3>4. \A p \in P(n) : p \in Nat /\ p < n + 1
      OBVIOUS
    <3>5. \A i \in 1..(l + 1) : \/ i \in 1..l /\ d[i] = e[i]
                                \/ i = l + 1 /\ d[i] = n + 1
      BY <3>2
    <3> HIDE DEF d, P
    <3>6. \A i, j \in 1..(l + 1) : i < j <=> d[i] < d[j]
      <4> SUFFICES ASSUME NEW i \in 1..(l + 1), NEW j \in 1..(l + 1)
                   PROVE  i < j <=> d[i] < d[j]
        OBVIOUS
      <4>1. CASE i \in 1..l /\ j \in 1..l
        BY <4>1, <3>2, <3>3, <3>5
      <4>2. CASE i \in 1..l /\ j = l + 1
        BY <4>2, <3>2, <3>3, <3>4, <3>5
      <4>3. CASE i = l + 1 /\ j \in 1..l
        <5>1. l + 1 \notin 1..l
          BY <3>2
        <5>2. d[i] = n + 1 /\ d[j] = e[j]
          BY <4>3, <5>1, <3>5
        <5>3. d[i] = n + 1 /\ d[j] \in Nat /\ d[j] < n + 1
          BY <4>3, <5>2, <3>3, <3>4
        <5>4. ~(i < j)
          BY <4>3, <3>2
        <5> QED
          BY <5>3, <5>4
      <4>4. CASE i = l + 1 /\ j = l + 1
        BY <4>4, <3>2, <3>5
      <4> QED
        BY <4>1, <4>2, <4>3, <4>4, <3>5
    <3>7. d \in [1..(l + 1) -> P(n + 1)]
      <4>1. \A i \in 1..(l + 1) : d[i] \in P(n + 1)
        BY <3>1, <3>3, <3>5
      <4> QED
        BY <4>1 DEF d
    <3>8. \A i \in 1..(l + 1) : f[n + 1][i] = items[d[i]]
      BY <3>2, <3>3, <3>5
    <3>9. \A p \in P(n + 1) : \E i \in 1..(l + 1) : d[i] = p
      <4> TAKE p \in P(n + 1)
      <4>1. CASE p \in P(n)
        <5>1. PICK i \in 1..l : e[i] = p
          BY <4>1, <3>3
        <5>2. i \in 1..(l + 1) /\ d[i] = p
          BY <5>1, <3>2, <3>5
        <5> QED
          BY <5>2
      <4>2. CASE p = n + 1
        <5>1. l + 1 \in 1..(l + 1) /\ d[l + 1] = n + 1
          BY <3>2, <3>5
        <5> QED
          BY <5>1, <4>2
      <4> QED
        BY <4>1, <4>2, <3>1
    <3>10. Numbered(n + 1, d)
      BY <3>2, <3>6, <3>7, <3>8, <3>9
    <3> QED
      BY <3>10
  <2> QED
    BY <2>4, <2>5
<1>5. Nat \subseteq Good
  <2> HIDE DEF Good
  <2> QED
    BY <1>3, <1>4, Induction
<1>6. PICK e : Numbered(m, e)
  <2> HIDE DEF Numbered
  <2> QED
    BY <1>1, <1>5
<1>7. places \cap DOMAIN items = P(m)
  BY <1>1
<1>8. Enumerates(e, items, places, f[m])
  <2> HIDE DEF P
  <2> QED
    BY <1>6, <1>7 DEF Enumerates
<1> QED
  BY <1>1, <1>2, <1>8

\* The first, the last and the next place.
LEMMA PlacesInOrder ==
  ASSUME NEW S, NEW items \in Seq(S), NEW places, NEW kept \in Seq(S), NEW e,
         Enumerates(e, items, places, kept)
  PROVE  /\ Len(kept) \in Nat /\ DOMAIN kept = 1..Len(kept)
         /\ \A n \in 1..Len(kept) : e[n] \in places /\ e[n] \in 1..Len(items)
         /\ (places \cap DOMAIN items # {}) <=> Len(kept) > 0
         /\ \A p \in places \cap DOMAIN items :
              /\ e[1] <= p /\ p <= e[Len(kept)]
              /\ \A n \in 1..(Len(kept) - 1) : p <= e[n] \/ e[n + 1] <= p
         /\ \A n \in 1..(Len(kept) - 1) : e[n] < e[n + 1]
<1>1. Len(kept) \in Nat /\ DOMAIN kept = 1..Len(kept) /\ Len(items) \in Nat /\ DOMAIN items = 1..Len(items)
  OBVIOUS
<1>2. /\ \A n \in 1..Len(kept) : e[n] \in places /\ e[n] \in 1..Len(items)
      /\ \A n, k \in 1..Len(kept) : n < k <=> e[n] < e[k]
      /\ \A p \in places \cap DOMAIN items : \E n \in 1..Len(kept) : e[n] = p
  BY <1>1 DEF Enumerates
<1>3. ASSUME NEW p \in places \cap DOMAIN items
      PROVE  /\ Len(kept) > 0
             /\ e[1] <= p /\ p <= e[Len(kept)]
             /\ \A n \in 1..(Len(kept) - 1) : p <= e[n] \/ e[n + 1] <= p
  <2>1. PICK k \in 1..Len(kept) : e[k] = p
    BY <1>2
  <2>2. 1 \in 1..Len(kept) /\ Len(kept) \in 1..Len(kept) /\ p \in Nat
    BY <1>1, <2>1
  <2>3. ~(e[k] < e[1]) /\ ~(e[Len(kept)] < e[k])
    BY <1>1, <1>2, <2>1, <2>2
  <2>4. e[1] \in Nat /\ e[Len(kept)] \in Nat
    BY <1>1, <1>2, <2>2
  <2>5. ASSUME NEW n \in 1..(Len(kept) - 1) PROVE p <= e[n] \/ e[n + 1] <= p
    <3>1. n \in 1..Len(kept) /\ n + 1 \in 1..Len(kept)
      BY <1>1
    <3>2. ~(n < k) \/ ~(k < n + 1)
      BY <1>1, <2>1
    <3>3. ~(e[n] < e[k]) \/ ~(e[k] < e[n + 1])
      BY <3>1, <3>2, <1>2
    <3>4. e[n] \in Nat /\ e[n + 1] \in Nat
      BY <3>1, <1>1, <1>2
    <3> QED
      BY <3>3, <3>4, <2>1, <2>2
  <2> QED
    BY <1>1, <2>1, <2>2, <2>3, <2>4, <2>5
<1>4. ASSUME Len(kept) > 0 PROVE places \cap DOMAIN items # {}
  <2>1. 1 \in 1..Len(kept)
    BY <1>1, <1>4
  <2> QED
    BY <2>1, <1>1, <1>2
<1>5. \A n \in 1..(Len(kept) - 1) : e[n] < e[n + 1]
  <2> TAKE n \in 1..(Len(kept) - 1)
  <2>1. n \in 1..Len(kept) /\ n + 1 \in 1..Len(kept) /\ n < n + 1
    BY <1>1
  <2> QED
    BY <2>1, <1>2
<1> QED
  BY <1>1, <1>2, <1>3, <1>4, <1>5

\* The numbers of the places, in order.
Numbers(m, places) == ItemsAt([i \in 1..m |-> i], places)

\* The items at the places, by those numbers.
LEMMA ByNumber ==
  ASSUME NEW S, NEW items \in Seq(S), NEW places
  PROVE  LET e == Numbers(Len(items), places) IN
         /\ e \in Seq(1..Len(items)) /\ Len(e) \in Nat
         /\ Len(ItemsAt(items, places)) = Len(e)
         /\ \A n \in 1..Len(e) : ItemsAt(items, places)[n] = items[e[n]]
         /\ \A n \in 1..Len(e) : e[n] \in places /\ e[n] \in 1..Len(items)
         /\ \A n, k \in 1..Len(e) : n < k <=> e[n] < e[k]
         /\ \A p \in places \cap (1..Len(items)) : \E n \in 1..Len(e) : e[n] = p
<1> DEFINE m == Len(items)
           T == 1..m
           ids == [i \in 1..m |-> i]
           e == Numbers(m, places)
<1>1. m \in Nat /\ \A i \in 1..m : items[i] \in S
  BY Items
<1> HIDE DEF m
<1>2. ids \in Seq(T) /\ Len(ids) = m /\ DOMAIN ids = 1..m /\ \A i \in 1..m : ids[i] = i
  BY <1>1
<1>3. e = ItemsAt(ids, places)
  BY DEF Numbers
<1> HIDE DEF ids, T, e
<1>4. PICK f \in [0..m -> Seq(T)] :
        /\ f[0] = <<>>
        /\ \A n \in 1..m : f[n] = IF n \in places THEN Append(f[n-1], ids[n]) ELSE f[n-1]
        /\ e = f[m]
  <2>1. KeptUpTo(T, ids, places)
    BY <1>2, LineByLine
  <2> QED
    BY <2>1, <1>2, <1>3 DEF KeptUpTo
<1>5. PICK g \in [0..m -> Seq(S)] :
        /\ g[0] = <<>>
        /\ \A n \in 1..m : g[n] = IF n \in places THEN Append(g[n-1], items[n]) ELSE g[n-1]
        /\ ItemsAt(items, places) = g[m]
  <2>1. KeptUpTo(S, items, places)
    BY LineByLine
  <2> QED
    BY <2>1 DEF KeptUpTo, m
<1> DEFINE Alike(n) == /\ Len(g[n]) = Len(f[n])
                       /\ \A k \in 1..Len(f[n]) : g[n][k] = items[f[n][k]]
           Good == {n \in Nat : n \in 0..m => Alike(n)}
<1>6. 0 \in Good
  <2>1. Len(f[0]) = 0 /\ Len(g[0]) = 0 /\ 1..0 = {}
    BY <1>4, <1>5
  <2> QED
    BY <2>1
<1>7. ASSUME NEW n \in Nat, n \in Good PROVE n + 1 \in Good
  <2> SUFFICES ASSUME n + 1 \in 0..m PROVE Alike(n + 1)
    OBVIOUS
  <2>1. n \in 0..m /\ n + 1 \in 1..m /\ (n + 1) - 1 = n
    BY <1>1
  <2>2. Alike(n)
    <3> HIDE DEF Alike
    <3> QED
      BY <1>7, <2>1
  <2>3. CASE n + 1 \notin places
    <3>1. f[n + 1] = f[n] /\ g[n + 1] = g[n]
      BY <2>1, <2>3, <1>4, <1>5
    <3> QED
      BY <3>1, <2>2
  <2>4. CASE n + 1 \in places
    <3> DEFINE a == f[n]
               b == g[n]
               l == Len(a)
    <3>1. /\ f[n + 1] = Append(a, n + 1) /\ g[n + 1] = Append(b, items[n + 1])
          /\ a \in Seq(T) /\ b \in Seq(S) /\ n + 1 \in T /\ items[n + 1] \in S
      BY <2>1, <2>4, <1>1, <1>2, <1>4, <1>5 DEF T
    <3>2. Len(b) = l /\ \A k \in 1..l : b[k] = items[a[k]]
      BY <2>2
    <3> HIDE DEF a, b
    <3>3. /\ l \in Nat /\ Len(f[n + 1]) = l + 1 /\ f[n + 1][l + 1] = n + 1
          /\ \A k \in 1..l : f[n + 1][k] = a[k]
      BY <3>1, OneMore
    <3>4. /\ Len(g[n + 1]) = l + 1 /\ g[n + 1][l + 1] = items[n + 1]
          /\ \A k \in 1..l : g[n + 1][k] = b[k]
      BY <3>1, <3>2, OneMore
    <3> HIDE DEF l
    <3>5. \A k \in 1..(l + 1) : k \in 1..l \/ k = l + 1
      BY <3>3
    <3> QED
      BY <3>2, <3>3, <3>4, <3>5
  <2> QED
    BY <2>3, <2>4
<1>8. Nat \subseteq Good
  <2> HIDE DEF Good
  <2> QED
    BY <1>6, <1>7, Induction
<1>9. Alike(m)
  <2>1. m \in Good /\ m \in 0..m
    BY <1>1, <1>8
  <2> HIDE DEF Alike
  <2> QED
    BY <2>1
<1>10. /\ Len(ItemsAt(items, places)) = Len(e)
       /\ \A n \in 1..Len(e) : ItemsAt(items, places)[n] = items[e[n]]
  BY <1>4, <1>5, <1>9
<1>11. e \in Seq(T) /\ Len(e) \in Nat
  <2>1. e \in Seq(T)
    BY <1>1, <1>4
  <2> QED
    BY <2>1, Items
<1>12. PICK d : Enumerates(d, ids, places, e)
  BY <1>2, <1>3, KeptByPlace
<1>13. /\ d \in [1..Len(e) -> places \cap (1..m)]
       /\ \A n \in 1..Len(e) : e[n] = ids[d[n]]
       /\ \A n, k \in 1..Len(e) : n < k <=> d[n] < d[k]
       /\ \A p \in places \cap (1..m) : \E n \in 1..Len(e) : d[n] = p
  BY <1>2, <1>12 DEF Enumerates
<1>14. \A n \in 1..Len(e) : e[n] = d[n] /\ e[n] \in places /\ e[n] \in 1..m
  BY <1>2, <1>13
<1>15. /\ \A n, k \in 1..Len(e) : n < k <=> e[n] < e[k]
       /\ \A p \in places \cap (1..m) : \E n \in 1..Len(e) : e[n] = p
  BY <1>13, <1>14
<1> QED
  BY <1>10, <1>11, <1>14, <1>15 DEF m, T, e

\* One place more.
LEMMA NumbersGrow ==
  ASSUME NEW m \in Nat, NEW places, NEW more, \A i \in 1..m : i \in places <=> i \in more
  PROVE  Numbers(m + 1, more) = IF m + 1 \in more THEN Append(Numbers(m, places), m + 1)
                                                  ELSE Numbers(m, places)
<1> DEFINE ids == [i \in 1..m |-> i]
           longer == [i \in 1..(m + 1) |-> i]
           S == 1..(m + 1)
<1>1. ids \in Seq(S) /\ Len(ids) = m /\ m + 1 \in S /\ \A i \in 1..m : ids[i] = i
  OBVIOUS
<1>2. longer = Append(ids, m + 1)
  <2> DEFINE t == Append(ids, m + 1)
  <2> HIDE DEF ids
  <2>1. /\ t \in Seq(S) /\ Len(t) = m + 1 /\ DOMAIN t = 1..(m + 1)
        /\ \A i \in 1..m : t[i] = ids[i]
        /\ t[m + 1] = m + 1
    BY <1>1, OneMore
  <2> HIDE DEF t
  <2>2. \A i \in 1..(m + 1) : t[i] = i
    BY <1>1, <2>1
  <2>3. t = [i \in 1..(m + 1) |-> t[i]]
    BY <2>1
  <2> QED
    BY <2>2, <2>3 DEF t
<1> HIDE DEF ids, S, longer
<1>3. ItemsAt(Append(ids, m + 1), more) =
        IF Len(ids) + 1 \in more THEN Append(ItemsAt(ids, places), m + 1) ELSE ItemsAt(ids, places)
  <2> DEFINE x == m + 1
  <2>1. ids \in Seq(S) /\ x \in S /\ \A i \in 1..Len(ids) : i \in places <=> i \in more
    BY <1>1
  <2> HIDE DEF x
  <2>2. ItemsAt(Append(ids, x), more) =
          IF Len(ids) + 1 \in more THEN Append(ItemsAt(ids, places), x) ELSE ItemsAt(ids, places)
    BY <2>1, KeptAfterAppend
  <2> QED
    BY <2>2 DEF x
<1> QED
  BY <1>1, <1>2, <1>3 DEF Numbers, ids, longer

-----------------------------------------------------------------------------
(* Parts of a list.                                                        *)

\* Part of a list.
LEMMA PartIs ==
  ASSUME NEW S, NEW list \in Seq(S), NEW a \in 1..(Len(list) + 1), NEW b \in a..(Len(list) + 1)
  PROVE  /\ SubSeq(list, a, b - 1) \in Seq(S)
         /\ Len(SubSeq(list, a, b - 1)) = b - a
         /\ DOMAIN SubSeq(list, a, b - 1) = 1..(b - a)
         /\ \A i \in 1..(b - a) : SubSeq(list, a, b - 1)[i] = list[a + i - 1]
<1>1. Len(list) \in Nat /\ DOMAIN list = 1..Len(list) /\ \A i \in 1..Len(list) : list[i] \in S
  OBVIOUS
<1>2. a \in Int /\ b - 1 \in Int /\ \A i \in a..(b - 1) : list[i] \in S
  BY <1>1
<1>3. /\ SubSeq(list, a, b - 1) \in Seq(S)
      /\ Len(SubSeq(list, a, b - 1)) = IF a <= b - 1 THEN (b - 1) - a + 1 ELSE 0
      /\ \A i \in 1..((b - 1) - a + 1) : SubSeq(list, a, b - 1)[i] = list[a + i - 1]
  BY <1>2, SubSeqProperties
<1>4. (IF a <= b - 1 THEN (b - 1) - a + 1 ELSE 0) = b - a /\ (b - 1) - a + 1 = b - a
  BY <1>1
<1> QED
  BY <1>3, <1>4

\* A part of a list that one more item follows.
LEMMA PartOfMore ==
  ASSUME NEW S, NEW rows \in Seq(S), NEW x \in S, NEW i \in 1..Len(rows)
  PROVE  /\ \A b \in i..Len(rows) : SubSeq(Append(rows, x), i, b) = SubSeq(rows, i, b)
         /\ SubSeq(Append(rows, x), i, Len(rows) + 1) = Append(SubSeq(rows, i, Len(rows)), x)
<1> DEFINE m == Len(rows)
           more == Append(rows, x)
<1>1. /\ m \in Nat /\ more \in Seq(S) /\ Len(more) = m + 1
      /\ \A k \in 1..m : more[k] = rows[k]
      /\ more[m + 1] = x
  BY OneMore
<1> HIDE DEF more
<1>2. ASSUME NEW b \in i..m PROVE SubSeq(more, i, b) = SubSeq(rows, i, b)
  <2> DEFINE c == b + 1
  <2>1. i \in 1..(Len(rows) + 1) /\ c \in i..(Len(rows) + 1) /\ c - 1 = b
        /\ i \in 1..(Len(more) + 1) /\ c \in i..(Len(more) + 1)
    BY <1>1
  <2>2. \A k \in 1..(c - i) : i + k - 1 \in 1..m
    BY <1>1
  <2> HIDE DEF c, m
  <2> DEFINE p == SubSeq(rows, i, c - 1)
             q == SubSeq(more, i, c - 1)
  <2>3. DOMAIN p = 1..(c - i) /\ p \in Seq(S) /\ Len(p) = c - i /\ \A k \in 1..(c - i) : p[k] = rows[i + k - 1]
    BY <2>1, PartIs
  <2>4. DOMAIN q = 1..(c - i) /\ q \in Seq(S) /\ Len(q) = c - i /\ \A k \in 1..(c - i) : q[k] = more[i + k - 1]
    BY <2>1, <1>1, PartIs
  <2> HIDE DEF p, q
  <2>5. \A k \in 1..(c - i) : p[k] = q[k]
    BY <2>2, <2>3, <2>4, <1>1
  <2>6. p = [k \in 1..(c - i) |-> p[k]] /\ q = [k \in 1..(c - i) |-> q[k]]
    BY <2>3, <2>4, Items
  <2>7. p = q
    BY <2>5, <2>6
  <2> QED
    BY <2>1, <2>7 DEF p, q
<1>3. SubSeq(more, i, m + 1) = Append(SubSeq(rows, i, m), x)
  <2> DEFINE c == m + 1
             d == m + 2
             n == c - i
             p == SubSeq(rows, i, c - 1)
             q == SubSeq(more, i, d - 1)
             t == Append(p, x)
  <2>1. /\ i \in 1..(Len(rows) + 1) /\ c \in i..(Len(rows) + 1) /\ c - 1 = m /\ d - 1 = m + 1
        /\ i \in 1..(Len(more) + 1) /\ d \in i..(Len(more) + 1) /\ d - i = n + 1 /\ n \in Nat
        /\ i + (n + 1) - 1 = m + 1
    BY <1>1
  <2>2. \A k \in 1..n : i + k - 1 \in 1..m
    BY <1>1
  <2>8. n = c - i
    OBVIOUS
  <2> HIDE DEF c, d, m, n
  <2>3. p \in Seq(S) /\ Len(p) = n /\ \A k \in 1..n : p[k] = rows[i + k - 1]
    BY <2>1, <2>8, PartIs
  <2>4. q \in Seq(S) /\ Len(q) = n + 1 /\ \A k \in 1..(n + 1) : q[k] = more[i + k - 1]
    BY <2>1, <1>1, PartIs
  <2> HIDE DEF p, q
  <2>5. /\ t \in Seq(S) /\ Len(t) = n + 1 /\ (\A k \in 1..n : t[k] = p[k]) /\ t[n + 1] = x
    BY <2>3, OneMore
  <2> HIDE DEF t
  <2>6. \A k \in 1..(n + 1) : t[k] = q[k]
    <3> TAKE k \in 1..(n + 1)
    <3>1. CASE k \in 1..n
      <4>1. t[k] = rows[i + k - 1] /\ q[k] = more[i + k - 1]
        BY <3>1, <2>3, <2>4, <2>5
      <4> QED
        BY <4>1, <3>1, <2>2, <1>1
    <3>2. CASE k = n + 1
      BY <3>2, <2>1, <2>4, <2>5, <1>1
    <3> QED
      BY <3>1, <3>2, <2>1
  <2>7. t = [k \in 1..(n + 1) |-> t[k]] /\ q = [k \in 1..(n + 1) |-> q[k]]
    BY <2>4, <2>5, Items
  <2>9. t = q
    BY <2>6, <2>7
  <2> QED
    BY <2>1, <2>9 DEF t, p, q
<1> QED
  BY <1>2, <1>3 DEF more, m

\* A list without its last item.
LEMMA FrontOf ==
  ASSUME NEW S, NEW list \in Seq(S), list # <<>>
  PROVE  /\ Front(list) \in Seq(S) /\ Len(list) \in Nat /\ Len(list) >= 1
         /\ Len(Front(list)) = Len(list) - 1
         /\ \A i \in 1..(Len(list) - 1) : Front(list)[i] = list[i]
         /\ Last(list) = list[Len(list)] /\ Last(list) \in S
<1> DEFINE b == Len(list)
<1>1. b \in Nat /\ b >= 1
  BY EmptySeq
<1>2. 1 \in 1..(b + 1) /\ b \in 1..(b + 1) /\ b \in 1..b /\ \A i \in 1..(b - 1) : 1 + i - 1 = i
  BY <1>1
<1>3. Front(list) = SubSeq(list, 1, b - 1)
  BY DEF Front
<1>4. /\ SubSeq(list, 1, b - 1) \in Seq(S) /\ Len(SubSeq(list, 1, b - 1)) = b - 1
      /\ \A i \in 1..(b - 1) : SubSeq(list, 1, b - 1)[i] = list[1 + i - 1]
  <2>1. b \in 1..(Len(list) + 1) /\ 1 \in 1..(Len(list) + 1)
    BY <1>2
  <2> HIDE DEF b
  <2> QED
    BY <2>1, PartIs
<1>5. Last(list) = list[b] /\ list[b] \in S
  BY <1>2, Items DEF Last
<1> QED
  BY <1>1, <1>2, <1>3, <1>4, <1>5

\* A list whose last item became another one.
Relast(list, x, after) ==
  /\ list # <<>> /\ Len(list) \in Nat /\ Len(list) >= 1
  /\ after = Append(Front(list), x)
  /\ Len(after) = Len(list) /\ DOMAIN after = 1..Len(list)
  /\ \A i \in 1..(Len(list) - 1) : after[i] = list[i]
  /\ after[Len(list)] = x

LEMMA LastReplaced ==
  ASSUME NEW S, NEW list \in Seq(S), list # <<>>, NEW x \in S
  PROVE  Relast(list, x, Append(Front(list), x)) /\ Append(Front(list), x) \in Seq(S)
<1> DEFINE front == Front(list)
           n == Len(list) - 1
<1>1. /\ front \in Seq(S) /\ Len(list) \in Nat /\ Len(list) >= 1 /\ Len(front) = n
      /\ \A i \in 1..n : front[i] = list[i]
  BY FrontOf
<1>2. n \in Nat /\ Len(list) = n + 1
  BY <1>1
<1> HIDE DEF front, n
<1>3. /\ Append(front, x) \in Seq(S) /\ Len(Append(front, x)) = n + 1
      /\ DOMAIN Append(front, x) = 1..(n + 1)
      /\ \A i \in 1..n : Append(front, x)[i] = front[i]
      /\ Append(front, x)[n + 1] = x
  BY <1>1, OneMore
<1> QED
  BY <1>1, <1>2, <1>3 DEF Relast, front, n

\* A list begins with another one that it agrees with.
LEMMA BeginsWith ==
  ASSUME NEW S, NEW s \in Seq(S), NEW t \in Seq(S), Len(s) <= Len(t),
         \A i \in 1..Len(s) : s[i] = t[i]
  PROVE  IsPrefix(s, t)
<1> DEFINE k == Len(s)
           c == k + 1
<1>1. /\ k \in Nat /\ Len(t) \in Nat /\ k <= Len(t) /\ c - 1 = k /\ c - 1 \in Nat
      /\ 1 \in 1..(Len(s) + 1) /\ c \in 1..(Len(s) + 1)
      /\ 1 \in 1..(Len(t) + 1) /\ c \in 1..(Len(t) + 1) /\ \A i \in 1..(c - 1) : 1 + i - 1 = i
  BY Items
<1> DEFINE a == SubSeq(s, 1, c - 1)
           b == SubSeq(t, 1, c - 1)
<1> HIDE DEF c
<1>2. /\ a \in Seq(S) /\ Len(a) = c - 1
      /\ \A i \in 1..(c - 1) : a[i] = s[1 + i - 1]
  BY <1>1, PartIs
<1>3. /\ b \in Seq(S) /\ Len(b) = c - 1
      /\ \A i \in 1..(c - 1) : b[i] = t[1 + i - 1]
  BY <1>1, PartIs
<1> HIDE DEF a, b
<1>4. \A i \in 1..(c - 1) : a[i] = b[i]
  BY <1>1, <1>2, <1>3
<1>5. a = [i \in 1..(c - 1) |-> a[i]] /\ b = [i \in 1..(c - 1) |-> b[i]]
  BY <1>2, <1>3, Items
<1>6. a = b
  BY <1>4, <1>5
<1> QED
  BY <1>1, <1>6 DEF IsPrefix, a, b

\* A list is its front and its last item.
LEMMA FrontAndLast ==
  ASSUME NEW S, NEW list \in Seq(S), list # <<>>
  PROVE  list = Append(Front(list), Last(list))
<1> DEFINE x == Last(list)
           t == Append(Front(list), x)
           m == Len(list)
<1>1. x = list[m] /\ x \in S /\ m \in Nat /\ m >= 1
  BY FrontOf
<1> HIDE DEF x
<1>2. Relast(list, x, t) /\ t \in Seq(S)
  BY <1>1, LastReplaced
<1>3. Len(t) = m /\ (\A i \in 1..(m - 1) : t[i] = list[i]) /\ t[m] = list[m]
  BY <1>1, <1>2 DEF Relast
<1> HIDE DEF t, m
<1>4. \A i \in 1..m : t[i] = list[i]
  <2>1. \A i \in 1..m : i \in 1..(m - 1) \/ i = m
    BY <1>1
  <2> QED
    BY <2>1, <1>3
<1>5. t = [i \in 1..m |-> t[i]]
  BY <1>2, <1>3, Items
<1>6. list = [i \in 1..m |-> list[i]]
  BY Items DEF m
<1> QED
  BY <1>4, <1>5, <1>6 DEF t, x

-----------------------------------------------------------------------------
(* Sorting.                                                                *)

\* o takes the places of the sorted list to those of the rows.
Sorts(o, rows, field) ==
  /\ o \in [1..Len(rows) -> 1..Len(rows)]
  /\ \A n, k \in 1..Len(rows) : n < k => Sooner(rows, field, o[n], o[k])
  /\ \A i \in 1..Len(rows) : \E n \in 1..Len(rows) : o[n] = i

\* Sorting orders the rows strictly and totally.
LEMMA SoonerOrders ==
  ASSUME NEW S, NEW rows \in Seq(S), NEW field, \A i \in DOMAIN rows : rows[i][field] \in Int
  PROVE  \A i, j, k \in DOMAIN rows :
           /\ ~Sooner(rows, field, i, i)
           /\ i = j \/ Sooner(rows, field, i, j) \/ Sooner(rows, field, j, i)
           /\ Sooner(rows, field, i, j) /\ Sooner(rows, field, j, k) => Sooner(rows, field, i, k)
<1> SUFFICES ASSUME NEW i \in DOMAIN rows, NEW j \in DOMAIN rows, NEW k \in DOMAIN rows
             PROVE  /\ ~Sooner(rows, field, i, i)
                    /\ i = j \/ Sooner(rows, field, i, j) \/ Sooner(rows, field, j, i)
                    /\ Sooner(rows, field, i, j) /\ Sooner(rows, field, j, k)
                         => Sooner(rows, field, i, k)
  OBVIOUS
<1>1. /\ i \in Nat /\ j \in Nat /\ k \in Nat
      /\ rows[i][field] \in Int /\ rows[j][field] \in Int /\ rows[k][field] \in Int
  OBVIOUS
<1> QED
  BY <1>1 DEF Sooner

\* Only one order sorts.
LEMMA SortedIs ==
  ASSUME NEW S, NEW rows \in Seq(S), NEW field, \A i \in DOMAIN rows : rows[i][field] \in Int,
         NEW o, Sorts(o, rows, field)
  PROVE  Sorted(rows, field) = [n \in 1..Len(rows) |-> rows[o[n]]]
<1> DEFINE m == Len(rows)
<1>1. m \in Nat /\ DOMAIN rows = 1..m
  OBVIOUS
<1>2. /\ o \in [1..m -> 1..m]
      /\ \A n, k \in 1..m : n < k => Sooner(rows, field, o[n], o[k])
      /\ \A i \in 1..m : \E n \in 1..m : o[n] = i
  BY DEF Sorts
<1>3. \A i, j \in 1..m : Sooner(rows, field, i, j) => ~Sooner(rows, field, j, i) /\ i # j
  BY <1>1, SoonerOrders
<1> HIDE DEF m
<1> DEFINE Before(i) == Cardinality({j \in 1..m : Sooner(rows, field, j, i)})
<1>4. \A n \in 1..m : Before(o[n]) = n - 1
  <2> TAKE n \in 1..m
  <2> DEFINE T == {j \in 1..m : Sooner(rows, field, j, o[n])}
             g == [k \in 1..(n - 1) |-> o[k]]
  <2>1. \A k \in 1..m : o[k] \in T <=> k < n
    <3> TAKE k \in 1..m
    <3>1. k < n => o[k] \in T
      BY <1>2
    <3>2. n < k => ~(Sooner(rows, field, o[k], o[n]))
      BY <1>2, <1>3
    <3>3. k = n => ~(Sooner(rows, field, o[k], o[n]))
      BY <1>2, <1>3
    <3>4. k < n \/ n < k \/ k = n
      BY <1>1
    <3>5. ~(k < n /\ n < k) /\ ~(k < n /\ k = n)
      BY <1>1
    <3> QED
      BY <3>1, <3>2, <3>3, <3>4, <3>5
  <2>2. g \in [1..(n - 1) -> T]
    BY <2>1, <1>1
  <2>3. \A x, y \in 1..(n - 1) : g[x] = g[y] => x = y
    <3> SUFFICES ASSUME NEW x \in 1..(n - 1), NEW y \in 1..(n - 1), g[x] = g[y], x # y PROVE FALSE
      OBVIOUS
    <3>1. x \in 1..m /\ y \in 1..m /\ (x < y \/ y < x)
      BY <1>1
    <3>2. o[x] # o[y]
      BY <3>1, <1>2, <1>3
    <3> QED
      BY <3>2
  <2>4. \A j \in T : \E k \in 1..(n - 1) : g[k] = j
    <3> TAKE j \in T
    <3>1. PICK k \in 1..m : o[k] = j
      BY <1>2
    <3>2. k \in 1..(n - 1)
      BY <3>1, <2>1, <1>1
    <3> QED
      BY <3>1, <3>2
  <2>5. IsFiniteSet(1..(n - 1)) /\ Cardinality(1..(n - 1)) = n - 1
    <3>1. n - 1 \in Int /\ 1 \in Int /\ (1 > n - 1 => n - 1 = 0) /\ n - 1 - 1 + 1 = n - 1
      BY <1>1
    <3> QED
      BY <3>1, FS_Interval
  <2>6. Cardinality(T) = n - 1
    <3> DEFINE I == 1..(n - 1)
    <3>1. /\ IsFiniteSet(I) /\ g \in [I -> T] /\ Cardinality(I) = n - 1
          /\ \A x, y \in I : g[x] = g[y] => x = y
          /\ \A y \in T : \E x \in I : g[x] = y
      BY <2>2, <2>3, <2>4, <2>5
    <3> HIDE DEF I, g, T
    <3> QED
      BY <3>1, Paired
  <2> QED
    BY <2>6 DEF T
<1> HIDE DEF Before
<1>5. \A n \in 1..m : (CHOOSE i \in 1..m : Before(i) = n - 1) = o[n]
  <2> TAKE n \in 1..m
  <2>1. o[n] \in 1..m /\ Before(o[n]) = n - 1
    BY <1>2, <1>4
  <2>2. ASSUME NEW i \in 1..m, Before(i) = n - 1 PROVE i = o[n]
    <3>1. PICK k \in 1..m : o[k] = i
      BY <1>2
    <3>2. k - 1 = n - 1
      BY <3>1, <2>2, <1>4
    <3> QED
      BY <3>1, <3>2, <1>1
  <2> QED
    BY <2>1, <2>2
<1>6. Sorted(rows, field) = [n \in 1..m |-> rows[CHOOSE i \in 1..m : Before(i) = n - 1]]
  BY <1>1 DEF Sorted, RowAfter, Before
<1> QED
  BY <1>5, <1>6 DEF m

\* There is one.
LEMMA SortedBy ==
  ASSUME NEW S, NEW rows \in Seq(S), NEW field, \A i \in DOMAIN rows : rows[i][field] \in Int
  PROVE  /\ \E o : Sorts(o, rows, field) /\ Sorted(rows, field) = [n \in 1..Len(rows) |-> rows[o[n]]]
         /\ Sorted(rows, field) \in Seq(S) /\ Len(Sorted(rows, field)) = Len(rows)
         /\ ToSet(Sorted(rows, field)) = ToSet(rows)
<1> DEFINE m == Len(rows)
           Earlier(i) == {j \in 1..m : Sooner(rows, field, j, i)}
           place == [i \in 1..m |-> 1 + Cardinality(Earlier(i))]
<1>1. m \in Nat /\ DOMAIN rows = 1..m
  OBVIOUS
<1>2. /\ \A i, j \in 1..m : i = j \/ Sooner(rows, field, i, j) \/ Sooner(rows, field, j, i)
      /\ \A i \in 1..m : ~Sooner(rows, field, i, i)
      /\ \A i, j, k \in 1..m : Sooner(rows, field, i, j) /\ Sooner(rows, field, j, k)
                                 => Sooner(rows, field, i, k)
  BY <1>1, SoonerOrders
<1>3. IsFiniteSet(1..m) /\ Cardinality(1..m) = m
  <2> HIDE DEF m
  <2>1. m \in Int /\ 1 \in Int /\ (1 > m => m = 0) /\ m - 1 + 1 = m
    BY <1>1
  <2> QED
    BY <2>1, FS_Interval
<1> HIDE DEF m
<1>4. \A i \in 1..m : /\ IsFiniteSet(Earlier(i)) /\ Cardinality(Earlier(i)) \in Nat
                      /\ place[i] = 1 + Cardinality(Earlier(i)) /\ place[i] \in 1..m
  <2> TAKE i \in 1..m
  <2>1. Earlier(i) \subseteq (1..m) \ {i}
    BY <1>2
  <2>2. IsFiniteSet((1..m) \ {i}) /\ Cardinality((1..m) \ {i}) = m - 1
    BY <1>3, FS_RemoveElement
  <2>3. IsFiniteSet(Earlier(i)) /\ Cardinality(Earlier(i)) <= m - 1
    <3> HIDE DEF Earlier
    <3> QED
      BY <2>1, <2>2, FS_Subset
  <2>4. Cardinality(Earlier(i)) \in Nat
    <3> HIDE DEF Earlier
    <3> QED
      BY <2>3, FS_CardinalityType
  <2>5. place[i] = 1 + Cardinality(Earlier(i))
    OBVIOUS
  <2> HIDE DEF place, Earlier
  <2> QED
    BY <2>3, <2>4, <2>5, <1>1
<1>5. \A i, j \in 1..m : Sooner(rows, field, i, j) => place[i] < place[j]
  <2> SUFFICES ASSUME NEW i \in 1..m, NEW j \in 1..m, Sooner(rows, field, i, j)
               PROVE  place[i] < place[j]
    OBVIOUS
  <2>1. Earlier(i) \subseteq Earlier(j)
    BY <1>2
  <2>2. i \in Earlier(j) /\ i \notin Earlier(i)
    BY <1>2
  <2> HIDE DEF Earlier, place
  <2>3. Cardinality(Earlier(i)) <= Cardinality(Earlier(j))
        /\ Cardinality(Earlier(i)) # Cardinality(Earlier(j))
    BY <2>1, <2>2, <1>4, FS_Subset
  <2> QED
    BY <2>3, <1>4
<1>6. place \in [1..m -> 1..m]
  BY <1>4
<1> HIDE DEF place
<1>7. \A i, j \in 1..m : place[i] = place[j] => i = j
  <2> SUFFICES ASSUME NEW i \in 1..m, NEW j \in 1..m, place[i] = place[j], i # j PROVE FALSE
    OBVIOUS
  <2>1. place[i] \in Nat
    BY <1>6
  <2>2. place[i] < place[j] \/ place[j] < place[i]
    BY <1>2, <1>5
  <2> QED
    BY <2>1, <2>2
<1>8. \A n \in 1..m : \E i \in 1..m : place[i] = n
  <2>1. place \in Injection(1..m, 1..m)
    BY <1>6, <1>7 DEF Injection, IsInjective
  <2>2. place \in Surjection(1..m, 1..m)
    BY <2>1, <1>3, FS_Injection
  <2> QED
    BY <2>2 DEF Surjection
<1> DEFINE o == [n \in 1..m |-> CHOOSE i \in 1..m : place[i] = n]
<1>9. \A n \in 1..m : o[n] \in 1..m /\ place[o[n]] = n
  BY <1>8
<1>10. o \in [1..m -> 1..m]
  BY <1>9
<1> HIDE DEF o
<1>11. \A i \in 1..m : \E n \in 1..m : o[n] = i
  <2> TAKE i \in 1..m
  <2>1. place[i] \in 1..m
    BY <1>6
  <2>2. o[place[i]] = i
    BY <2>1, <1>7, <1>9
  <2> QED
    BY <2>1, <2>2
<1>12. \A n, k \in 1..m : n < k => Sooner(rows, field, o[n], o[k])
  <2> SUFFICES ASSUME NEW n \in 1..m, NEW k \in 1..m, n < k, ~Sooner(rows, field, o[n], o[k]) PROVE FALSE
    OBVIOUS
  <2>1. o[n] = o[k] \/ Sooner(rows, field, o[k], o[n])
    BY <1>2, <1>9
  <2>2. ~(place[o[k]] < place[o[n]])
    BY <1>9
  <2>3. o[n] = o[k]
    BY <2>1, <2>2, <1>5, <1>9
  <2> QED
    BY <2>3, <1>9
<1>13. Sorts(o, rows, field)
  BY <1>10, <1>11, <1>12 DEF Sorts, m
<1>14. Sorted(rows, field) = [n \in 1..m |-> rows[o[n]]]
  BY <1>13, SortedIs DEF m
<1>15. \A n \in 1..m : rows[o[n]] \in S
  BY <1>1, <1>9
<1>16. Sorted(rows, field) \in Seq(S) /\ Len(Sorted(rows, field)) = m
  BY <1>1, <1>14, <1>15
<1>17. ToSet(Sorted(rows, field)) = ToSet(rows)
  <2>1. DOMAIN Sorted(rows, field) = 1..m /\ \A n \in 1..m : Sorted(rows, field)[n] = rows[o[n]]
    BY <1>14
  <2>2. \A i \in 1..m : \E n \in 1..m : rows[o[n]] = rows[i]
    BY <1>11
  <2>3. /\ ToSet(Sorted(rows, field)) = {Sorted(rows, field)[n] : n \in 1..m}
        /\ ToSet(rows) = {rows[i] : i \in 1..m}
    BY <1>1, <2>1 DEF ToSet
  <2>4. ToSet(Sorted(rows, field)) \subseteq ToSet(rows)
    BY <1>9, <2>1, <2>3
  <2>5. ToSet(rows) \subseteq ToSet(Sorted(rows, field))
    BY <2>1, <2>2, <2>3
  <2> QED
    BY <2>4, <2>5
<1> QED
  BY <1>13, <1>14, <1>16, <1>17 DEF m

\* A row that is not sooner than any goes to the end.
LEMMA SortedAppend ==
  ASSUME NEW S, NEW rows \in Seq(S), NEW x \in S, NEW field,
         \A i \in DOMAIN rows : rows[i][field] \in Int /\ rows[i][field] <= x[field],
         x[field] \in Int
  PROVE  Sorted(Append(rows, x), field) = Append(Sorted(rows, field), x)
<1> DEFINE m == Len(rows)
           more == Append(rows, x)
<1>1. /\ m \in Nat /\ DOMAIN rows = 1..m /\ more \in Seq(S)
      /\ Len(more) = m + 1 /\ DOMAIN more = 1..(m + 1)
      /\ \A i \in 1..m : more[i] = rows[i]
      /\ more[m + 1] = x
  BY OneMore
<1>2. PICK o : Sorts(o, rows, field) /\ Sorted(rows, field) = [n \in 1..m |-> rows[o[n]]]
  <2>1. \A i \in DOMAIN rows : rows[i][field] \in Int
    OBVIOUS
  <2>2. /\ \E o : Sorts(o, rows, field) /\ Sorted(rows, field) = [n \in 1..m |-> rows[o[n]]]
        /\ Sorted(rows, field) \in Seq(S) /\ Len(Sorted(rows, field)) = m
        /\ ToSet(Sorted(rows, field)) = ToSet(rows)
    <3> HIDE DEF more
    <3> QED
      BY <2>1, SortedBy
  <2> QED
    BY <2>2
<1> DEFINE d == [n \in 1..(m + 1) |-> IF n = m + 1 THEN m + 1 ELSE o[n]]
<1> HIDE DEF m, more
<1>3. /\ o \in [1..m -> 1..m]
      /\ \A n, k \in 1..m : n < k => Sooner(rows, field, o[n], o[k])
      /\ \A i \in 1..m : \E n \in 1..m : o[n] = i
  BY <1>2 DEF Sorts, m
<1>4. \A n \in 1..(m + 1) : \/ n \in 1..m /\ n # m + 1 /\ d[n] = o[n] /\ d[n] \in 1..m
                            \/ n = m + 1 /\ d[n] = m + 1
  <2> TAKE n \in 1..(m + 1)
  <2>1. CASE n \in 1..m
    <3>1. n # m + 1 /\ o[n] \in 1..m
      BY <2>1, <1>1, <1>3
    <3> QED
      BY <3>1, <2>1
  <2>2. n \in 1..m \/ n = m + 1
    BY <1>1
  <2> QED
    BY <2>1, <2>2
<1>5. m + 1 \in 1..(m + 1) /\ d[m + 1] = m + 1 /\ \A n \in 1..m : n \in 1..(m + 1) /\ d[n] = o[n]
  BY <1>1
<1>6. d \in [1..(m + 1) -> 1..(m + 1)]
  BY <1>4, <1>5
<1> HIDE DEF d
<1>7. \A i \in 1..(m + 1) : \E n \in 1..(m + 1) : d[n] = i
  <2> TAKE i \in 1..(m + 1)
  <2>1. i \in 1..m \/ i = m + 1
    BY <1>1
  <2> QED
    BY <2>1, <1>3, <1>5
<1>8. \A n, k \in 1..(m + 1) : n < k => Sooner(more, field, d[n], d[k])
  <2> SUFFICES ASSUME NEW n \in 1..(m + 1), NEW k \in 1..(m + 1), n < k
               PROVE  Sooner(more, field, d[n], d[k])
    OBVIOUS
  <2>1. n \in 1..m /\ d[n] = o[n] /\ d[n] \in 1..m
    BY <1>1, <1>4
  <2>2. CASE k \in 1..m
    <3>1. Sooner(rows, field, o[n], o[k]) /\ d[k] = o[k] /\ o[k] \in 1..m
      BY <2>1, <2>2, <1>3, <1>5
    <3> QED
      BY <3>1, <2>1, <1>1 DEF Sooner
  <2>3. CASE k = m + 1
    <3>1. more[d[n]][field] \in Int /\ more[d[n]][field] <= x[field] /\ more[d[k]] = x
      BY <2>1, <2>3, <1>1, <1>5
    <3>2. d[n] < d[k]
      BY <2>1, <2>3, <1>1, <1>5
    <3> QED
      BY <3>1, <3>2 DEF Sooner
  <2> QED
    BY <2>2, <2>3, <1>1
<1>9. Sorts(d, more, field)
  BY <1>1, <1>6, <1>7, <1>8 DEF Sorts
<1>10. \A i \in DOMAIN more : more[i][field] \in Int
  <2> TAKE i \in DOMAIN more
  <2>1. i \in 1..m \/ i = m + 1
    BY <1>1
  <2> QED
    BY <2>1, <1>1
<1>11. Sorted(more, field) = [n \in 1..(m + 1) |-> more[d[n]]]
  BY <1>1, <1>9, <1>10, SortedIs
<1>12. Sorted(rows, field) \in Seq(S) /\ Len(Sorted(rows, field)) = m
  BY SortedBy DEF m
<1> DEFINE grown == Append(Sorted(rows, field), x)
<1>13. /\ Len(grown) = m + 1 /\ grown \in Seq(S)
       /\ \A n \in 1..m : grown[n] = Sorted(rows, field)[n]
       /\ grown[m + 1] = x
  BY <1>12, OneMore
<1>14. \A n \in 1..(m + 1) : grown[n] = more[d[n]]
  <2> TAKE n \in 1..(m + 1)
  <2> HIDE DEF grown
  <2>1. CASE n \in 1..m
    <3>1. grown[n] = rows[o[n]] /\ d[n] = o[n] /\ o[n] \in 1..m
      BY <2>1, <1>2, <1>3, <1>5, <1>13
    <3> QED
      BY <3>1, <1>1
  <2>2. CASE n = m + 1
    BY <2>2, <1>1, <1>5, <1>13
  <2> QED
    BY <2>1, <2>2, <1>1
<1>15. grown = [n \in 1..(m + 1) |-> grown[n]]
  <2> HIDE DEF grown
  <2> QED
    BY <1>13
<1> QED
  BY <1>11, <1>14, <1>15 DEF more
=============================================================================
