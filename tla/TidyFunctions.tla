---------------------------- MODULE TidyFunctions ----------------------------
(***************************************************************************)
(* When a function written in the notation of FunctionSteps is tidy: a     *)
(* property of its text, by which LibraryObjects_proofs shows that no run  *)
(* of it loses or releases twice what it made.  Here are the definition    *)
(* and what it takes to show it: facts about sequences and loops, about    *)
(* each kind of step, about what a label releases, and about stretches of  *)
(* steps put one after the other.                                          *)
(***************************************************************************)
EXTENDS FunctionSteps, WellFoundedInduction, TLAPS

-----------------------------------------------------------------------------
(* Sequences.                                                              *)

IsSeq(s) == s \in Seq(ToSet(s))

LEMMA Smallest ==
  ASSUME NEW S, S \subseteq Nat, S # {}
  PROVE  \E m \in S : \A k \in S : m <= k
  <1> DEFINE R == OpToRel(<, Nat)
  <1>1. PICK m \in S : \A k \in S : ~(<<k, m>> \in R)
    <2>1. QED
      BY NatLessThanWellFounded, WFMin
  <1>2. \A k \in S : ~(k < m)
    BY <1>1 DEF OpToRel
  <1>3. QED
    BY <1>2

\* A function on 1..n is a sequence.
LEMMA Tabulated ==
  ASSUME NEW n \in Nat, NEW s, s = [k \in 1..n |-> s[k]]
  PROVE  IsSeq(s) /\ DOMAIN s = 1..n /\ Len(s) = n
  <1>1. DOMAIN s = 1..n
    OBVIOUS
  <1>2. s \in [1..n -> ToSet(s)]
    BY <1>1 DEF ToSet
  <1>3. s \in Seq(ToSet(s))
    BY <1>2
  <1>4. QED
    BY <1>1, <1>3 DEF IsSeq

LEMMA SeqFacts ==
  ASSUME NEW s, IsSeq(s)
  PROVE  /\ Len(s) \in Nat /\ DOMAIN s = 1..Len(s)
         /\ \A k \in 1..Len(s) : s[k] \in ToSet(s)
         /\ \A x \in ToSet(s) : \E k \in 1..Len(s) : s[k] = x
  BY DEF IsSeq, ToSet

LEMMA Concat ==
  ASSUME NEW s, IsSeq(s), NEW t, IsSeq(t)
  PROVE  /\ IsSeq(s \o t) /\ Len(s \o t) = Len(s) + Len(t)
         /\ \A k \in 1..Len(s) : (s \o t)[k] = s[k]
         /\ \A k \in Len(s) + 1 .. Len(s) + Len(t) : (s \o t)[k] = t[k - Len(s)]
         /\ ToSet(s \o t) = ToSet(s) \cup ToSet(t)
  <1>1. /\ s \o t \in Seq(ToSet(s) \cup ToSet(t))
        /\ Len(s \o t) = Len(s) + Len(t) /\ Len(s) \in Nat /\ Len(t) \in Nat
        /\ \A k \in 1..Len(s) : (s \o t)[k] = s[k]
        /\ \A k \in 1..Len(t) : (s \o t)[k + Len(s)] = t[k]
        /\ DOMAIN (s \o t) = 1 .. Len(s) + Len(t)
        /\ DOMAIN s = 1..Len(s) /\ DOMAIN t = 1..Len(t)
    BY DEF IsSeq, ToSet
  <1> DEFINE u == s \o t
             m == Len(s)
             n == Len(t)
  <1> HIDE DEF u, m, n
  <1>2. \A k \in m + 1 .. m + n : u[k] = t[k - m]
    <2>1. SUFFICES ASSUME NEW k \in m + 1 .. m + n PROVE u[k] = t[k - m]
      OBVIOUS
    <2>2. k - m \in 1..n /\ (k - m) + m = k
      BY <1>1 DEF m, n
    <2>3. QED
      BY <1>1, <2>2 DEF u, m, n
  <1>3. ToSet(u) = ToSet(s) \cup ToSet(t)
    <2>1. ToSet(u) \subseteq ToSet(s) \cup ToSet(t)
      BY <1>1 DEF ToSet, u
    <2>2. ASSUME NEW x \in ToSet(s) PROVE x \in ToSet(u)
      <3>1. PICK k \in 1..m : s[k] = x
        BY <1>1 DEF ToSet, m
      <3>2. k \in 1 .. m + n /\ u[k] = x
        BY <1>1, <3>1 DEF u, m, n
      <3>3. QED
        BY <1>1, <3>2 DEF ToSet, u, m, n
    <2>3. ASSUME NEW x \in ToSet(t) PROVE x \in ToSet(u)
      <3>1. PICK k \in 1..n : t[k] = x
        BY <1>1 DEF ToSet, n
      <3>2. k + m \in 1 .. m + n /\ u[k + m] = x
        BY <1>1, <3>1 DEF u, m, n
      <3>3. QED
        BY <1>1, <3>2 DEF ToSet, u, m, n
    <2>4. QED
      BY <2>1, <2>2, <2>3
  <1>4. IsSeq(u)
    BY <1>1, <1>3 DEF IsSeq, u
  <1>5. QED
    BY <1>1, <1>2, <1>3, <1>4 DEF u, m, n

LEMMA ConcatInjective ==
  ASSUME NEW s, IsSeq(s), IsInjective(s), NEW t, IsSeq(t), IsInjective(t),
         ToSet(s) \cap ToSet(t) = {}
  PROVE  IsInjective(s \o t)
  <1> DEFINE u == s \o t
             m == Len(s)
             n == Len(t)
  <1>1. /\ m \in Nat /\ n \in Nat /\ DOMAIN u = 1 .. m + n
        /\ DOMAIN s = 1..m /\ DOMAIN t = 1..n
        /\ \A k \in 1..m : u[k] = s[k] /\ s[k] \in ToSet(s)
        /\ \A k \in m + 1 .. m + n : u[k] = t[k - m] /\ t[k - m] \in ToSet(t)
    <2>1. IsSeq(u) /\ Len(u) = m + n
      BY Concat
    <2>2. m \in Nat /\ n \in Nat /\ DOMAIN u = 1 .. m + n /\ DOMAIN s = 1..m /\ DOMAIN t = 1..n
      BY <2>1, SeqFacts
    <2>3. \A k \in m + 1 .. m + n : k - m \in 1..n
      BY <2>2
    <2>4. \A k \in 1..m : s[k] \in ToSet(s)
      BY SeqFacts
    <2>5. \A k \in 1..n : t[k] \in ToSet(t)
      BY SeqFacts
    <2>6. QED
      BY <2>2, <2>3, <2>4, <2>5, Concat
  <1> HIDE DEF u, m, n
  <1>2. SUFFICES ASSUME NEW a \in 1 .. m + n, NEW b \in 1 .. m + n, u[a] = u[b] PROVE a = b
    BY <1>1 DEF IsInjective, u
  <1>3. CASE a \in 1..m /\ b \in 1..m
    BY <1>1, <1>2, <1>3 DEF IsInjective
  <1>4. CASE a \in m + 1 .. m + n /\ b \in m + 1 .. m + n
    <2>1. a - m \in 1..n /\ b - m \in 1..n /\ t[a - m] = t[b - m]
      BY <1>1, <1>2, <1>4
    <2>2. a - m = b - m
      BY <1>1, <2>1 DEF IsInjective
    <2>3. QED
      BY <1>1, <2>2
  <1>5. CASE a \in 1..m /\ b \in m + 1 .. m + n
    BY <1>1, <1>2, <1>5
  <1>6. CASE b \in 1..m /\ a \in m + 1 .. m + n
    BY <1>1, <1>2, <1>6
  <1>7. QED
    BY <1>1, <1>3, <1>4, <1>5, <1>6

-----------------------------------------------------------------------------
(* The sequences of a loop.                                                *)

\* g joins the first k parts, one after the other.
Joins(part, k, g) == g = [x \in 1..k |-> IF x = 1 THEN part[x] ELSE g[x - 1] \o part[x]]

LEMMA FlattenUnfolds ==
  ASSUME NEW part, IsSeq(part), Len(part) # 0
  PROVE  \E f : Joins(part, Len(part), f) /\ FlattenSeq(part) = f[Len(part)]
  <1> DEFINE n == Len(part)
             Bad == {k \in 1..n : ~ \E g : Joins(part, k, g)}
  <1>1. n \in Nat /\ n # 0
    BY SeqFacts
  <1> HIDE DEF n
  <1>2. Bad = {}
    <2>1. SUFFICES ASSUME Bad # {} PROVE FALSE
      OBVIOUS
    <2>2. Bad \subseteq 1..n
      OBVIOUS
    <2>3. Bad \subseteq Nat
      <3> HIDE DEF Bad
      <3>1. QED
        BY <1>1, <2>2
    <2>4. PICK m \in Bad : \A k \in Bad : m <= k
      <3> HIDE DEF Bad
      <3>1. QED
        BY <2>1, <2>3, Smallest
    <2>5. m \in 1..n /\ m \in Nat
      BY <1>1, <2>4
    <2>6. CASE m = 1
      <3> DEFINE g == [x \in 1..1 |-> part[x]]
      <3>1. Joins(part, 1, g)
        BY DEF Joins
      <3>2. QED
        BY <2>4, <2>6, <3>1
    <2>7. CASE m # 1
      <3>1. m - 1 \in 1..n /\ m - 1 \notin Bad
        <4> HIDE DEF Bad
        <4>1. QED
          BY <1>1, <2>4, <2>5, <2>7
      <3>2. PICK g : Joins(part, m - 1, g)
        BY <3>1
      <3> DEFINE h == [x \in 1..m |-> IF x < m THEN g[x] ELSE g[m - 1] \o part[m]]
      <3> HIDE DEF Bad
      <3>3. ASSUME NEW x \in 1..m
            PROVE  h[x] = IF x = 1 THEN part[x] ELSE h[x - 1] \o part[x]
        <4>1. CASE x = m
          <5>0. m \in 1..m /\ ~(m < m) /\ m - 1 \in 1..m /\ m - 1 < m
            BY <2>5, <2>7
          <5>1. h[m] = g[m - 1] \o part[m] /\ h[m - 1] = g[m - 1]
            BY <5>0
          <5>2. QED
            BY <2>7, <4>1, <5>1
        <4>2. CASE x < m /\ x # 1
          <5>1. x \in 1 .. m - 1 /\ x - 1 \in 1..m /\ x - 1 < m
            BY <2>5, <4>2
          <5>2. g[x] = g[x - 1] \o part[x]
            BY <3>2, <4>2, <5>1 DEF Joins
          <5>3. h[x] = g[x] /\ h[x - 1] = g[x - 1]
            BY <4>2, <5>1
          <5>4. QED
            BY <4>2, <5>2, <5>3
        <4>3. CASE x = 1
          <5>1. 1 \in 1 .. m - 1 /\ 1 < m
            BY <2>5, <2>7
          <5>2. g[1] = part[1]
            BY <3>2, <5>1 DEF Joins
          <5>3. QED
            BY <4>3, <5>1, <5>2
        <4>4. QED
          BY <2>5, <4>1, <4>2, <4>3
      <3>4. Joins(part, m, h)
        <4>1. h = [x \in 1..m |-> IF x = 1 THEN part[x] ELSE h[x - 1] \o part[x]]
          BY <3>3
        <4>2. QED
          BY <4>1 DEF Joins
      <3>5. QED
        BY <2>4, <3>4 DEF Bad
    <2>8. QED
      BY <2>6, <2>7
  <1> DEFINE f == CHOOSE g : Joins(part, n, g)
  <1>3. Joins(part, n, f)
    <2>1. n \in 1..n
      BY <1>1
    <2>2. \E g : Joins(part, n, g)
      BY <1>2, <2>1
    <2>3. QED
      BY <2>2
  <1>4. FlattenSeq(part) = f[n]
    BY <1>1 DEF FlattenSeq, n, Joins
  <1>5. QED
    BY <1>3, <1>4 DEF n

\* Joined one by one: what holds of the first part, and of a sequence with the
\* next part appended, is shown for them all by looking at the first k it fails for.
LEMMA JoinsStep ==
  ASSUME NEW part, IsSeq(part), Len(part) # 0, NEW f, Joins(part, Len(part), f)
  PROVE  /\ f[1] = part[1]
         /\ \A k \in 2 .. Len(part) : k - 1 \in 1 .. Len(part) /\ f[k] = f[k - 1] \o part[k]
  <1> DEFINE n == Len(part)
  <1>1. n \in Nat /\ \A k \in 1..n : f[k] = IF k = 1 THEN part[k] ELSE f[k - 1] \o part[k]
    BY SeqFacts DEF Joins
  <1>2. \A k \in 2..n : k \in 1..n /\ k # 1 /\ k - 1 \in 1..n
    OBVIOUS
  <1>3. 1 \in 1..n
    BY <1>1
  <1>4. QED
    BY <1>1, <1>2, <1>3

\* The first k parts joined hold what the parts hold.
LEMMA JoinsSet ==
  ASSUME NEW part, IsSeq(part), \A k \in DOMAIN part : IsSeq(part[k]),
         NEW f, Joins(part, Len(part), f), NEW k \in DOMAIN part
  PROVE  IsSeq(f[k]) /\ \A e : e \in ToSet(f[k]) <=> \E x \in 1..k : e \in ToSet(part[x])
  <1> DEFINE n == Len(part)
             P(j) == IsSeq(f[j]) /\ \A e : e \in ToSet(f[j]) <=> \E x \in 1..j : e \in ToSet(part[x])
             Bad == {j \in 1..n : ~P(j)}
  <1>1. n \in Nat /\ DOMAIN part = 1..n /\ n > 0
    BY SeqFacts
  <1> HIDE DEF n
  <1>2. f[1] = part[1] /\ \A j \in 2..n : j - 1 \in 1..n /\ f[j] = f[j - 1] \o part[j]
    <2>1. Joins(part, Len(part), f) /\ Len(part) # 0
      BY <1>1 DEF n
    <2>2. QED
      BY <2>1, JoinsStep DEF n
  <1>3. P(1)
    <2>1. 1 \in DOMAIN part /\ 1..1 = {1}
      BY <1>1
    <2>2. QED
      BY <1>2, <2>1
  <1>4. ASSUME NEW j \in 2..n, P(j - 1) PROVE P(j)
    <2>1. j \in DOMAIN part /\ 1..j = (1 .. j - 1) \cup {j}
      BY <1>1
    <2>2. IsSeq(f[j]) /\ ToSet(f[j]) = ToSet(f[j - 1]) \cup ToSet(part[j])
      <3>1. IsSeq(f[j - 1]) /\ IsSeq(part[j]) /\ f[j] = f[j - 1] \o part[j]
        BY <1>2, <1>4, <2>1
      <3>2. QED
        BY <3>1, Concat
    <2>3. QED
      BY <1>4, <2>1, <2>2
  <1> HIDE DEF P
  <1>5. Bad = {}
    <2>1. SUFFICES ASSUME Bad # {} PROVE FALSE
      OBVIOUS
    <2>2. Bad \subseteq Nat
      BY <1>1
    <2>3. PICK m \in Bad : \A j \in Bad : m <= j
      <3> HIDE DEF Bad
      <3>1. QED
        BY <2>1, <2>2, Smallest
    <2>4. m # 1
      BY <1>3
    <2>5. m \in 2..n /\ m - 1 \in 1..n /\ m - 1 \notin Bad
      BY <1>1, <2>3, <2>4
    <2>6. QED
      BY <1>4, <2>5
  <1>6. QED
    BY <1>1, <1>5 DEF P

LEMMA FlattenEmpty ==
  ASSUME NEW part, IsSeq(part), Len(part) = 0
  PROVE  FlattenSeq(part) = part /\ DOMAIN part = {}
  BY SeqFacts DEF FlattenSeq

LEMMA FlattenHolds ==
  ASSUME NEW part, IsSeq(part), \A k \in DOMAIN part : IsSeq(part[k])
  PROVE  /\ IsSeq(FlattenSeq(part))
         /\ \A e : e \in ToSet(FlattenSeq(part)) <=> \E k \in DOMAIN part : e \in ToSet(part[k])
  <1>1. Len(part) = 0 => /\ FlattenSeq(part) = part /\ DOMAIN part = {}
                         /\ ToSet(part) = {}
    BY FlattenEmpty DEF ToSet
  <1>2. ASSUME Len(part) # 0
        PROVE  /\ IsSeq(FlattenSeq(part))
               /\ \A e : e \in ToSet(FlattenSeq(part)) <=> \E k \in DOMAIN part : e \in ToSet(part[k])
    <2>1. PICK f : Joins(part, Len(part), f) /\ FlattenSeq(part) = f[Len(part)]
      BY <1>2, FlattenUnfolds
    <2>2. Len(part) \in DOMAIN part /\ DOMAIN part = 1..Len(part)
      BY <1>2, SeqFacts
    <2>3. /\ IsSeq(f[Len(part)])
          /\ \A e : e \in ToSet(f[Len(part)]) <=> \E k \in 1..Len(part) : e \in ToSet(part[k])
      BY <2>1, <2>2, JoinsSet
    <2>4. QED
      BY <2>1, <2>2, <2>3
  <1>3. QED
    BY <1>1, <1>2

LEMMA FlattenInjective ==
  ASSUME NEW part, IsSeq(part),
         \A k \in DOMAIN part : IsSeq(part[k]) /\ IsInjective(part[k]),
         \A j, k \in DOMAIN part : j # k => ToSet(part[j]) \cap ToSet(part[k]) = {}
  PROVE  IsInjective(FlattenSeq(part))
  <1>1. CASE Len(part) = 0
    BY <1>1, FlattenEmpty DEF IsInjective
  <1>2. CASE Len(part) # 0
    <2> DEFINE n == Len(part)
    <2>1. PICK f : Joins(part, n, f) /\ FlattenSeq(part) = f[n]
      BY <1>2, FlattenUnfolds
    <2>2. n \in Nat /\ DOMAIN part = 1..n /\ n > 0
      BY <1>2, SeqFacts
    <2>3. \A k \in 1..n : IsSeq(f[k]) /\ \A e : e \in ToSet(f[k]) <=> \E x \in 1..k : e \in ToSet(part[x])
      BY <2>1, <2>2, JoinsSet
    <2> HIDE DEF n
    <2>4. f[1] = part[1] /\ \A k \in 2..n : k - 1 \in 1..n /\ f[k] = f[k - 1] \o part[k]
      <3>1. Joins(part, Len(part), f) /\ Len(part) # 0
        BY <1>2, <2>1 DEF n
      <3>2. QED
        BY <3>1, JoinsStep DEF n
    <2> DEFINE Bad == {k \in 1..n : ~IsInjective(f[k])}
    <2>5. 1 \notin Bad
      BY <2>2, <2>4
    <2>6. ASSUME NEW k \in 2..n, IsInjective(f[k - 1]) PROVE IsInjective(f[k])
      <3>1. k \in DOMAIN part /\ k - 1 \in 1..n /\ IsSeq(part[k]) /\ IsInjective(part[k])
        BY <2>2
      <3>2. ToSet(f[k - 1]) \cap ToSet(part[k]) = {}
        <4>1. SUFFICES ASSUME NEW e \in ToSet(f[k - 1]), e \in ToSet(part[k]) PROVE FALSE
          OBVIOUS
        <4>2. PICK x \in 1 .. k - 1 : e \in ToSet(part[x])
          BY <2>3, <3>1
        <4>3. x \in DOMAIN part /\ x # k
          BY <2>2
        <4>4. ToSet(part[x]) \cap ToSet(part[k]) = {}
          BY <3>1, <4>3
        <4>5. QED
          BY <4>1, <4>2, <4>4
      <3>3. IsSeq(f[k - 1])
        BY <2>3, <3>1
      <3>4. IsInjective(f[k - 1] \o part[k])
        BY <2>6, <3>1, <3>2, <3>3, ConcatInjective
      <3>5. QED
        BY <2>4, <3>4
    <2>7. Bad = {}
      <3>1. SUFFICES ASSUME Bad # {} PROVE FALSE
        OBVIOUS
      <3>2. Bad \subseteq Nat
        BY <2>2
      <3>3. PICK m \in Bad : \A k \in Bad : m <= k
        <4> HIDE DEF Bad
        <4>1. QED
          BY <3>1, <3>2, Smallest
      <3>4. m \in 2..n /\ m - 1 \in 1..n /\ m - 1 \notin Bad
        BY <2>2, <2>5, <3>3
      <3>5. QED
        BY <2>6, <3>4
    <2>8. IsInjective(f[n])
      BY <2>2, <2>7
    <2>9. QED
      BY <2>1, <2>8
  <1>3. QED
    BY <1>1, <1>2

\* Short sequences written out.
LEMMA Written ==
  /\ IsSeq(<<>>) /\ ToSet(<<>>) = {} /\ IsInjective(<<>>) /\ Len(<<>>) = 0
  /\ \A a :
       /\ IsSeq(<<a>>) /\ ToSet(<<a>>) = {a} /\ IsInjective(<<a>>)
       /\ Len(<<a>>) = 1 /\ <<a>>[1] = a
  /\ \A a, b :
       /\ IsSeq(<<a, b>>) /\ ToSet(<<a, b>>) = {a, b}
       /\ a # b => IsInjective(<<a, b>>)
       /\ Len(<<a, b>>) = 2 /\ <<a, b>>[1] = a /\ <<a, b>>[2] = b
  /\ \A a, b, c :
       /\ IsSeq(<<a, b, c>>) /\ ToSet(<<a, b, c>>) = {a, b, c}
       /\ a # b /\ a # c /\ b # c => IsInjective(<<a, b, c>>)
       /\ Len(<<a, b, c>>) = 3
       /\ <<a, b, c>>[1] = a /\ <<a, b, c>>[2] = b /\ <<a, b, c>>[3] = c
  <1>1. /\ DOMAIN <<>> = {}
        /\ \A a : DOMAIN <<a>> = {1}
        /\ \A a, b : DOMAIN <<a, b>> = {1, 2}
        /\ \A a, b, c : DOMAIN <<a, b, c>> = {1, 2, 3}
    OBVIOUS
  <1>2. IsSeq(<<>>) /\ ToSet(<<>>) = {} /\ IsInjective(<<>>) /\ Len(<<>>) = 0
    BY <1>1 DEF IsSeq, ToSet, IsInjective
  <1>3. ASSUME NEW a
        PROVE  /\ IsSeq(<<a>>) /\ ToSet(<<a>>) = {a} /\ IsInjective(<<a>>)
               /\ Len(<<a>>) = 1 /\ <<a>>[1] = a
    <2>1. ToSet(<<a>>) = {a}
      BY <1>1 DEF ToSet
    <2>2. QED
      BY <1>1, <2>1 DEF IsSeq, IsInjective
  <1>4. ASSUME NEW a, NEW b
        PROVE  /\ IsSeq(<<a, b>>) /\ ToSet(<<a, b>>) = {a, b} /\ (a # b => IsInjective(<<a, b>>))
               /\ Len(<<a, b>>) = 2 /\ <<a, b>>[1] = a /\ <<a, b>>[2] = b
    <2>1. ToSet(<<a, b>>) = {a, b}
      BY <1>1 DEF ToSet
    <2>2. QED
      BY <1>1, <2>1 DEF IsSeq, IsInjective
  <1>5. ASSUME NEW a, NEW b, NEW c
        PROVE  /\ IsSeq(<<a, b, c>>) /\ ToSet(<<a, b, c>>) = {a, b, c}
               /\ a # b /\ a # c /\ b # c => IsInjective(<<a, b, c>>)
               /\ Len(<<a, b, c>>) = 3
               /\ <<a, b, c>>[1] = a /\ <<a, b, c>>[2] = b /\ <<a, b, c>>[3] = c
    <2>1. ToSet(<<a, b, c>>) = {a, b, c}
      BY <1>1 DEF ToSet
    <2>2. QED
      BY <1>1, <2>1 DEF IsSeq, IsInjective
  <1>6. QED
    BY <1>2, <1>3, <1>4, <1>5

LEMMA FlattenShort ==
  ASSUME NEW part, IsSeq(part), Len(part) \in 1..3
  PROVE  /\ Len(part) = 1 => FlattenSeq(part) = part[1]
         /\ Len(part) = 2 => FlattenSeq(part) = part[1] \o part[2]
         /\ Len(part) = 3 => FlattenSeq(part) = (part[1] \o part[2]) \o part[3]
  <1>1. PICK f : Joins(part, Len(part), f) /\ FlattenSeq(part) = f[Len(part)]
    BY FlattenUnfolds
  <1> DEFINE n == Len(part)
  <1>2. \A k \in 1..n : f[k] = IF k = 1 THEN part[k] ELSE f[k - 1] \o part[k]
    BY <1>1 DEF Joins
  <1>3. n \in {1, 2, 3} /\ FlattenSeq(part) = f[n]
    BY <1>1
  <1> HIDE DEF n
  <1>4. f[1] = part[1]
    BY <1>2, <1>3
  <1>5. n > 1 => f[2] = part[1] \o part[2]
    <2>1. SUFFICES ASSUME n > 1 PROVE f[2] = part[1] \o part[2]
      OBVIOUS
    <2>2. 2 \in 1..n /\ 2 # 1
      BY <1>3, <2>1
    <2>3. f[2] = f[2 - 1] \o part[2]
      BY <1>2, <2>2
    <2>4. 2 - 1 = 1
      OBVIOUS
    <2>5. QED
      BY <1>4, <2>3, <2>4, Zenon
  <1>6. n > 2 => f[3] = (part[1] \o part[2]) \o part[3]
    <2>1. SUFFICES ASSUME n > 2 PROVE f[3] = (part[1] \o part[2]) \o part[3]
      OBVIOUS
    <2>2. 3 \in 1..n /\ 3 # 1 /\ n > 1
      BY <1>3, <2>1
    <2>3. f[3] = f[3 - 1] \o part[3]
      BY <1>2, <2>2
    <2>4. 3 - 1 = 2
      OBVIOUS
    <2>5. QED
      BY <1>5, <2>2, <2>3, <2>4, Zenon
  <1>7. /\ n = 1 => FlattenSeq(part) = part[1]
        /\ n = 2 => FlattenSeq(part) = part[1] \o part[2]
        /\ n = 3 => FlattenSeq(part) = (part[1] \o part[2]) \o part[3]
    <2>1. (n = 2 => n > 1) /\ (n = 3 => n > 2)
      OBVIOUS
    <2>2. QED
      BY <1>3, <1>4, <1>5, <1>6, <2>1, Zenon
  <1>8. QED
    BY <1>7, Zenon DEF n

\* What a goto runs, for the numbers of labels the functions have.
LEMMA UnwindNone == \A label : Unwind(<<>>, label) = <<>>
  <1>1. SUFFICES ASSUME NEW label PROVE Unwind(<<>>, label) = <<>>
    OBVIOUS
  <1> DEFINE part == [k \in DOMAIN <<>> |->
                        IF \E j \in 1..k : <<>>[j].label = label THEN <<>>[k].slots ELSE <<>>]
  <1>2. part = <<>>
    OBVIOUS
  <1>3. Unwind(<<>>, label) = FlattenSeq(part)
    BY DEF Unwind
  <1>4. QED
    BY <1>2, <1>3, Written, FlattenEmpty

LEMMA UnwindOne ==
  ASSUME NEW a, NEW label
  PROVE  Unwind(<<a>>, label) = IF a.label = label THEN a.slots ELSE <<>>
  <1> DEFINE undo == <<a>>
             part == [k \in DOMAIN undo |->
                        IF \E j \in 1..k : undo[j].label = label THEN undo[k].slots ELSE <<>>]
  <1>1. DOMAIN undo = 1..1 /\ undo[1] = a
    OBVIOUS
  <1>2. /\ DOMAIN part = 1..1
        /\ part[1] = IF a.label = label THEN a.slots ELSE <<>>
    <2>1. 1..1 = {1}
      OBVIOUS
    <2> HIDE DEF undo
    <2>2. QED
      BY <1>1, <2>1
  <1>3. Unwind(undo, label) = FlattenSeq(part)
    BY DEF Unwind
  <1>4. IsSeq(part) /\ Len(part) = 1
    <2>1. part = [k \in 1..1 |-> part[k]]
      BY <1>2
    <2> HIDE DEF part
    <2>2. QED
      BY <2>1, Tabulated
  <1> HIDE DEF undo, part
  <1>5. FlattenSeq(part) = part[1]
    <2>1. Len(part) \in 1..3
      BY <1>4
    <2>2. QED
      BY <1>4, <2>1, FlattenShort, Zenon
  <1>6. Unwind(undo, label) = IF a.label = label THEN a.slots ELSE <<>>
    BY <1>2, <1>3, <1>5
  <1>7. QED
    BY <1>6 DEF undo

LEMMA UnwindTwo ==
  ASSUME NEW a, NEW b, NEW label
  PROVE  Unwind(<<a, b>>, label) = 
           (IF a.label = label THEN a.slots ELSE <<>>)
             \o (IF label \in {a.label, b.label} THEN b.slots ELSE <<>>)
  <1> DEFINE undo == <<a, b>>
             part == [k \in DOMAIN undo |->
                        IF \E j \in 1..k : undo[j].label = label THEN undo[k].slots ELSE <<>>]
  <1>1. DOMAIN undo = 1..2 /\ undo[1] = a /\ undo[2] = b
    OBVIOUS
  <1>2. /\ DOMAIN part = 1..2
        /\ part[1] = IF a.label = label THEN a.slots ELSE <<>>
        /\ part[2] = IF label \in {a.label, b.label} THEN b.slots ELSE <<>>
    <2>1. 1..1 = {1} /\ 1..2 = {1, 2}
      OBVIOUS
    <2> HIDE DEF undo
    <2>2. QED
      BY <1>1, <2>1
  <1>3. Unwind(undo, label) = FlattenSeq(part)
    BY DEF Unwind
  <1>4. IsSeq(part) /\ Len(part) = 2
    <2>1. part = [k \in 1..2 |-> part[k]]
      BY <1>2
    <2> HIDE DEF part
    <2>2. QED
      BY <2>1, Tabulated
  <1> HIDE DEF undo, part
  <1>5. FlattenSeq(part) = part[1] \o part[2]
    <2>1. Len(part) \in 1..3
      BY <1>4
    <2>2. QED
      BY <1>4, <2>1, FlattenShort, Zenon
  <1>6. Unwind(undo, label) = 
           (IF a.label = label THEN a.slots ELSE <<>>)
             \o (IF label \in {a.label, b.label} THEN b.slots ELSE <<>>)
    BY <1>2, <1>3, <1>5
  <1>7. QED
    BY <1>6 DEF undo

\* What a label releases where three may be.
Released(a, b, c, label) ==
  ((IF a.label = label THEN a.slots ELSE <<>>)
     \o (IF label \in {a.label, b.label} THEN b.slots ELSE <<>>))
     \o (IF label \in {a.label, b.label, c.label} THEN c.slots ELSE <<>>)

LEMMA UnwindThree ==
  ASSUME NEW a, NEW b, NEW c, NEW label
  PROVE  Unwind(<<a, b, c>>, label) = Released(a, b, c, label)
  <1> DEFINE undo == <<a, b, c>>
             part == [k \in DOMAIN undo |->
                        IF \E j \in 1..k : undo[j].label = label THEN undo[k].slots ELSE <<>>]
  <1>1. DOMAIN undo = 1..3 /\ undo[1] = a /\ undo[2] = b /\ undo[3] = c
    OBVIOUS
  <1>2. /\ DOMAIN part = 1..3
        /\ part[1] = IF a.label = label THEN a.slots ELSE <<>>
        /\ part[2] = IF label \in {a.label, b.label} THEN b.slots ELSE <<>>
        /\ part[3] = IF label \in {a.label, b.label, c.label} THEN c.slots ELSE <<>>
    <2>1. 1..1 = {1} /\ 1..2 = {1, 2} /\ 1..3 = {1, 2, 3}
      OBVIOUS
    <2> HIDE DEF undo
    <2>2. QED
      BY <1>1, <2>1
  <1>3. Unwind(undo, label) = FlattenSeq(part)
    BY DEF Unwind
  <1>4. IsSeq(part) /\ Len(part) = 3
    <2>1. part = [k \in 1..3 |-> part[k]]
      BY <1>2
    <2> HIDE DEF part
    <2>2. QED
      BY <2>1, Tabulated
  <1> HIDE DEF undo, part
  <1>5. FlattenSeq(part) = (part[1] \o part[2]) \o part[3]
    <2>1. Len(part) \in 1..3
      BY <1>4
    <2>2. QED
      BY <1>4, <2>1, FlattenShort, Zenon
  <1>6. Unwind(undo, label) = 
           ((IF a.label = label THEN a.slots ELSE <<>>)
             \o (IF label \in {a.label, b.label} THEN b.slots ELSE <<>>))
             \o (IF label \in {a.label, b.label, c.label} THEN c.slots ELSE <<>>)
    BY <1>2, <1>3, <1>5
  <1>7. QED
    BY <1>6 DEF undo, Released
-----------------------------------------------------------------------------
(* A tidy function.  Nothing here runs: a step is only compared with the   *)
(* steps before it, and with what its label releases.                      *)

Makes(s)  == s.does \in {"get", "skip", "maybe", "crash"} /\ s.slot # none
Surely(s) == s.does \in {"get", "crash"} /\ s.slot # none
Fails(s)  == s.does \in {"get", "maybe"}
Writes(s) == s.does \in {"get", "crash", "set"}
Gives(s)  == IF s.does = "free" THEN {s.slot} ELSE s.from

\* Slots that are given back by the very next step.
Passing == {<<"device", i>> : i \in Nat}

\* What the label of a step releases.
Undone(undo, s) == ToSet(Unwind(undo, s.label))

\* Of a step a and a later step b.  Where b may fail, the label releases what a made,
\* or it is known to be left, and does not release what a gave away; and what a gave
\* away is not made again.
Follows(undo, left, a, b) ==
  /\ Fails(b) => /\ Makes(a) => a.slot \in Undone(undo, b) \cup left \cup Passing
                 /\ Gives(a) \cap Undone(undo, b) = {}
  /\ Makes(b) => b.slot \notin Gives(a)

Ordered(undo, left, steps) ==
  \A q, p \in DOMAIN steps : q < p => Follows(undo, left, steps[q], steps[p])

Sound(undo, given, left, s) ==
  /\ s.from # {} => s.does = "get"
  /\ Makes(s) => s.slot \notin s.from
  /\ Fails(s) => /\ IsSeq(Unwind(undo, s.label)) /\ IsInjective(Unwind(undo, s.label))
                 /\ given \subseteq Undone(undo, s) \cup left

Passes(steps) ==
  \A q \in DOMAIN steps : Makes(steps[q]) /\ steps[q].slot \in Passing =>
    q + 1 \in DOMAIN steps /\ steps[q + 1].does = "free" /\ steps[q + 1].slot = steps[q].slot

\* The destroy function releases once, and only, what is there in the end.
Ending(steps, destroy, given, junk, optional) ==
  /\ IsSeq(destroy) /\ IsInjective(destroy)
  /\ \A x \in given : x \in ToSet(destroy) \/ \E s \in ToSet(steps) : x \in Gives(s)
  /\ \A s \in ToSet(steps) : Makes(s) =>
       s.slot \in ToSet(destroy) \/ \E t \in ToSet(steps) : s.slot \in Gives(t)
  /\ \A s \in ToSet(steps) : Gives(s) \cap ToSet(destroy) = {}
  /\ \A x \in ToSet(destroy) : x \in optional \/ \E s \in ToSet(steps) : Surely(s) /\ s.slot = x
  /\ \A x \in junk : \E s \in ToSet(steps) : Writes(s) /\ s.slot = x

Tidy(c, left, optional, exempt) ==
  /\ IsSeq(c.steps)
  /\ \A s \in ToSet(c.steps) : Sound(c.undo, c.given, left, s)
  /\ Ordered(c.undo, left, c.steps)
  /\ Passes(c.steps)
  /\ Ending(c.steps, c.destroy, c.given, c.junk, optional)
  /\ c.junk = {} \/ exempt

-----------------------------------------------------------------------------
(* The notation, step by step.                                             *)

LEMMA GetFacts ==
  ASSUME NEW x, NEW label
  PROVE  /\ Get(x, label).slot = x /\ Get(x, label).label = label /\ Get(x, label).from = {}
         /\ Makes(Get(x, label)) <=> x # none
         /\ Surely(Get(x, label)) <=> x # none
         /\ Fails(Get(x, label)) /\ Writes(Get(x, label)) /\ Gives(Get(x, label)) = {}
  <1>1. /\ Get(x, label).does = "get" /\ Get(x, label).slot = x
        /\ Get(x, label).from = {} /\ Get(x, label).label = label
    BY DEF Get, Step
  <1>2. QED
    BY <1>1 DEF Makes, Surely, Fails, Writes, Gives

LEMMA TryFacts ==
  ASSUME NEW label
  PROVE  /\ Try(label).slot = none /\ Try(label).label = label /\ Try(label).from = {}
         /\ ~Makes(Try(label)) /\ ~Surely(Try(label))
         /\ Fails(Try(label)) /\ Gives(Try(label)) = {}
  BY GetFacts DEF Try

LEMMA GetFromFacts ==
  ASSUME NEW x, NEW from, NEW label
  PROVE  /\ GetFrom(x, from, label).slot = x /\ GetFrom(x, from, label).label = label
         /\ GetFrom(x, from, label).from = from /\ GetFrom(x, from, label).does = "get"
         /\ Makes(GetFrom(x, from, label)) <=> x # none
         /\ Surely(GetFrom(x, from, label)) <=> x # none
         /\ Fails(GetFrom(x, from, label)) /\ Writes(GetFrom(x, from, label))
         /\ Gives(GetFrom(x, from, label)) = from
  <1>1. /\ GetFrom(x, from, label).does = "get" /\ GetFrom(x, from, label).slot = x
        /\ GetFrom(x, from, label).from = from /\ GetFrom(x, from, label).label = label
    BY DEF Get, GetFrom, Step
  <1>2. QED
    BY <1>1 DEF Makes, Surely, Fails, Writes, Gives

LEMMA GetMaybeFacts ==
  ASSUME NEW x, NEW label
  PROVE  /\ GetMaybe(x, label).slot = x /\ GetMaybe(x, label).label = label
         /\ GetMaybe(x, label).from = {}
         /\ Makes(GetMaybe(x, label)) <=> x # none
         /\ ~Surely(GetMaybe(x, label)) /\ Fails(GetMaybe(x, label))
         /\ Gives(GetMaybe(x, label)) = {}
  <1>1. /\ GetMaybe(x, label).does = "maybe" /\ GetMaybe(x, label).slot = x
        /\ GetMaybe(x, label).from = {} /\ GetMaybe(x, label).label = label
    BY DEF Get, GetMaybe, Step
  <1>2. QED
    BY <1>1 DEF Makes, Surely, Fails, Gives

LEMMA OrSkipFacts ==
  ASSUME NEW x
  PROVE  /\ GetOrSkip(x).slot = x /\ GetOrSkip(x).from = {}
         /\ Makes(GetOrSkip(x)) <=> x # none
         /\ ~Surely(GetOrSkip(x)) /\ ~Fails(GetOrSkip(x)) /\ Gives(GetOrSkip(x)) = {}
  <1>1. GetOrSkip(x).does = "skip" /\ GetOrSkip(x).slot = x /\ GetOrSkip(x).from = {}
    BY DEF GetOrSkip, Step
  <1>2. QED
    BY <1>1 DEF Makes, Surely, Fails, Gives

LEMMA OrCrashFacts ==
  ASSUME NEW x
  PROVE  /\ GetOrCrash(x).slot = x /\ GetOrCrash(x).from = {}
         /\ Makes(GetOrCrash(x)) <=> x # none
         /\ Surely(GetOrCrash(x)) <=> x # none
         /\ ~Fails(GetOrCrash(x)) /\ Writes(GetOrCrash(x)) /\ Gives(GetOrCrash(x)) = {}
  <1>1. GetOrCrash(x).does = "crash" /\ GetOrCrash(x).slot = x /\ GetOrCrash(x).from = {}
    BY DEF GetOrCrash, Step
  <1>2. QED
    BY <1>1 DEF Makes, Surely, Fails, Writes, Gives

LEMMA SetFacts ==
  ASSUME NEW x
  PROVE  /\ Set(x).slot = x /\ Set(x).from = {} /\ Writes(Set(x))
         /\ ~Makes(Set(x)) /\ ~Surely(Set(x)) /\ ~Fails(Set(x)) /\ Gives(Set(x)) = {}
  <1>1. Set(x).does = "set" /\ Set(x).slot = x /\ Set(x).from = {}
    BY DEF Set, Step
  <1>2. QED
    BY <1>1 DEF Makes, Surely, Fails, Writes, Gives

LEMMA FreeFacts ==
  ASSUME NEW x
  PROVE  /\ Free(x).slot = x /\ Free(x).from = {} /\ Free(x).does = "free"
         /\ ~Makes(Free(x)) /\ ~Surely(Free(x)) /\ ~Fails(Free(x)) /\ Gives(Free(x)) = {x}
  <1>1. Free(x).does = "free" /\ Free(x).slot = x /\ Free(x).from = {}
    BY DEF Free, Step
  <1>2. QED
    BY <1>1 DEF Makes, Surely, Fails, Gives

-----------------------------------------------------------------------------
(* Putting sequences of steps together.                                    *)

LEMMA ConcatOrdered ==
  ASSUME NEW undo, NEW left, NEW s, IsSeq(s), Ordered(undo, left, s),
         NEW t, IsSeq(t), Ordered(undo, left, t),
         \A a \in ToSet(s), b \in ToSet(t) : Follows(undo, left, a, b)
  PROVE  Ordered(undo, left, s \o t)
  <1> DEFINE u == s \o t
             m == Len(s)
             n == Len(t)
  <1>1. /\ m \in Nat /\ n \in Nat /\ DOMAIN u = 1 .. m + n
        /\ DOMAIN s = 1..m /\ DOMAIN t = 1..n
    <2>1. IsSeq(u) /\ Len(u) = m + n
      BY Concat
    <2>2. QED
      BY <2>1, SeqFacts
  <1>2. \A k \in 1..m : u[k] = s[k] /\ s[k] \in ToSet(s)
    BY Concat, SeqFacts
  <1>3. \A k \in m + 1 .. m + n : u[k] = t[k - m] /\ k - m \in 1..n /\ t[k - m] \in ToSet(t)
    <2>1. \A k \in m + 1 .. m + n : k - m \in 1..n
      BY <1>1
    <2>2. \A k \in 1..n : t[k] \in ToSet(t)
      BY SeqFacts
    <2>3. QED
      BY <2>1, <2>2, Concat
  <1> HIDE DEF u, m, n
  <1>4. SUFFICES ASSUME NEW q \in 1 .. m + n, NEW p \in 1 .. m + n, q < p
                 PROVE  Follows(undo, left, u[q], u[p])
    BY <1>1 DEF Ordered, u
  <1>5. CASE p \in 1..m
    <2>1. q \in 1..m
      BY <1>1, <1>4, <1>5
    <2>2. QED
      BY <1>1, <1>2, <1>4, <1>5, <2>1 DEF Ordered
  <1>6. CASE q \in m + 1 .. m + n
    <2>1. p \in m + 1 .. m + n
      BY <1>1, <1>4, <1>6
    <2>2. q - m \in 1..n /\ p - m \in 1..n /\ q - m < p - m
      BY <1>1, <1>3, <1>4, <1>6, <2>1
    <2>3. QED
      BY <1>1, <1>3, <1>6, <2>1, <2>2 DEF Ordered
  <1>7. CASE q \in 1..m /\ p \in m + 1 .. m + n
    BY <1>2, <1>3, <1>7
  <1>8. QED
    BY <1>1, <1>4, <1>5, <1>6, <1>7

LEMMA FlattenOrdered ==
  ASSUME NEW undo, NEW left, NEW part, IsSeq(part),
         \A k \in DOMAIN part : IsSeq(part[k]) /\ Ordered(undo, left, part[k]),
         \A j, k \in DOMAIN part : j < k =>
           \A a \in ToSet(part[j]), b \in ToSet(part[k]) : Follows(undo, left, a, b)
  PROVE  Ordered(undo, left, FlattenSeq(part))
  <1>1. CASE Len(part) = 0
    <2>1. FlattenSeq(part) = part /\ DOMAIN part = {}
      BY <1>1, FlattenEmpty
    <2>2. QED
      BY <2>1 DEF Ordered
  <1>2. CASE Len(part) # 0
    <2> DEFINE n == Len(part)
    <2>1. PICK f : Joins(part, n, f) /\ FlattenSeq(part) = f[n]
      BY <1>2, FlattenUnfolds
    <2>2. n \in Nat /\ DOMAIN part = 1..n /\ n > 0
      BY <1>2, SeqFacts
    <2>3. \A k \in 1..n : IsSeq(f[k]) /\ \A e : e \in ToSet(f[k]) <=> \E x \in 1..k : e \in ToSet(part[x])
      BY <2>1, <2>2, JoinsSet
    <2> HIDE DEF n
    <2>4. f[1] = part[1] /\ \A k \in 2..n : k - 1 \in 1..n /\ f[k] = f[k - 1] \o part[k]
      <3>1. Joins(part, Len(part), f) /\ Len(part) # 0
        BY <1>2, <2>1 DEF n
      <3>2. QED
        BY <3>1, JoinsStep DEF n
    <2> DEFINE Bad == {k \in 1..n : ~Ordered(undo, left, f[k])}
    <2>5. 1 \notin Bad
      BY <2>2, <2>4
    <2>6. ASSUME NEW k \in 2..n, Ordered(undo, left, f[k - 1]) PROVE Ordered(undo, left, f[k])
      <3>1. k \in DOMAIN part /\ k - 1 \in 1..n /\ IsSeq(part[k]) /\ Ordered(undo, left, part[k])
        BY <2>2
      <3>2. ASSUME NEW a \in ToSet(f[k - 1]), NEW b \in ToSet(part[k]) PROVE Follows(undo, left, a, b)
        <4>1. PICK x \in 1 .. k - 1 : a \in ToSet(part[x])
          BY <2>3, <3>1
        <4>2. x \in DOMAIN part /\ x < k
          BY <2>2
        <4>3. QED
          BY <3>1, <4>1, <4>2
      <3>3. IsSeq(f[k - 1])
        BY <2>3, <3>1
      <3>4. Ordered(undo, left, f[k - 1] \o part[k])
        BY <2>6, <3>1, <3>2, <3>3, ConcatOrdered
      <3>5. QED
        BY <2>4, <3>4
    <2>7. Bad = {}
      <3>1. SUFFICES ASSUME Bad # {} PROVE FALSE
        OBVIOUS
      <3>2. Bad \subseteq Nat
        BY <2>2
      <3>3. PICK m \in Bad : \A k \in Bad : m <= k
        <4> HIDE DEF Bad
        <4>1. QED
          BY <3>1, <3>2, Smallest
      <3>4. m \in 2..n /\ m - 1 \in 1..n /\ m - 1 \notin Bad
        BY <2>2, <2>5, <3>3
      <3>5. QED
        BY <2>6, <3>4
    <2>8. Ordered(undo, left, f[n])
      BY <2>2, <2>7
    <2>9. QED
      BY <2>1, <2>8
  <1>3. QED
    BY <1>1, <1>2
LEMMA ConcatPasses ==
  ASSUME NEW s, IsSeq(s), Passes(s), NEW t, IsSeq(t), Passes(t)
  PROVE  Passes(s \o t)
  <1> DEFINE u == s \o t
             m == Len(s)
             n == Len(t)
  <1>1. /\ m \in Nat /\ n \in Nat /\ DOMAIN u = 1 .. m + n
        /\ DOMAIN s = 1..m /\ DOMAIN t = 1..n
    <2>1. IsSeq(u) /\ Len(u) = m + n
      BY Concat
    <2>2. QED
      BY <2>1, SeqFacts
  <1>2. /\ \A k \in 1..m : u[k] = s[k]
        /\ \A k \in m + 1 .. m + n : u[k] = t[k - m]
    BY Concat
  <1> HIDE DEF u, m, n
  <1>3. SUFFICES ASSUME NEW q \in 1 .. m + n, Makes(u[q]), u[q].slot \in Passing
                 PROVE  /\ q + 1 \in 1 .. m + n /\ u[q + 1].does = "free"
                        /\ u[q + 1].slot = u[q].slot
    BY <1>1 DEF Passes, u
  <1>4. CASE q \in 1..m
    <2>1. /\ q + 1 \in 1..m /\ s[q + 1].does = "free" /\ s[q + 1].slot = s[q].slot
      BY <1>1, <1>2, <1>3, <1>4 DEF Passes
    <2>2. q + 1 \in 1 .. m + n
      BY <1>1, <2>1
    <2>3. QED
      BY <1>2, <1>4, <2>1, <2>2
  <1>5. CASE q \in m + 1 .. m + n
    <2>1. q - m \in 1..n /\ u[q] = t[q - m]
      BY <1>1, <1>2, <1>5
    <2>2. /\ (q - m) + 1 \in 1..n /\ t[(q - m) + 1].does = "free"
          /\ t[(q - m) + 1].slot = t[q - m].slot
      BY <1>1, <1>3, <2>1 DEF Passes
    <2>3. q + 1 \in m + 1 .. m + n /\ (q + 1) - m = (q - m) + 1
      BY <1>1, <1>5, <2>2
    <2>4. u[q + 1] = t[(q - m) + 1] /\ q + 1 \in 1 .. m + n
      BY <1>1, <1>2, <2>3
    <2>5. QED
      BY <2>1, <2>2, <2>4
  <1>6. QED
    BY <1>1, <1>4, <1>5

LEMMA FlattenPasses ==
  ASSUME NEW part, IsSeq(part), \A k \in DOMAIN part : IsSeq(part[k]) /\ Passes(part[k])
  PROVE  Passes(FlattenSeq(part))
  <1>1. CASE Len(part) = 0
    <2>1. FlattenSeq(part) = part /\ DOMAIN part = {}
      BY <1>1, FlattenEmpty
    <2>2. QED
      BY <2>1 DEF Passes
  <1>2. CASE Len(part) # 0
    <2> DEFINE n == Len(part)
    <2>1. PICK f : Joins(part, n, f) /\ FlattenSeq(part) = f[n]
      BY <1>2, FlattenUnfolds
    <2>2. n \in Nat /\ DOMAIN part = 1..n /\ n > 0
      BY <1>2, SeqFacts
    <2>3. \A k \in 1..n : IsSeq(f[k])
      BY <2>1, <2>2, JoinsSet
    <2> HIDE DEF n
    <2>4. f[1] = part[1] /\ \A k \in 2..n : k - 1 \in 1..n /\ f[k] = f[k - 1] \o part[k]
      <3>1. Joins(part, Len(part), f) /\ Len(part) # 0
        BY <1>2, <2>1 DEF n
      <3>2. QED
        BY <3>1, JoinsStep DEF n
    <2> DEFINE Bad == {k \in 1..n : ~Passes(f[k])}
    <2>5. 1 \notin Bad
      BY <2>2, <2>4
    <2>6. ASSUME NEW k \in 2..n, Passes(f[k - 1]) PROVE Passes(f[k])
      <3>1. IsSeq(part[k]) /\ Passes(part[k]) /\ IsSeq(f[k - 1])
        BY <2>2, <2>3, <2>4
      <3>2. Passes(f[k - 1] \o part[k])
        BY <2>6, <3>1, ConcatPasses
      <3>3. QED
        BY <2>4, <3>2
    <2>7. Bad = {}
      <3>1. SUFFICES ASSUME Bad # {} PROVE FALSE
        OBVIOUS
      <3>2. Bad \subseteq Nat
        BY <2>2
      <3>3. PICK m \in Bad : \A k \in Bad : m <= k
        <4> HIDE DEF Bad
        <4>1. QED
          BY <3>1, <3>2, Smallest
      <3>4. m \in 2..n /\ m - 1 \in 1..n /\ m - 1 \notin Bad
        BY <2>2, <2>5, <3>3
      <3>5. QED
        BY <2>6, <3>4
    <2>8. Passes(f[n])
      BY <2>2, <2>7
    <2>9. QED
      BY <2>1, <2>8
  <1>3. QED
    BY <1>1, <1>2

-----------------------------------------------------------------------------
(* Lists of slots and stretches of steps, and what they hold.              *)

\* s names the slots of S, each once.
Lists(s, S) == IsSeq(s) /\ IsInjective(s) /\ ToSet(s) = S

LEMMA ListsWritten ==
  /\ Lists(<<>>, {})
  /\ \A a : Lists(<<a>>, {a})
  /\ \A a, b : a # b => Lists(<<a, b>>, {a, b})
  <1>1. Lists(<<>>, {}) /\ \A a : Lists(<<a>>, {a})
    BY Written DEF Lists
  <1>2. ASSUME NEW a, NEW b, a # b PROVE Lists(<<a, b>>, {a, b})
    <2>1. /\ IsSeq(<<a, b>>) /\ ToSet(<<a, b>>) = {a, b}
          /\ a # b => IsInjective(<<a, b>>)
      BY Written
    <2>2. QED
      BY <1>2, <2>1 DEF Lists
  <1>3. QED
    BY <1>1, <1>2

LEMMA ListsConcat ==
  ASSUME NEW s, NEW S, Lists(s, S), NEW t, NEW T, Lists(t, T), S \cap T = {}
  PROVE  Lists(s \o t, S \cup T)
  <1>1. IsSeq(s) /\ IsInjective(s) /\ IsSeq(t) /\ IsInjective(t) /\ ToSet(s) \cap ToSet(t) = {}
    BY DEF Lists
  <1>2. IsInjective(s \o t)
    BY <1>1, ConcatInjective
  <1>3. IsSeq(s \o t) /\ ToSet(s \o t) = ToSet(s) \cup ToSet(t)
    BY <1>1, Concat
  <1>4. QED
    BY <1>2, <1>3 DEF Lists

\* The slots of an array.
Slots(name, n) == {<<name, i>> : i \in 1..n}

LEMMA ListsEach ==
  ASSUME NEW name, NEW n \in Nat
  PROVE  Lists(Each(name, n), Slots(name, n))
  <1> DEFINE s == [i \in 1..n |-> <<name, i>>]
  <1>1. s = [i \in 1..n |-> s[i]]
    OBVIOUS
  <1>2. \A i \in 1..n : s[i] = <<name, i>>
    OBVIOUS
  <1>3. Each(name, n) = s
    BY DEF Each
  <1> HIDE DEF s
  <1>4. IsSeq(s) /\ DOMAIN s = 1..n
    BY <1>1, Tabulated
  <1>5. ToSet(s) = Slots(name, n)
    BY <1>2, <1>4 DEF ToSet, Slots
  <1>6. IsInjective(s)
    BY <1>2, <1>4 DEF IsInjective
  <1>7. QED
    BY <1>3, <1>4, <1>5, <1>6 DEF Lists

\* What n sets hold together.
AllOf(S, n) == UNION {S[k] : k \in 1..n}

LEMMA AllOfHolds == \A S, n, x : x \in AllOf(S, n) <=> \E k \in 1..n : x \in S[k]
  BY DEF AllOf

LEMMA ListsLoop ==
  ASSUME NEW n \in Nat, NEW part, part = [k \in 1..n |-> part[k]],
         NEW S, \A k \in 1..n : Lists(part[k], S[k]),
         \A j, k \in 1..n : j # k => S[j] \cap S[k] = {}
  PROVE  Lists(Loop(part), AllOf(S, n))
  <1>1. IsSeq(part) /\ DOMAIN part = 1..n
    BY Tabulated
  <1>2. \A k \in 1..n : IsSeq(part[k]) /\ IsInjective(part[k]) /\ ToSet(part[k]) = S[k]
    BY DEF Lists
  <1>3. IsInjective(FlattenSeq(part))
    BY <1>1, <1>2, FlattenInjective
  <1>4. /\ IsSeq(FlattenSeq(part))
        /\ \A e : e \in ToSet(FlattenSeq(part)) <=> \E k \in DOMAIN part : e \in ToSet(part[k])
    BY <1>1, <1>2, FlattenHolds
  <1>5. ToSet(FlattenSeq(part)) = AllOf(S, n)
    BY <1>1, <1>2, <1>4 DEF AllOf
  <1>6. QED
    BY <1>3, <1>4, <1>5 DEF Lists, Loop

\* What the labels release.
LEMMA UnwindsNone == \A label : Lists(Unwind(<<>>, label), {})
  BY UnwindNone, ListsWritten

LEMMA UnwindsOne ==
  ASSUME NEW l, NEW s, NEW S, Lists(s, S)
  PROVE  LET undo == <<At(l, s)>>
         IN  /\ Lists(Unwind(undo, l), S)
             /\ \A label : label # l => Lists(Unwind(undo, label), {})
  <1>1. At(l, s).label = l /\ At(l, s).slots = s
    BY DEF At
  <1>2. QED
    BY <1>1, UnwindOne, ListsWritten

LEMMA UnwindsTwo ==
  ASSUME NEW l, NEW s, NEW S, Lists(s, S), NEW m, NEW t, NEW T, Lists(t, T),
         l # m, S \cap T = {}
  PROVE  LET undo == <<At(l, s), At(m, t)>>
         IN  /\ Lists(Unwind(undo, l), S \cup T)
             /\ Lists(Unwind(undo, m), T)
             /\ \A label : label \notin {l, m} => Lists(Unwind(undo, label), {})
  <1> DEFINE undo == <<At(l, s), At(m, t)>>
  <1>1. At(l, s).label = l /\ At(l, s).slots = s /\ At(m, t).label = m /\ At(m, t).slots = t
    BY DEF At
  <1>2. \A label : Unwind(undo, label) = 
          (IF l = label THEN s ELSE <<>>) \o (IF label \in {l, m} THEN t ELSE <<>>)
    BY <1>1, UnwindTwo
  <1> HIDE DEF undo
  <1>3. Lists(<<>>, {})
    BY ListsWritten
  <1>4. /\ Lists(s \o t, S \cup T) /\ Lists(<<>> \o t, {} \cup T)
        /\ Lists(<<>> \o <<>>, {} \cup {})
    BY <1>3, ListsConcat
  <1>5. Lists(Unwind(undo, l), S \cup T)
    BY <1>2, <1>4
  <1>6. Lists(Unwind(undo, m), T)
    <2>1. Unwind(undo, m) = <<>> \o t /\ {} \cup T = T
      BY <1>2
    <2>2. QED
      BY <1>4, <2>1
  <1>7. \A label : label \notin {l, m} => Lists(Unwind(undo, label), {})
    <2>1. \A label : label \notin {l, m} => Unwind(undo, label) = <<>> \o <<>>
      BY <1>2
    <2>2. QED
      BY <1>4, <2>1
  <1>8. QED
    BY <1>5, <1>6, <1>7 DEF undo

LEMMA UnwindsThree ==
  ASSUME NEW l, NEW s, NEW S, Lists(s, S), NEW m, NEW t, NEW T, Lists(t, T),
         NEW k, NEW r, NEW R, Lists(r, R), l # m, l # k, m # k,
         S \cap T = {}, S \cap R = {}, T \cap R = {}
  PROVE  LET undo == <<At(l, s), At(m, t), At(k, r)>>
         IN  /\ Lists(Unwind(undo, l), (S \cup T) \cup R)
             /\ Lists(Unwind(undo, m), T \cup R)
             /\ Lists(Unwind(undo, k), R)
             /\ \A label : label \notin {l, m, k} => Lists(Unwind(undo, label), {})
  <1> DEFINE undo == <<At(l, s), At(m, t), At(k, r)>>
  <1>1. /\ At(l, s).label = l /\ At(l, s).slots = s /\ At(m, t).label = m /\ At(m, t).slots = t
        /\ At(k, r).label = k /\ At(k, r).slots = r
    BY DEF At
  <1>2. \A label : Unwind(undo, label) = 
          ((IF l = label THEN s ELSE <<>>) \o (IF label \in {l, m} THEN t ELSE <<>>))
             \o (IF label \in {l, m, k} THEN r ELSE <<>>)
    <2>1. SUFFICES ASSUME NEW label
                   PROVE  Unwind(undo, label) =
                            ((IF l = label THEN s ELSE <<>>)
                               \o (IF label \in {l, m} THEN t ELSE <<>>))
                               \o (IF label \in {l, m, k} THEN r ELSE <<>>)
      OBVIOUS
    <2> DEFINE a == At(l, s)
               b == At(m, t)
               c == At(k, r)
    <2>2. Unwind(<<a, b, c>>, label) = Released(a, b, c, label)
      <3> HIDE DEF a, b, c
      <3>1. QED
        BY UnwindThree
    <2>3. QED
      BY <1>1, <2>2, Zenon DEF Released
  <1> HIDE DEF undo
  <1>3. Lists(<<>>, {})
    BY ListsWritten
  <1>4. /\ Lists(s \o t, S \cup T) /\ Lists(<<>> \o t, {} \cup T)
        /\ Lists(<<>> \o <<>>, {} \cup {})
    BY <1>3, ListsConcat
  <1>5. /\ Lists((s \o t) \o r, (S \cup T) \cup R) /\ Lists((<<>> \o t) \o r, ({} \cup T) \cup R)
        /\ Lists((<<>> \o <<>>) \o r, ({} \cup {}) \cup R)
        /\ Lists((<<>> \o <<>>) \o <<>>, ({} \cup {}) \cup {})
    BY <1>3, <1>4, ListsConcat
  <1>6. Lists(Unwind(undo, l), (S \cup T) \cup R)
    BY <1>2, <1>5
  <1>7. Lists(Unwind(undo, m), T \cup R)
    <2>1. Unwind(undo, m) = (<<>> \o t) \o r /\ ({} \cup T) \cup R = T \cup R
      BY <1>2
    <2>2. QED
      BY <1>5, <2>1
  <1>8. Lists(Unwind(undo, k), R)
    <2>1. Unwind(undo, k) = (<<>> \o <<>>) \o r /\ ({} \cup {}) \cup R = R
      BY <1>2
    <2>2. QED
      BY <1>5, <2>1
  <1>9. \A label : label \notin {l, m, k} => Lists(Unwind(undo, label), {})
    <2>1. \A label : label \notin {l, m, k} => Unwind(undo, label) = (<<>> \o <<>>) \o <<>>
      BY <1>2
    <2>2. QED
      BY <1>5, <2>1
  <1>10. QED
    BY <1>6, <1>7, <1>8, <1>9 DEF undo

-----------------------------------------------------------------------------
(* Stretches of steps.                                                     *)

\* s is a stretch of steps, those of S, that may stand in a tidy function.
Stage(undo, left, s, S) == IsSeq(s) /\ ToSet(s) = S /\ Ordered(undo, left, s)

LEMMA StageConcat ==
  ASSUME NEW undo, NEW left, NEW s, NEW S, Stage(undo, left, s, S),
         NEW t, NEW T, Stage(undo, left, t, T),
         \A a \in S, b \in T : Follows(undo, left, a, b)
  PROVE  Stage(undo, left, s \o t, S \cup T)
  <1>1. /\ IsSeq(s) /\ IsSeq(t) /\ Ordered(undo, left, s) /\ Ordered(undo, left, t)
        /\ ToSet(s) = S /\ ToSet(t) = T
    BY DEF Stage
  <1>2. Ordered(undo, left, s \o t)
    BY <1>1, ConcatOrdered
  <1>3. IsSeq(s \o t) /\ ToSet(s \o t) = S \cup T
    BY <1>1, Concat
  <1>4. QED
    BY <1>2, <1>3 DEF Stage

\* Steps written out: each follows those before it.
LEMMA StageOne ==
  ASSUME NEW undo, NEW left, NEW a
  PROVE  Stage(undo, left, <<a>>, {a})
  <1>1. IsSeq(<<a>>) /\ ToSet(<<a>>) = {a} /\ Len(<<a>>) = 1
    BY Written
  <1>2. DOMAIN <<a>> = {1}
    OBVIOUS
  <1>3. Ordered(undo, left, <<a>>)
    BY <1>2 DEF Ordered
  <1>4. QED
    BY <1>1, <1>3 DEF Stage

LEMMA StageTwo ==
  ASSUME NEW undo, NEW left, NEW a, NEW b,
         Follows(undo, left, a, b)
  PROVE  Stage(undo, left, <<a, b>>, {a, b})
  <1> DEFINE s == <<a, b>>
  <1>1. DOMAIN s = 1..2 /\ s[1] = a /\ s[2] = b
    OBVIOUS
  <1>2. s \in Seq({a, b})
    OBVIOUS
  <1> HIDE DEF s
  <1>3. ToSet(s) = {a, b}
    <2>1. DOMAIN s = {1, 2}
      BY <1>1
    <2>2. QED
      BY <1>1, <2>1 DEF ToSet
  <1>4. Ordered(undo, left, s)
    BY <1>1 DEF Ordered
  <1>5. QED
    BY <1>2, <1>3, <1>4 DEF Stage, IsSeq, s

LEMMA StageThree ==
  ASSUME NEW undo, NEW left, NEW a, NEW b, NEW c,
         Follows(undo, left, a, b),
         \A x \in {a, b} : Follows(undo, left, x, c)
  PROVE  Stage(undo, left, <<a, b, c>>, {a, b, c})
  <1> DEFINE s == <<a, b, c>>
  <1>1. DOMAIN s = 1..3 /\ s[1] = a /\ s[2] = b /\ s[3] = c
    OBVIOUS
  <1>2. s \in Seq({a, b, c})
    OBVIOUS
  <1> HIDE DEF s
  <1>3. ToSet(s) = {a, b, c}
    <2>1. DOMAIN s = {1, 2, 3}
      BY <1>1
    <2>2. QED
      BY <1>1, <2>1 DEF ToSet
  <1>4. Ordered(undo, left, s)
    BY <1>1 DEF Ordered
  <1>5. QED
    BY <1>2, <1>3, <1>4 DEF Stage, IsSeq, s

LEMMA StageFour ==
  ASSUME NEW undo, NEW left, NEW a, NEW b, NEW c, NEW d,
         Follows(undo, left, a, b),
         \A x \in {a, b} : Follows(undo, left, x, c),
         \A x \in {a, b, c} : Follows(undo, left, x, d)
  PROVE  Stage(undo, left, <<a, b, c, d>>, {a, b, c, d})
  <1> DEFINE s == <<a, b, c, d>>
  <1>1. DOMAIN s = 1..4 /\ s[1] = a /\ s[2] = b /\ s[3] = c /\ s[4] = d
    OBVIOUS
  <1>2. s \in Seq({a, b, c, d})
    OBVIOUS
  <1> HIDE DEF s
  <1>3. ToSet(s) = {a, b, c, d}
    <2>1. DOMAIN s = {1, 2, 3, 4}
      BY <1>1
    <2>2. QED
      BY <1>1, <2>1 DEF ToSet
  <1>4. Ordered(undo, left, s)
    BY <1>1 DEF Ordered
  <1>5. QED
    BY <1>2, <1>3, <1>4 DEF Stage, IsSeq, s

LEMMA StageFive ==
  ASSUME NEW undo, NEW left, NEW a, NEW b, NEW c, NEW d, NEW e,
         Follows(undo, left, a, b),
         \A x \in {a, b} : Follows(undo, left, x, c),
         \A x \in {a, b, c} : Follows(undo, left, x, d),
         \A x \in {a, b, c, d} : Follows(undo, left, x, e)
  PROVE  Stage(undo, left, <<a, b, c, d, e>>, {a, b, c, d, e})
  <1> DEFINE s == <<a, b, c, d, e>>
  <1>1. DOMAIN s = 1..5 /\ s[1] = a /\ s[2] = b /\ s[3] = c /\ s[4] = d /\ s[5] = e
    OBVIOUS
  <1>2. s \in Seq({a, b, c, d, e})
    OBVIOUS
  <1> HIDE DEF s
  <1>3. ToSet(s) = {a, b, c, d, e}
    <2>1. DOMAIN s = {1, 2, 3, 4, 5}
      BY <1>1
    <2>2. QED
      BY <1>1, <2>1 DEF ToSet
  <1>4. Ordered(undo, left, s)
    BY <1>1 DEF Ordered
  <1>5. QED
    BY <1>2, <1>3, <1>4 DEF Stage, IsSeq, s

LEMMA StageSix ==
  ASSUME NEW undo, NEW left, NEW a, NEW b, NEW c, NEW d, NEW e, NEW f,
         Follows(undo, left, a, b),
         \A x \in {a, b} : Follows(undo, left, x, c),
         \A x \in {a, b, c} : Follows(undo, left, x, d),
         \A x \in {a, b, c, d} : Follows(undo, left, x, e),
         \A x \in {a, b, c, d, e} : Follows(undo, left, x, f)
  PROVE  Stage(undo, left, <<a, b, c, d, e, f>>, {a, b, c, d, e, f})
  <1> DEFINE s == <<a, b, c, d, e, f>>
  <1>1. DOMAIN s = 1..6 /\ s[1] = a /\ s[2] = b /\ s[3] = c /\ s[4] = d /\ s[5] = e /\ s[6] = f
    OBVIOUS
  <1>2. s \in Seq({a, b, c, d, e, f})
    OBVIOUS
  <1> HIDE DEF s
  <1>3. ToSet(s) = {a, b, c, d, e, f}
    <2>1. DOMAIN s = {1, 2, 3, 4, 5, 6}
      BY <1>1
    <2>2. QED
      BY <1>1, <2>1 DEF ToSet
  <1>4. Ordered(undo, left, s)
    BY <1>1 DEF Ordered
  <1>5. QED
    BY <1>2, <1>3, <1>4 DEF Stage, IsSeq, s

LEMMA StageSeven ==
  ASSUME NEW undo, NEW left, NEW a, NEW b, NEW c, NEW d, NEW e, NEW f, NEW g,
         Follows(undo, left, a, b),
         \A x \in {a, b} : Follows(undo, left, x, c),
         \A x \in {a, b, c} : Follows(undo, left, x, d),
         \A x \in {a, b, c, d} : Follows(undo, left, x, e),
         \A x \in {a, b, c, d, e} : Follows(undo, left, x, f),
         \A x \in {a, b, c, d, e, f} : Follows(undo, left, x, g)
  PROVE  Stage(undo, left, <<a, b, c, d, e, f, g>>, {a, b, c, d, e, f, g})
  <1> DEFINE s == <<a, b, c, d, e, f, g>>
  <1>1. DOMAIN s = 1..7 /\ s[1] = a /\ s[2] = b /\ s[3] = c /\ s[4] = d /\ s[5] = e /\ s[6] = f /\ s[7] = g
    OBVIOUS
  <1>2. s \in Seq({a, b, c, d, e, f, g})
    OBVIOUS
  <1> HIDE DEF s
  <1>3. ToSet(s) = {a, b, c, d, e, f, g}
    <2>1. DOMAIN s = {1, 2, 3, 4, 5, 6, 7}
      BY <1>1
    <2>2. QED
      BY <1>1, <2>1 DEF ToSet
  <1>4. Ordered(undo, left, s)
    BY <1>1 DEF Ordered
  <1>5. QED
    BY <1>2, <1>3, <1>4 DEF Stage, IsSeq, s

\* Steps that cannot fail and make nothing may stand anywhere, as may those that make
\* nothing after steps that give nothing away.
LEMMA FollowsAny ==
  ASSUME NEW undo, NEW left, NEW a, NEW b, ~Fails(b), ~Makes(b)
  PROVE  Follows(undo, left, a, b)
  BY DEF Follows

\* A step may stand after one that gave nothing away when its label releases what that
\* one made.
LEMMA FollowsCovered ==
  ASSUME NEW undo, NEW left, NEW a, NEW b, Gives(a) = {},
         Makes(a) => a.slot \in Undone(undo, b) \cup left \cup Passing \/ ~Fails(b)
  PROVE  Follows(undo, left, a, b)
  BY DEF Follows

\* The steps that make the slots of an array, and those that make nothing.
Gets(name, n, label) == {Get(<<name, i>>, label) : i \in 1..n}
Tries(n, label) == {Try(label) : i \in 1..n}

LEMMA GetsFacts ==
  ASSUME NEW name, NEW n, NEW label
  PROVE  /\ \A s \in Gets(name, n, label) :
              /\ s.slot \in Slots(name, n) /\ s.from = {} /\ s.label = label
              /\ Makes(s) /\ Surely(s) /\ Fails(s) /\ Writes(s) /\ Gives(s) = {}
         /\ \A x \in Slots(name, n) : \E s \in Gets(name, n, label) : s.slot = x
  <1>1. \A i : <<name, i>> # none
    BY DEF none
  <1>2. \A i : LET s == Get(<<name, i>>, label)
               IN  /\ s.slot = <<name, i>> /\ s.from = {} /\ s.label = label
                   /\ Makes(s) /\ Surely(s) /\ Fails(s) /\ Writes(s) /\ Gives(s) = {}
    BY <1>1, GetFacts
  <1>3. QED
    BY <1>2 DEF Gets, Slots

LEMMA TriesFacts ==
  ASSUME NEW n, NEW label, NEW s \in Tries(n, label)
  PROVE  /\ s.from = {} /\ s.label = label
         /\ ~Makes(s) /\ ~Surely(s) /\ Fails(s) /\ Gives(s) = {}
  BY TryFacts DEF Tries

LEMMA StageGetEach ==
  ASSUME NEW undo, NEW left, NEW name, NEW n \in Nat, NEW label,
         Slots(name, n) \subseteq ToSet(Unwind(undo, label)) \cup left
  PROVE  Stage(undo, left, GetEach(name, n, label), Gets(name, n, label))
  <1> DEFINE s == [i \in 1..n |-> Get(<<name, i>>, label)]
  <1>1. s = [i \in 1..n |-> s[i]]
    OBVIOUS
  <1>2. \A i \in 1..n : s[i] = Get(<<name, i>>, label)
    OBVIOUS
  <1>3. GetEach(name, n, label) = s
    BY DEF GetEach
  <1> HIDE DEF s
  <1>4. IsSeq(s) /\ DOMAIN s = 1..n
    BY <1>1, Tabulated
  <1>5. ToSet(s) = Gets(name, n, label)
    BY <1>2, <1>4 DEF ToSet, Gets
  <1>6. ASSUME NEW q \in 1..n, NEW p \in 1..n PROVE Follows(undo, left, s[q], s[p])
    <2>1. s[q] \in Gets(name, n, label) /\ s[p] \in Gets(name, n, label)
      BY <1>2 DEF Gets
    <2>2. /\ s[q].slot \in Undone(undo, s[p]) \cup left
          /\ Gives(s[q]) = {} /\ s[p].label = label
      BY <2>1, GetsFacts DEF Undone
    <2>3. QED
      BY <2>2, FollowsCovered
  <1>7. Ordered(undo, left, s)
    BY <1>4, <1>6 DEF Ordered
  <1>8. QED
    BY <1>3, <1>4, <1>5, <1>7 DEF Stage

LEMMA StageTryEach ==
  ASSUME NEW undo, NEW left, NEW n \in Nat, NEW label
  PROVE  Stage(undo, left, TryEach(n, label), Tries(n, label))
  <1> DEFINE s == [i \in 1..n |-> Try(label)]
  <1>1. s = [i \in 1..n |-> s[i]]
    OBVIOUS
  <1>2. \A i \in 1..n : s[i] = Try(label)
    OBVIOUS
  <1>3. TryEach(n, label) = s
    BY DEF TryEach
  <1> HIDE DEF s
  <1>4. IsSeq(s) /\ DOMAIN s = 1..n
    BY <1>1, Tabulated
  <1>5. ToSet(s) = Tries(n, label)
    BY <1>2, <1>4 DEF ToSet, Tries
  <1>6. ASSUME NEW q \in 1..n, NEW p \in 1..n PROVE Follows(undo, left, s[q], s[p])
    BY <1>2, TryFacts DEF Follows
  <1>7. Ordered(undo, left, s)
    BY <1>4, <1>6 DEF Ordered
  <1>8. QED
    BY <1>3, <1>4, <1>5, <1>7 DEF Stage

\* The n parts of a loop, and the steps or slots of them all.
Parts(undo, left, n, part, S) ==
  /\ part = [k \in 1..n |-> part[k]]
  /\ \A k \in 1..n : Stage(undo, left, part[k], S[k])
  /\ \A j, k \in 1..n : j < k => \A a \in S[j], b \in S[k] : Follows(undo, left, a, b)

LEMMA StageLoop ==
  ASSUME NEW undo, NEW left, NEW n \in Nat, NEW part, NEW S, Parts(undo, left, n, part, S)
  PROVE  Stage(undo, left, Loop(part), AllOf(S, n))
  <1>1. IsSeq(part) /\ DOMAIN part = 1..n
    BY Tabulated DEF Parts
  <1>2. \A k \in 1..n : IsSeq(part[k]) /\ Ordered(undo, left, part[k]) /\ ToSet(part[k]) = S[k]
    BY DEF Stage, Parts
  <1>3. Ordered(undo, left, FlattenSeq(part))
    BY <1>1, <1>2, FlattenOrdered DEF Parts
  <1>4. /\ IsSeq(FlattenSeq(part))
        /\ \A e : e \in ToSet(FlattenSeq(part)) <=> \E k \in DOMAIN part : e \in ToSet(part[k])
    BY <1>1, <1>2, FlattenHolds
  <1>5. ToSet(FlattenSeq(part)) = AllOf(S, n)
    BY <1>1, <1>2, <1>4 DEF AllOf
  <1>6. QED
    BY <1>3, <1>4, <1>5 DEF Stage, Loop

-----------------------------------------------------------------------------
(* When a function is tidy.                                                *)

LEMMA NonePass ==
  ASSUME NEW steps, IsSeq(steps), \A s \in ToSet(steps) : Makes(s) => s.slot \notin Passing
  PROVE  Passes(steps)
  BY DEF Passes, ToSet

\* The steps S of a function that nothing is handed over to, and whose destroy function
\* releases D.
Plain(undo, S, D, optional) ==
  /\ \A s \in S :
       /\ s.from = {} \/ (s.does = "get" /\ s.slot \notin s.from)
       /\ Makes(s) => s.slot \in D \/ \E t \in S : s.slot \in Gives(t)
       /\ Fails(s) => \E U : Lists(Unwind(undo, s.label), U)
       /\ Gives(s) \cap D = {}
  /\ \A x \in D : x \in optional \/ \E s \in S : Surely(s) /\ s.slot = x

LEMMA TidyWhen ==
  ASSUME NEW c, c.given = {}, NEW left, NEW optional, NEW exempt,
         NEW S, Stage(c.undo, left, c.steps, S), Passes(c.steps),
         NEW D, Lists(c.destroy, D), Plain(c.undo, S, D, optional),
         c.junk = {} \/ exempt,
         \A x \in c.junk : \E s \in S : Writes(s) /\ s.slot = x
  PROVE  Tidy(c, left, optional, exempt)
  <1>1. IsSeq(c.steps) /\ ToSet(c.steps) = S /\ Ordered(c.undo, left, c.steps)
    BY DEF Stage
  <1>2. \A s \in S : Sound(c.undo, {}, left, s)
    BY DEF Plain, Sound, Lists
  <1>3. Ending(c.steps, c.destroy, {}, c.junk, optional)
    BY <1>1 DEF Ending, Lists, Plain
  <1>4. QED
    BY <1>1, <1>2, <1>3 DEF Tidy

\* One whose variables are NULL to begin with.
LEMMA TidyPlain ==
  ASSUME NEW undo, NEW left, NEW optional, NEW exempt,
         NEW steps, NEW S, Stage(undo, left, steps, S),
         \A s \in S : Makes(s) => s.slot \notin Passing,
         NEW destroy, NEW D, Lists(destroy, D), Plain(undo, S, D, optional)
  PROVE  Tidy(Function(steps, undo, destroy), left, optional, exempt)
  <1> DEFINE c == Function(steps, undo, destroy)
  <1>1. /\ c.steps = steps /\ c.undo = undo /\ c.destroy = destroy
        /\ c.given = {} /\ c.junk = {}
    BY DEF Function
  <1> HIDE DEF c
  <1>2. Passes(steps)
    BY NonePass DEF Stage
  <1>3. Tidy(c, left, optional, exempt)
    BY <1>1, <1>2, TidyWhen
  <1>4. QED
    BY <1>3 DEF c

\* Slots are told apart by their names and how many numbers they have.
LEMMA SlotsApart ==
  /\ \A x : <<x>> \notin Passing
  /\ \A x, i, p : <<x, i, p>> \notin Passing
  /\ \A x, n : x # "device" => Slots(x, n) \cap Passing = {}
  /\ \A x, y, n : x # y => Slots(x, n) \cap Slots(y, n) = {}
  /\ \A x, y, n : <<x>> \notin Slots(y, n)
  /\ \A x, i, p, y, n : <<x, i, p>> \notin Slots(y, n)
  /\ \A x : x # "none" => <<x>> # none
  /\ \A x, i : <<x, i>> # none
  /\ \A x, i, p : <<x, i, p>> # none
  BY DEF Passing, Slots, none
=============================================================================
