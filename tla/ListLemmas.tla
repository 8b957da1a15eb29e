----------------------------- MODULE ListLemmas -----------------------------
(***************************************************************************)
(* Lemmas that the proofs of several components need: least elements and   *)
(* induction; what FlattenSeq makes of a list of pieces, and where each    *)
(* element comes to stand; and ranks, by which the models sort.            *)
(* FlattenSeq is a recursive function, so that its facts are inductions    *)
(* over the length.                                                        *)
(***************************************************************************)
EXTENDS Integers, FiniteSets, Sequences, SequencesExt, TLAPS, FiniteSetTheorems,
        SequenceTheorems, WellFoundedInduction

-----------------------------------------------------------------------------
(* Least and largest elements, and induction *)

LEMMA Least ==
    ASSUME NEW S \in SUBSET Nat, S # {}
    PROVE  \E x \in S : \A y \in S : x <= y
<1>. DEFINE R == OpToRel(<, Nat)
<1>1. S \subseteq Nat /\ IsWellFoundedOn(R, Nat)
  BY NatLessThanWellFounded
<1>2. PICK x \in S : \A y \in S : ~(<<y, x>> \in R)
  <2>. HIDE DEF R
  <2>. QED BY <1>1, WFMin
<1>3. ASSUME NEW y \in S PROVE x <= y
  <2>1. x \in Nat /\ y \in Nat /\ ~(<<y, x>> \in R)
    BY <1>2
  <2>2. y < x => <<y, x>> \in R
    BY <2>1 DEF OpToRel
  <2>. HIDE DEF R
  <2>. QED BY <2>1, <2>2
<1>. QED BY <1>3

\* A set of naturals that has a member and a bound has a largest member.
LEMMA Largest ==
    ASSUME NEW n \in Nat, NEW S \in SUBSET (0 .. n), S # {}
    PROVE  \E x \in S : \A y \in S : x >= y
<1>. DEFINE T == {i \in Nat : n - i \in S}
<1>1. T # {}
  <2>1. PICK x \in S : x \in 0 .. n
    OBVIOUS
  <2>2. n - x \in Nat /\ n - (n - x) = x
    BY <2>1
  <2>. QED BY <2>1, <2>2
<1>2. PICK i \in T : \A j \in T : i <= j
  <2>1. T \in SUBSET Nat
    OBVIOUS
  <2>. HIDE DEF T
  <2>. QED BY <1>1, <2>1, Least
<1>3. n - i \in S /\ i \in Nat
  BY <1>2
<1>4. ASSUME NEW y \in S PROVE n - i >= y
  <2>1. y \in 0 .. n
    OBVIOUS
  <2>2. n - y \in Nat /\ n - (n - y) = y
    BY <2>1
  <2>3. n - y \in T
    BY <2>2
  <2>4. i <= n - y
    BY <1>2, <2>3
  <2>. QED BY <1>3, <2>1, <2>4
<1>. QED BY <1>3, <1>4

\* Induction over the naturals, in a form without an operator for a parameter: a
\* set that starts at 0 and is closed under the successor has them all.
LEMMA SetInduction ==
    ASSUME NEW S, 0 \in S, \A n \in Nat : n \in S => n + 1 \in S
    PROVE  Nat \subseteq S
<1>. DEFINE T == Nat \ S
<1>1. SUFFICES ASSUME T # {} PROVE FALSE
  OBVIOUS
<1>2. PICK x \in T : \A y \in T : x <= y
  <2>1. T \in SUBSET Nat
    OBVIOUS
  <2>. HIDE DEF T
  <2>. QED BY <1>1, <2>1, Least
<1>3. x \in Nat /\ x \notin S /\ x # 0
  BY <1>2
<1>4. x - 1 \in Nat /\ ~(x <= x - 1) /\ (x - 1) + 1 = x
  BY <1>3
<1>5. x - 1 \in S
  BY <1>2, <1>4
<1>. QED BY <1>3, <1>4, <1>5

-----------------------------------------------------------------------------
(* Flattening *)

\* The recursion of FlattenSeq, on the first n elements.
Flattening(s, n, f) ==
    f = [i \in 1 .. n |-> IF i = 1 THEN s[i] ELSE f[i - 1] \o s[i]]

LEMMA FlatteningExists ==
    ASSUME NEW s
    PROVE  \A n \in Nat : \E f : Flattening(s, n, f)
<1>. DEFINE S == {n \in Nat : \E f : Flattening(s, n, f)}
<1>1. 0 \in S
  <2>. DEFINE f == [i \in 1 .. 0 |-> s[i]]
  <2>1. f = [i \in 1 .. 0 |-> IF i = 1 THEN s[i] ELSE f[i - 1] \o s[i]]
    OBVIOUS
  <2>. QED BY <2>1 DEF Flattening
<1>2. ASSUME NEW n \in Nat, n \in S PROVE n + 1 \in S
  <2>. PICK f : Flattening(s, n, f)
    BY <1>2
  <2>. DEFINE g == [i \in 1 .. n + 1 |->
                       IF i <= n THEN f[i]
                       ELSE IF i = 1 THEN s[i] ELSE f[i - 1] \o s[i]]
              h == [i \in 1 .. n + 1 |-> IF i = 1 THEN s[i] ELSE g[i - 1] \o s[i]]
  <2>1. ASSUME NEW i \in 1 .. n + 1 PROVE g[i] = h[i]
    <3>1. f = [k \in 1 .. n |-> IF k = 1 THEN s[k] ELSE f[k - 1] \o s[k]]
      BY DEF Flattening
    <3>2. i # 1 => i - 1 \in 1 .. n /\ g[i - 1] = f[i - 1]
      OBVIOUS
    <3>3. ASSUME i <= n PROVE f[i] = IF i = 1 THEN s[i] ELSE f[i - 1] \o s[i]
      <4>1. i \in 1 .. n
        BY <3>3
      <4>. QED BY <3>1, <4>1, Zenon
    <3>. QED BY <3>2, <3>3
  <2>2. g = h
    BY <2>1
  <2>3. Flattening(s, n + 1, g)
    <3>. HIDE DEF g
    <3>. QED BY <2>2 DEF Flattening
  <2>. QED BY <2>3
<1>. HIDE DEF S
<1>3. Nat \subseteq S
  BY <1>1, <1>2, SetInduction
<1>. QED BY <1>3 DEF S

\* It has one solution, and what comes after the first n elements is no matter.
Agree(s, u, m) == \A i \in 1 .. m : s[i] = u[i]

LEMMA FlatteningAgree ==
    ASSUME NEW s, NEW u, NEW m \in Nat, NEW n \in Nat, m <= n,
           NEW f, NEW g, Flattening(s, m, f), Flattening(u, n, g),
           Agree(s, u, m)
    PROVE  Agree(f, g, m)
<1>. DEFINE S == {k \in Nat : k \in 1 .. m => f[k] = g[k]}
<1>1. 0 \in S
  OBVIOUS
<1>2. ASSUME NEW k \in Nat, k \in S PROVE k + 1 \in S
  <2>. SUFFICES ASSUME k + 1 \in 1 .. m PROVE f[k + 1] = g[k + 1]
    OBVIOUS
  <2>1. f[k + 1] = IF k + 1 = 1 THEN s[k + 1] ELSE f[(k + 1) - 1] \o s[k + 1]
    BY Zenon DEF Flattening
  <2>2. g[k + 1] = IF k + 1 = 1 THEN u[k + 1] ELSE g[(k + 1) - 1] \o u[k + 1]
    <3>1. k + 1 \in 1 .. n
      OBVIOUS
    <3>. QED BY <3>1, Zenon DEF Flattening
  <2>3. (k + 1) - 1 = k /\ (k + 1 = 1 \/ k \in 1 .. m)
    OBVIOUS
  <2>. QED BY <1>2, <2>1, <2>2, <2>3 DEF Agree
<1>. HIDE DEF S
<1>3. Nat \subseteq S
  BY <1>1, <1>2, SetInduction
<1>. QED BY <1>3 DEF S, Agree

LEMMA FlattenIs ==
    ASSUME NEW s, NEW n \in Nat, Len(s) = n, n # 0, NEW f, Flattening(s, n, f)
    PROVE  FlattenSeq(s) = f[n]
<1>. DEFINE c == CHOOSE g : g = [i \in 1 .. Len(s) |->
                                   IF i = 1 THEN s[i] ELSE g[i - 1] \o s[i]]
<1>1. FlattenSeq(s) = c[Len(s)]
  BY DEF FlattenSeq
<1>2. \E g : g = [i \in 1 .. Len(s) |-> IF i = 1 THEN s[i] ELSE g[i - 1] \o s[i]]
  BY Zenon DEF Flattening
<1>3. c = [i \in 1 .. Len(s) |-> IF i = 1 THEN s[i] ELSE c[i - 1] \o s[i]]
  BY <1>2, Zenon
<1>. HIDE DEF c
<1>4. Flattening(s, n, c)
  BY <1>3 DEF Flattening
<1>5. n \in 1 .. n
  OBVIOUS
<1>6. f[n] = c[n]
  <2>1. Agree(s, s, n)
    BY DEF Agree
  <2>2. Agree(f, c, n)
    BY <1>4, <2>1, FlatteningAgree
  <2>. QED BY <1>5, <2>2 DEF Agree
<1>. QED BY <1>1, <1>6

LEMMA FlattenOne ==
    ASSUME NEW S, NEW d \in Seq(S)
    PROVE  FlattenSeq(<<d>>) = d
<1>1. PICK f : Flattening(<<d>>, 1, f)
  BY FlatteningExists
<1>2. f[1] = d
  <2>1. 1 \in 1 .. 1 /\ <<d>>[1] = d
    OBVIOUS
  <2>2. f[1] = IF 1 = 1 THEN <<d>>[1] ELSE f[1 - 1] \o <<d>>[1]
    BY <1>1, <2>1, Zenon DEF Flattening
  <2>. QED BY <2>1, <2>2
<1>3. Len(<<d>>) = 1 /\ 1 \in Nat /\ 1 # 0
  OBVIOUS
<1>. QED BY <1>1, <1>2, <1>3, FlattenIs

\* A group more is appended to what the groups before it flatten to.
LEMMA FlattenAppend ==
    ASSUME NEW S, NEW p \in Seq(Seq(S)), p # <<>>, NEW d \in Seq(S)
    PROVE  FlattenSeq(Append(p, d)) = FlattenSeq(p) \o d
<1>. DEFINE n == Len(p)
            q == Append(p, d)
<1>1. n \in Nat \ {0} /\ q \in Seq(Seq(S)) /\ Len(q) = n + 1 /\ q[n + 1] = d
      /\ \A i \in 1 .. n : q[i] = p[i]
  BY AppendProperties
<1>2. PICK f : Flattening(p, n, f)
  BY <1>1, FlatteningExists
<1>. HIDE DEF n, q
<1>a. n \in Nat /\ n + 1 \in Nat /\ n <= n + 1 /\ n + 1 # 0 /\ n # 0
  BY <1>1
<1>3. PICK g : Flattening(q, n + 1, g)
  BY <1>a, FlatteningExists
<1>4. FlattenSeq(p) = f[n] /\ FlattenSeq(q) = g[n + 1]
  BY <1>1, <1>2, <1>3, <1>a, FlattenIs DEF n
<1>5. f[n] = g[n]
  <2>1. Agree(p, q, n)
    BY <1>1 DEF Agree
  <2>2. Agree(f, g, n)
    BY <1>2, <1>3, <1>a, <2>1, FlatteningAgree
  <2>3. n \in 1 .. n
    BY <1>a
  <2>. QED BY <2>2, <2>3, Zenon DEF Agree
<1>6. g[n + 1] = g[n] \o d
  <2>1. n + 1 \in 1 .. n + 1 /\ n + 1 # 1 /\ (n + 1) - 1 = n
    BY <1>1
  <2>2. g[n + 1] = IF n + 1 = 1 THEN q[n + 1] ELSE g[(n + 1) - 1] \o q[n + 1]
    BY <1>3, <2>1, Zenon DEF Flattening
  <2>. QED BY <1>1, <2>1, <2>2
<1>. QED BY <1>4, <1>5, <1>6 DEF q

LEMMA FlattenType ==
    ASSUME NEW S
    PROVE  \A p \in Seq(Seq(S)) : FlattenSeq(p) \in Seq(S)
<1>. DEFINE T == {n \in Nat : \A p \in Seq(Seq(S)) : Len(p) = n => FlattenSeq(p) \in Seq(S)}
<1>1. 0 \in T
  <2>. SUFFICES ASSUME NEW p \in Seq(Seq(S)), Len(p) = 0 PROVE FlattenSeq(p) \in Seq(S)
    OBVIOUS
  <2>1. p = <<>>
    OBVIOUS
  <2>2. FlattenSeq(p) = p
    BY DEF FlattenSeq
  <2>. QED BY <2>1, <2>2, EmptySeq
<1>2. ASSUME NEW n \in Nat, n \in T PROVE n + 1 \in T
  <2>. SUFFICES ASSUME NEW p \in Seq(Seq(S)), Len(p) = n + 1 PROVE FlattenSeq(p) \in Seq(S)
    OBVIOUS
  <2>1. PICK q \in Seq(Seq(S)), d \in Seq(S) : p = Append(q, d)
    <3>1. p # <<>>
      OBVIOUS
    <3>. QED BY <3>1, SequenceEmptyOrAppend
  <2>2. Len(q) = n
    BY <2>1, AppendProperties
  <2>3. CASE q = <<>>
    <3>1. p = <<d>>
      BY <2>1, <2>3
    <3>. QED BY <3>1, FlattenOne
  <2>4. CASE q # <<>>
    <3>1. FlattenSeq(q) \in Seq(S)
      BY <1>2, <2>2
    <3>. QED BY <2>1, <2>4, <3>1, FlattenAppend, ConcatProperties
  <2>. QED BY <2>3, <2>4
<1>. HIDE DEF T
<1>3. Nat \subseteq T
  BY <1>1, <1>2, SetInduction
<1>4. ASSUME NEW p \in Seq(Seq(S)) PROVE FlattenSeq(p) \in Seq(S)
  <2>1. Len(p) \in T
    BY <1>3
  <2>. QED BY <2>1 DEF T
<1>. QED BY <1>4

LEMMA FlattenLength ==
    ASSUME NEW S, NEW p \in Seq(Seq(S)), NEW d \in Seq(S)
    PROVE  Len(FlattenSeq(Append(p, d))) = Len(FlattenSeq(p)) + Len(d)
<1>1. CASE p = <<>>
  <2>1. Append(p, d) = <<d>>
    BY <1>1
  <2>2. FlattenSeq(p) = <<>>
    BY <1>1 DEF FlattenSeq
  <2>3. Len(d) \in Nat
    BY LenProperties
  <2>. QED BY <2>1, <2>2, <2>3, FlattenOne, EmptySeq
<1>2. CASE p # <<>>
  BY <1>2, FlattenAppend, FlattenType, ConcatProperties
<1>. QED BY <1>1, <1>2

-----------------------------------------------------------------------------
(* Where the pieces begin *)

Begins(p, i) == Len(FlattenSeq(SubSeq(p, 1, i - 1)))

LEMMA BeginsProperties ==
    ASSUME NEW S, NEW p \in Seq(Seq(S))
    PROVE  /\ Begins(p, 1) = 0
           /\ Begins(p, Len(p) + 1) = Len(FlattenSeq(p))
           /\ \A i \in 1 .. Len(p) : Begins(p, i + 1) = Begins(p, i) + Len(p[i])
           /\ \A i \in 1 .. Len(p) + 1 : Begins(p, i) \in Nat
<1>0. Len(p) \in Nat
  BY LenProperties
<1>1. Begins(p, 1) = 0
  <2>1. SubSeq(p, 1, 0) = <<>>
    BY SubSeqEmpty
  <2>2. FlattenSeq(<<>>) = <<>>
    BY EmptySeq DEF FlattenSeq
  <2>3. 1 - 1 = 0
    OBVIOUS
  <2>. QED BY <2>1, <2>2, <2>3, EmptySeq DEF Begins
<1>2. Begins(p, Len(p) + 1) = Len(FlattenSeq(p))
  <2>1. (Len(p) + 1) - 1 = Len(p)
    BY <1>0
  <2>. QED BY <2>1, SubSeqFull DEF Begins
<1>3. ASSUME NEW i \in 1 .. Len(p) + 1
      PROVE  SubSeq(p, 1, i - 1) \in Seq(Seq(S)) /\ Begins(p, i) \in Nat
  <2>1. \A j \in 1 .. i - 1 : p[j] \in Seq(S)
    BY <1>0, ElementOfSeq
  <2>2. SubSeq(p, 1, i - 1) \in Seq(Seq(S))
    <3>1. 1 \in Int /\ i - 1 \in Int
      BY <1>0
    <3>. QED BY <2>1, <3>1, SubSeqProperties
  <2>. QED BY <2>2, FlattenType, LenProperties DEF Begins
<1>4. ASSUME NEW i \in 1 .. Len(p)
      PROVE  Begins(p, i + 1) = Begins(p, i) + Len(p[i])
  <2>1. p[i] \in Seq(S)
    BY ElementOfSeq
  <2>2. SubSeq(p, 1, i) = SubSeq(p, 1, i - 1) \o <<p[i]>>
    <3>1. 1 \in 1 .. Len(p) /\ i \in 1 .. Len(p)
      BY <1>0
    <3>. QED BY <3>1, SubSeqRecursiveSecond
  <2>3. SubSeq(p, 1, i - 1) \in Seq(Seq(S))
    <3>1. i \in 1 .. Len(p) + 1
      BY <1>0
    <3>. QED BY <3>1, <1>3
  <2>4. SubSeq(p, 1, i) = Append(SubSeq(p, 1, i - 1), p[i])
    BY <2>1, <2>2, <2>3, AppendIsConcat
  <2>5. (i + 1) - 1 = i
    BY <1>0
  <2>. QED BY <2>1, <2>3, <2>4, <2>5, FlattenLength DEF Begins
<1>. QED BY <1>1, <1>2, <1>3, <1>4

LEMMA BeginsGrow ==
    ASSUME NEW S, NEW p \in Seq(Seq(S)), NEW i \in 1 .. Len(p) + 1,
           NEW j \in 1 .. Len(p) + 1, i <= j
    PROVE  Begins(p, i) <= Begins(p, j)
<1>. DEFINE T == {k \in Nat : i + k <= Len(p) + 1 => Begins(p, i) <= Begins(p, i + k)}
<1>0. Len(p) \in Nat
  BY LenProperties
<1>1. 0 \in T
  <2>1. i + 0 = i /\ Begins(p, i) \in Nat
    BY <1>0, BeginsProperties
  <2>. QED BY <2>1
<1>2. ASSUME NEW k \in Nat, k \in T PROVE k + 1 \in T
  <2>. SUFFICES ASSUME i + (k + 1) <= Len(p) + 1
                PROVE  Begins(p, i) <= Begins(p, i + (k + 1))
    OBVIOUS
  <2>1. i + k \in 1 .. Len(p) /\ i + (k + 1) = (i + k) + 1 /\ i + k <= Len(p) + 1
        /\ i + k \in 1 .. Len(p) + 1
    BY <1>0
  <2>2. p[i + k] \in Seq(S)
    BY <2>1, ElementOfSeq
  <2>3. Len(p[i + k]) \in Nat
    BY <2>2, LenProperties
  <2>4. Begins(p, (i + k) + 1) = Begins(p, i + k) + Len(p[i + k])
        /\ Begins(p, i + k) \in Nat /\ Begins(p, i) \in Nat
    BY <2>1, BeginsProperties
  <2>5. Begins(p, i) <= Begins(p, i + k)
    BY <1>2, <2>1
  <2>. QED BY <2>1, <2>3, <2>4, <2>5
<1>. HIDE DEF T
<1>3. Nat \subseteq T
  BY <1>1, <1>2, SetInduction
<1>4. j - i \in Nat /\ i + (j - i) = j /\ i + (j - i) <= Len(p) + 1
  BY <1>0
<1>5. j - i \in T
  BY <1>3, <1>4
<1>. QED BY <1>4, <1>5 DEF T

LEMMA BeginsAppend ==
    ASSUME NEW S, NEW p \in Seq(Seq(S)), NEW d \in Seq(S), NEW i \in 1 .. Len(p) + 1
    PROVE  Begins(Append(p, d), i) = Begins(p, i)
<1>0. Len(p) \in Nat
  BY LenProperties
<1>1. Append(p, d) \in Seq(Seq(S)) /\ Len(Append(p, d)) = Len(p) + 1
      /\ \A j \in 1 .. Len(p) : Append(p, d)[j] = p[j]
  BY AppendProperties
<1>2. SubSeq(Append(p, d), 1, i - 1) = SubSeq(p, 1, i - 1)
  <2>. DEFINE a == SubSeq(Append(p, d), 1, i - 1)
              b == SubSeq(p, 1, i - 1)
  <2>1. \A j \in 1 .. i - 1 : p[j] \in Seq(S) /\ Append(p, d)[j] = p[j]
    BY <1>0, <1>1, ElementOfSeq
  <2>2. 1 \in Int /\ i - 1 \in Int /\ (i - 1) - 1 + 1 = i - 1
    BY <1>0
  <2>3. /\ a \in Seq(Seq(S))
        /\ Len(a) = IF 1 <= i - 1 THEN (i - 1) - 1 + 1 ELSE 0
        /\ \A j \in 1 .. (i - 1) - 1 + 1 : a[j] = Append(p, d)[1 + j - 1]
    BY <2>1, <2>2, SubSeqProperties
  <2>4. /\ b \in Seq(Seq(S))
        /\ Len(b) = IF 1 <= i - 1 THEN (i - 1) - 1 + 1 ELSE 0
        /\ \A j \in 1 .. (i - 1) - 1 + 1 : b[j] = p[1 + j - 1]
    BY <2>1, <2>2, SubSeqProperties
  <2>. HIDE DEF a, b
  <2>5. Len(a) = Len(b) /\ \A j \in 1 .. Len(a) : j \in 1 .. i - 1 /\ 1 + j - 1 = j
    BY <1>0, <2>3, <2>4
  <2>6. \A j \in 1 .. Len(a) : a[j] = b[j]
    BY <2>1, <2>2, <2>3, <2>4, <2>5
  <2>7. a = b
    BY <2>3, <2>4, <2>5, <2>6, SeqEqual
  <2>. QED BY <2>7 DEF a, b
<1>. QED BY <1>2 DEF Begins

LEMMA InPiece ==
    ASSUME NEW S, NEW p \in Seq(Seq(S)), NEW i \in 1 .. Len(p), NEW j \in 1 .. Len(p[i])
    PROVE  Begins(p, i) + j \in 1 .. Len(FlattenSeq(p)) /\ Begins(p, i) \in Nat
           /\ Begins(p, i) + Len(p[i]) <= Len(FlattenSeq(p)) /\ Len(p[i]) \in Nat
<1>1. Len(p) \in Nat /\ p[i] \in Seq(S)
  BY LenProperties, ElementOfSeq
<1>2. Len(p[i]) \in Nat
  BY <1>1, LenProperties
<1>3. i \in 1 .. Len(p) + 1 /\ i + 1 \in 1 .. Len(p) + 1 /\ Len(p) + 1 \in 1 .. Len(p) + 1
      /\ i + 1 <= Len(p) + 1
  BY <1>1
<1>4. Begins(p, i) \in Nat /\ Begins(p, i + 1) = Begins(p, i) + Len(p[i])
      /\ Begins(p, Len(p) + 1) = Len(FlattenSeq(p)) /\ Begins(p, Len(p) + 1) \in Nat
  BY <1>3, BeginsProperties
<1>5. Begins(p, i + 1) <= Begins(p, Len(p) + 1)
  BY <1>3, BeginsGrow
<1>. QED BY <1>2, <1>4, <1>5

\* The x-th element of the whole is the j-th of the i-th piece.
Holds(p, x, i, j) == i \in 1 .. Len(p) /\ j \in 1 .. Len(p[i]) /\ x = Begins(p, i) + j

LEMMA HoldsAppend ==
    ASSUME NEW S, NEW p \in Seq(Seq(S)), NEW d \in Seq(S)
    PROVE  /\ \A x, i, j : Holds(p, x, i, j) => Holds(Append(p, d), x, i, j)
           /\ \A j \in 1 .. Len(d) :
                 Holds(Append(p, d), Len(FlattenSeq(p)) + j, Len(p) + 1, j)
           /\ \A x, i, j : Holds(Append(p, d), x, i, j) =>
                 Holds(p, x, i, j) \/ (i = Len(p) + 1 /\ j \in 1 .. Len(d)
                                      /\ x = Len(FlattenSeq(p)) + j)
<1>. DEFINE q == Append(p, d)
            n == Len(p)
<1>1. n \in Nat /\ Len(q) = n + 1 /\ q[n + 1] = d /\ \A i \in 1 .. n : q[i] = p[i]
  BY LenProperties, AppendProperties
<1>2. \A i \in 1 .. n + 1 : Begins(q, i) = Begins(p, i)
  BY BeginsAppend
<1>3. n + 1 \in 1 .. n + 1 /\ Begins(p, n + 1) = Len(FlattenSeq(p))
  BY <1>1, BeginsProperties
<1>. HIDE DEF q, n
<1>4. \A i \in 1 .. n : i \in 1 .. n + 1 /\ i # n + 1
  BY <1>1
<1>5. \A i \in 1 .. n + 1 : i \in 1 .. n \/ i = n + 1
  BY <1>1
<1>6. \A x, i, j : Holds(p, x, i, j) => Holds(q, x, i, j)
  BY <1>1, <1>2, <1>4 DEF Holds, n
<1>7. \A j \in 1 .. Len(d) : Holds(q, Len(FlattenSeq(p)) + j, n + 1, j)
  BY <1>1, <1>2, <1>3 DEF Holds
<1>8. ASSUME NEW x, NEW i, NEW j, Holds(q, x, i, j)
      PROVE  Holds(p, x, i, j) \/ (i = n + 1 /\ j \in 1 .. Len(d)
                                   /\ x = Len(FlattenSeq(p)) + j)
  <2>1. i \in 1 .. n + 1 /\ j \in 1 .. Len(q[i]) /\ x = Begins(p, i) + j
    BY <1>1, <1>2, <1>8 DEF Holds
  <2>2. CASE i \in 1 .. n
    BY <1>1, <2>1, <2>2 DEF Holds, n
  <2>3. CASE i = n + 1
    BY <1>1, <1>3, <2>1, <2>3
  <2>. QED BY <1>5, <2>1, <2>2, <2>3
<1>. QED BY <1>6, <1>7, <1>8 DEF q, n

LEMMA ConcatAt ==
    ASSUME NEW S, NEW s \in Seq(S), NEW d \in Seq(S)
    PROVE  /\ Len(s) \in Nat /\ Len(d) \in Nat /\ Len(s \o d) = Len(s) + Len(d)
           /\ \A x \in 1 .. Len(s) : (s \o d)[x] = s[x]
           /\ \A j \in 1 .. Len(d) : (s \o d)[Len(s) + j] = d[j]
<1>. DEFINE c == s \o d
            n == Len(s)
            m == Len(d)
<1>1. n \in Nat /\ m \in Nat
  BY LenProperties
<1>2. Len(c) = n + m
      /\ \A x \in 1 .. n + m : c[x] = IF x <= n THEN s[x] ELSE d[x - n]
  BY ConcatProperties
<1>. HIDE DEF c, n, m
<1>3. \A x \in 1 .. n : c[x] = s[x]
  BY <1>1, <1>2
<1>4. ASSUME NEW j \in 1 .. m PROVE c[n + j] = d[j]
  <2>1. n + j \in 1 .. n + m /\ ~(n + j <= n) /\ (n + j) - n = j
    BY <1>1
  <2>. QED BY <1>2, <2>1
<1>. QED BY <1>1, <1>2, <1>3, <1>4 DEF c, n, m

\* Every element stands where its piece has it, and nothing else does.
Laid(p, f) ==
    /\ \A x \in 1 .. Len(f) : \E i, j : Holds(p, x, i, j)
    /\ \A x, i, j : Holds(p, x, i, j) => x \in 1 .. Len(f) /\ f[x] = p[i][j]

LEMMA LaidAppend ==
    ASSUME NEW S, NEW p \in Seq(Seq(S)), NEW d \in Seq(S), NEW f \in Seq(S),
           f = FlattenSeq(p), Laid(p, f)
    PROVE  Laid(Append(p, d), f \o d)
<1>. DEFINE q == Append(p, d)
            g == f \o d
            n == Len(f)
            m == Len(d)
<1>1. /\ n \in Nat /\ m \in Nat /\ Len(g) = n + m
      /\ \A x \in 1 .. n : g[x] = f[x]
      /\ \A j \in 1 .. m : g[n + j] = d[j]
  BY ConcatAt
<1>2. /\ \A x, i, j : Holds(p, x, i, j) => Holds(q, x, i, j)
      /\ \A j \in 1 .. m : Holds(q, n + j, Len(p) + 1, j)
      /\ \A x, i, j : Holds(q, x, i, j) =>
            Holds(p, x, i, j) \/ (i = Len(p) + 1 /\ j \in 1 .. m /\ x = n + j)
  <2>1. n = Len(FlattenSeq(p))
    OBVIOUS
  <2>2. \A x, i, j : Holds(p, x, i, j) => Holds(q, x, i, j)
    BY HoldsAppend, Zenon
  <2>3. \A j \in 1 .. m : Holds(q, Len(FlattenSeq(p)) + j, Len(p) + 1, j)
    BY HoldsAppend, Zenon
  <2>4. \A x, i, j : Holds(q, x, i, j) =>
           Holds(p, x, i, j) \/ (i = Len(p) + 1 /\ j \in 1 .. m
                                /\ x = Len(FlattenSeq(p)) + j)
    BY HoldsAppend, Zenon
  <2>. HIDE DEF q, n, m
  <2>. QED BY <2>1, <2>2, <2>3, <2>4, Zenon
<1>3. q[Len(p) + 1] = d /\ \A i \in 1 .. Len(p) : q[i] = p[i]
  BY AppendProperties
<1>. HIDE DEF q, g, n, m
<1>4. ASSUME NEW x \in 1 .. Len(g) PROVE \E i, j : Holds(q, x, i, j)
  <2>1. CASE x \in 1 .. n
    BY <1>2, <2>1 DEF Laid, n
  <2>2. CASE x \notin 1 .. n
    <3>1. x - n \in 1 .. m /\ n + (x - n) = x
      BY <1>1, <2>2
    <3>. QED BY <1>2, <3>1
  <2>. QED BY <2>1, <2>2
<1>5. ASSUME NEW x, NEW i, NEW j, Holds(q, x, i, j)
      PROVE  x \in 1 .. Len(g) /\ g[x] = q[i][j]
  <2>1. CASE Holds(p, x, i, j)
    <3>1. x \in 1 .. n /\ f[x] = p[i][j]
      BY <2>1 DEF Laid, n
    <3>2. q[i] = p[i]
      BY <1>3, <2>1 DEF Holds
    <3>3. x \in 1 .. n + m
      BY <1>1, <3>1
    <3>. QED BY <1>1, <3>1, <3>2, <3>3
  <2>2. CASE i = Len(p) + 1 /\ j \in 1 .. m /\ x = n + j
    <3>1. n + j \in 1 .. n + m
      BY <1>1, <2>2
    <3>. QED BY <1>1, <1>3, <2>2, <3>1
  <2>. QED BY <1>2, <1>5, <2>1, <2>2
<1>6. Laid(q, g)
  BY <1>4, <1>5 DEF Laid
<1>. QED BY <1>6 DEF q, g

LEMMA FlattenLaid ==
    ASSUME NEW S
    PROVE  \A p \in Seq(Seq(S)) : Laid(p, FlattenSeq(p))
<1>. DEFINE T == {n \in Nat : \A p \in Seq(Seq(S)) : Len(p) = n => Laid(p, FlattenSeq(p))}
<1>1. ASSUME NEW p \in Seq(Seq(S)), p = <<>> PROVE FlattenSeq(p) = <<>> /\ Laid(p, <<>>)
  <2>1. FlattenSeq(p) = <<>>
    BY <1>1 DEF FlattenSeq
  <2>2. Len(p) = 0 /\ Len(<<>>) = 0
    BY <1>1
  <2>. QED BY <2>1, <2>2 DEF Laid, Holds
<1>2. 0 \in T
  <2>1. \A p \in Seq(Seq(S)) : Len(p) = 0 => p = <<>>
    OBVIOUS
  <2>2. \A p \in Seq(Seq(S)) : Len(p) = 0 => Laid(p, FlattenSeq(p))
    BY <1>1, <2>1, Zenon
  <2>. QED BY <2>2
<1>3. ASSUME NEW n \in Nat, n \in T PROVE n + 1 \in T
  <2>. SUFFICES ASSUME NEW p \in Seq(Seq(S)), Len(p) = n + 1 PROVE Laid(p, FlattenSeq(p))
    OBVIOUS
  <2>1. PICK q \in Seq(Seq(S)), d \in Seq(S) : p = Append(q, d)
    <3>1. p # <<>>
      OBVIOUS
    <3>. QED BY <3>1, SequenceEmptyOrAppend
  <2>2. Len(q) = n
    BY <2>1, AppendProperties
  <2>3. Laid(q, FlattenSeq(q)) /\ FlattenSeq(q) \in Seq(S)
    BY <1>3, <2>2, FlattenType
  <2>4. Laid(p, FlattenSeq(q) \o d)
    BY <2>1, <2>3, LaidAppend
  <2>5. CASE q = <<>>
    <3>1. p = <<d>>
      BY <2>1, <2>5
    <3>2. FlattenSeq(p) = d /\ FlattenSeq(q) \o d = d
      BY <1>1, <2>5, <3>1, FlattenOne, ConcatEmptySeq
    <3>. QED BY <2>4, <3>2
  <2>6. CASE q # <<>>
    BY <2>1, <2>4, <2>6, FlattenAppend
  <2>. QED BY <2>5, <2>6
<1>. HIDE DEF T
<1>4. Nat \subseteq T
  BY <1>2, <1>3, SetInduction
<1>5. ASSUME NEW p \in Seq(Seq(S)) PROVE Laid(p, FlattenSeq(p))
  <2>1. Len(p) \in T
    BY <1>4, LenProperties
  <2>. QED BY <2>1 DEF T
<1>. QED BY <1>5

\* Elements stand in the order of their pieces, and of their places there.
LEMMA HoldsOrder ==
    ASSUME NEW S, NEW p \in Seq(Seq(S)), NEW x, NEW i, NEW j, Holds(p, x, i, j),
           NEW y, NEW k, NEW l, Holds(p, y, k, l)
    PROVE  /\ x < y <=> i < k \/ (i = k /\ j < l)
           /\ x = y <=> i = k /\ j = l
<1>1. /\ i \in 1 .. Len(p) /\ j \in 1 .. Len(p[i]) /\ x = Begins(p, i) + j
      /\ k \in 1 .. Len(p) /\ l \in 1 .. Len(p[k]) /\ y = Begins(p, k) + l
  BY DEF Holds
<1>2. ASSUME NEW a \in 1 .. Len(p), NEW b \in 1 .. Len(p), a < b
      PROVE  Begins(p, a) + Len(p[a]) <= Begins(p, b)
  <2>1. Len(p) \in Nat
    BY LenProperties
  <2>2. a + 1 \in 1 .. Len(p) + 1 /\ b \in 1 .. Len(p) + 1 /\ a + 1 <= b
    BY <1>2, <2>1
  <2>3. Begins(p, a + 1) <= Begins(p, b)
    BY <2>2, BeginsGrow
  <2>. QED BY <2>3, BeginsProperties
<1>3. Len(p) \in Nat /\ p[i] \in Seq(S) /\ p[k] \in Seq(S)
  BY <1>1, LenProperties, ElementOfSeq
<1>4. Len(p[i]) \in Nat /\ Len(p[k]) \in Nat
  BY <1>3, LenProperties
<1>5. Begins(p, i) \in Nat /\ Begins(p, k) \in Nat
  <2>1. i \in 1 .. Len(p) + 1 /\ k \in 1 .. Len(p) + 1
    BY <1>1, <1>3
  <2>. QED BY <2>1, BeginsProperties
<1>6. i < k => Begins(p, i) + Len(p[i]) <= Begins(p, k)
  BY <1>1, <1>2
<1>7. k < i => Begins(p, k) + Len(p[k]) <= Begins(p, i)
  BY <1>1, <1>2
<1>8. i = k => Begins(p, i) = Begins(p, k)
  OBVIOUS
<1>. DEFINE a == Begins(p, i)
            b == Begins(p, k)
            m == Len(p[i])
            n == Len(p[k])
            h == Len(p)
<1>. HIDE DEF a, b, m, n, h
<1>9. /\ i \in 1 .. h /\ j \in 1 .. m /\ x = a + j /\ k \in 1 .. h /\ l \in 1 .. n
      /\ y = b + l /\ h \in Nat /\ m \in Nat /\ n \in Nat /\ a \in Nat /\ b \in Nat
      /\ (i < k => a + m <= b) /\ (k < i => b + n <= a) /\ (i = k => a = b)
  BY <1>1, <1>3, <1>4, <1>5, <1>6, <1>7, <1>8 DEF a, b, m, n, h
<1>. QED BY <1>9

-----------------------------------------------------------------------------
(* Ranks *)

Under(R, S, a) == {b \in S : <<b, a>> \in R}

StrictOrder(R, S) ==
    /\ \A a \in S : <<a, a>> \notin R
    /\ \A a, b \in S : a = b \/ <<a, b>> \in R \/ <<b, a>> \in R
    /\ \A a, b, c \in S : <<a, b>> \in R /\ <<b, c>> \in R => <<a, c>> \in R

\* How many elements of a finite set are under one says its place in the order;
\* every place is taken.
LEMMA Ranks ==
    ASSUME NEW S, IsFiniteSet(S), NEW R, StrictOrder(R, S)
    PROVE  /\ Cardinality(S) \in Nat
           /\ \A a \in S : Cardinality(Under(R, S, a)) \in 0 .. Cardinality(S) - 1
           /\ \A a, b \in S : <<a, b>> \in R <=>
                 Cardinality(Under(R, S, a)) < Cardinality(Under(R, S, b))
           /\ \A a, b \in S :
                 Cardinality(Under(R, S, a)) = Cardinality(Under(R, S, b)) => a = b
           /\ \A i \in 1 .. Cardinality(S) :
                 \E a \in S : Cardinality(Under(R, S, a)) = i - 1
<1>. DEFINE n == Cardinality(S)
            U(a) == Under(R, S, a)
            F == [a \in S |-> Cardinality(U(a))]
<1>1. n \in Nat
  BY FS_CardinalityType
<1>2. ASSUME NEW a \in S
      PROVE  /\ U(a) \in SUBSET S /\ IsFiniteSet(U(a)) /\ Cardinality(U(a)) \in Nat
             /\ a \notin U(a)
  <2>1. U(a) \in SUBSET S /\ a \notin U(a)
    BY DEF Under, StrictOrder
  <2>. QED BY <2>1, FS_Subset, FS_CardinalityType
<1>3. ASSUME NEW a \in S PROVE Cardinality(U(a)) \in 0 .. n - 1
  <2>1. U(a) \in SUBSET (S \ {a})
    BY <1>2
  <2>2. IsFiniteSet(S \ {a}) /\ Cardinality(S \ {a}) = n - 1
    BY FS_RemoveElement
  <2>3. Cardinality(U(a)) <= n - 1
    BY <2>1, <2>2, FS_Subset
  <2>. QED BY <1>1, <1>2, <2>3
<1>4. ASSUME NEW a \in S, NEW b \in S, <<a, b>> \in R
      PROVE  Cardinality(U(a)) < Cardinality(U(b))
  <2>1. U(a) \in SUBSET U(b) /\ a \in U(b)
    BY <1>4 DEF Under, StrictOrder
  <2>2. Cardinality(U(a)) <= Cardinality(U(b)) /\ Cardinality(U(a)) # Cardinality(U(b))
    BY <1>2, <2>1, FS_Subset
  <2>. QED BY <1>2, <2>2
<1>5. ASSUME NEW a \in S, NEW b \in S, Cardinality(U(a)) <= Cardinality(U(b)), a # b
      PROVE  <<a, b>> \in R
  <2>1. <<b, a>> \notin R
    BY <1>2, <1>4, <1>5
  <2>. QED BY <1>5, <2>1 DEF StrictOrder
<1>6. ASSUME NEW a \in S, NEW b \in S, Cardinality(U(a)) = Cardinality(U(b))
      PROVE  a = b
  <2>1. Cardinality(U(a)) \in Nat /\ Cardinality(U(b)) \in Nat
    BY <1>2
  <2>2. CASE a # b
    <3>1. Cardinality(U(a)) <= Cardinality(U(b))
      BY <1>6, <2>1
    <3>2. <<a, b>> \in R
      BY <1>5, <2>2, <3>1
    <3>3. Cardinality(U(a)) < Cardinality(U(b))
      BY <1>4, <3>2
    <3>. QED BY <1>6, <2>1, <3>3
  <2>. QED BY <2>2
<1>7. F \in Injection(S, 0 .. n - 1)
  <2>1. F \in [S -> 0 .. n - 1]
    BY <1>3
  <2>2. \A a, b \in S : F[a] = F[b] => a = b
    BY <1>6
  <2>3. DOMAIN F = S
    OBVIOUS
  <2>. HIDE DEF F
  <2>. QED BY <2>1, <2>2, <2>3 DEF Injection, IsInjective
<1>8. F \in Surjection(S, 0 .. n - 1)
  <2>1. 0 \in Int /\ n - 1 \in Int /\ (IF 0 > n - 1 THEN 0 ELSE (n - 1) - 0 + 1) = n
    BY <1>1
  <2>. HIDE DEF F, n
  <2>2. IsFiniteSet(0 .. n - 1) /\ Cardinality(0 .. n - 1) = n
    BY <2>1, FS_Interval
  <2>. QED BY <1>7, <2>2, FS_Injection DEF n
<1>9. ASSUME NEW i \in 1 .. n PROVE \E a \in S : Cardinality(U(a)) = i - 1
  <2>1. i - 1 \in 0 .. n - 1
    BY <1>1
  <2>2. \E a \in S : F[a] = i - 1
    <3>. HIDE DEF F, n
    <3>. QED BY <1>8, <2>1 DEF Surjection
  <2>. QED BY <2>2
<1>10. ASSUME NEW a \in S, NEW b \in S, Cardinality(U(a)) < Cardinality(U(b))
       PROVE  <<a, b>> \in R
  <2>1. Cardinality(U(a)) \in Nat /\ Cardinality(U(b)) \in Nat
    BY <1>2
  <2>2. a # b
    BY <1>10, <2>1
  <2>. QED BY <1>5, <1>10, <2>1, <2>2
<1>. QED BY <1>1, <1>3, <1>4, <1>6, <1>9, <1>10

-----------------------------------------------------------------------------
(* Lists with an element less *)

LEMMA RemoveAtProperties ==
    ASSUME NEW S, NEW a \in Seq(S), NEW i \in 1 .. Len(a)
    PROVE  /\ RemoveAt(a, i) \in Seq(S) /\ Len(RemoveAt(a, i)) = Len(a) - 1
           /\ \A j \in 1 .. Len(a) - 1 :
                 RemoveAt(a, i)[j] = IF j < i THEN a[j] ELSE a[j + 1]
<1>. DEFINE b == SubSeq(a, 1, i - 1)
            n == Len(a)
            o == i + 1
            c == SubSeq(a, o, n)
<1>0. n \in Nat /\ \A j \in 1 .. n : a[j] \in S
  BY LenProperties, ElementOfSeq
<1>1. b \in Seq(S) /\ Len(b) = i - 1 /\ \A j \in 1 .. i - 1 : b[j] = a[j]
  <2>1. \A j \in 1 .. i - 1 : a[j] \in S
    BY <1>0
  <2>2. 1 \in Int /\ i - 1 \in Int /\ (i - 1) - 1 + 1 = i - 1
        /\ (IF 1 <= i - 1 THEN i - 1 ELSE 0) = i - 1
        /\ \A j \in 1 .. i - 1 : 1 + j - 1 = j
    BY <1>0
  <2>3. /\ b \in Seq(S)
        /\ Len(b) = IF 1 <= i - 1 THEN (i - 1) - 1 + 1 ELSE 0
        /\ \A j \in 1 .. (i - 1) - 1 + 1 : b[j] = a[1 + j - 1]
    BY <2>1, <2>2, SubSeqProperties
  <2>. HIDE DEF b
  <2>. QED BY <2>2, <2>3
<1>2. c \in Seq(S) /\ Len(c) = n - i /\ \A j \in 1 .. n - i : c[j] = a[i + j]
  <2>1. \A j \in o .. n : a[j] \in S
    BY <1>0
  <2>2. o \in Int /\ n \in Int /\ n - o + 1 = n - i
        /\ (IF o <= n THEN n - i ELSE 0) = n - i
        /\ \A j \in 1 .. n - i : o + j - 1 = i + j
    BY <1>0
  <2>. HIDE DEF n, o
  <2>3. /\ c \in Seq(S)
        /\ Len(c) = IF o <= n THEN n - o + 1 ELSE 0
        /\ \A j \in 1 .. n - o + 1 : c[j] = a[o + j - 1]
    BY <2>1, <2>2, SubSeqProperties
  <2>. HIDE DEF c
  <2>. QED BY <2>2, <2>3
<1>3. RemoveAt(a, i) = b \o c
  BY DEF RemoveAt
<1>. DEFINE r == b \o c
<1>. HIDE DEF b, c, n, o
<1>4. r \in Seq(S) /\ Len(r) = Len(b) + Len(c)
      /\ \A j \in 1 .. Len(b) + Len(c) : r[j] = IF j <= Len(b) THEN b[j] ELSE c[j - Len(b)]
  BY <1>1, <1>2, ConcatProperties
<1>. HIDE DEF r
<1>5. i \in 1 .. n /\ Len(b) + Len(c) = n - 1
  BY <1>0, <1>1, <1>2 DEF n
<1>6. ASSUME NEW j \in 1 .. n - 1
      PROVE  r[j] = IF j < i THEN a[j] ELSE a[j + 1]
  <2>1. CASE j < i
    <3>1. j \in 1 .. i - 1 /\ j <= Len(b)
      BY <1>0, <1>1, <1>5, <2>1
    <3>. QED BY <1>1, <1>4, <1>5, <2>1, <3>1
  <2>2. CASE ~(j < i)
    <3>1. j - (i - 1) \in 1 .. n - i /\ i + (j - (i - 1)) = j + 1 /\ ~(j <= Len(b))
      BY <1>0, <1>1, <1>5, <2>2
    <3>2. r[j] = c[j - (i - 1)]
      BY <1>1, <1>4, <1>5, <3>1
    <3>. QED BY <1>2, <2>2, <3>1, <3>2
  <2>. QED BY <2>1, <2>2
<1>. QED BY <1>3, <1>4, <1>5, <1>6 DEF r, n
=============================================================================
