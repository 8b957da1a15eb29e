--------------------------- MODULE ContextProofs ---------------------------
(***************************************************************************)
(* Theorems about ContextCompiler for any ceiling, any summaries and any   *)
(* number of turns.  A source is lost once the loop is past it and it was  *)
(* neither pinned nor empty; what is left of the prompt is the messages of *)
(* the other sources, with a summary for each lost one or nothing.         *)
(***************************************************************************)
EXTENDS ContextCompiler, ListLemmas

Messages == [source : {"first", "second", "recall", "agent", "history"}, place : Nat,
             role : {"system", "turn"}, size : {1, 2, 3} \cup Summaries]
Sources  == [name : {"first", "second", "recall", "agent"}, order : Orders \cup {20, 90},
             pinned : BOOLEAN, messages : Seq(Messages)]

\* A source as it is gathered: its messages carry its name and their places.
Proper(s) ==
    /\ s \in Sources
    /\ s.pinned <=> s.name \in {"recall", "agent"}
    /\ \A x \in 1 .. Len(s.messages) : /\ s.messages[x].source = s.name
                                       /\ s.messages[x].place = x
Apart(g) == \A i, j \in 1 .. Len(g) : g[i].name = g[j].name => i = j
Fine(g)  == g \in Seq(Sources) /\ (\A i \in 1 .. Len(g) : Proper(g[i])) /\ Apart(g)

-----------------------------------------------------------------------------
(* The sources of a call *)

LEMMA ExtraProper ==
    ASSUME NEW n \in {"first", "second"}, NEW o \in Orders, NEW s \in {0, 2, 3}
    PROVE  Proper(Extra(n, o, s)) /\ Extra(n, o, s).name = n
<1>. DEFINE e == Extra(n, o, s)
            m == Said(n, 1, "system", s)
<1>1. CASE s = 0
  <2>1. e = [name |-> n, order |-> o, pinned |-> FALSE, messages |-> <<>>]
    BY <1>1 DEF Extra
  <2>2. <<>> \in Seq(Messages) /\ Len(<<>>) = 0
    BY EmptySeq
  <2>. QED BY <2>1, <2>2 DEF Proper, Sources
<1>2. CASE s # 0
  <2>1. e = [name |-> n, order |-> o, pinned |-> FALSE, messages |-> <<m>>]
    BY <1>2 DEF Extra
  <2>2. m \in Messages /\ m.source = n /\ m.place = 1
    BY <1>2 DEF Said, Messages
  <2>. HIDE DEF m
  <2>3. <<m>> \in Seq(Messages) /\ Len(<<m>>) = 1 /\ <<m>>[1] = m
    BY <2>2
  <2>. QED BY <2>1, <2>2, <2>3 DEF Proper, Sources
<1>. QED BY <1>1, <1>2

LEMMA RecallProper == Proper(Recall) /\ Recall.name = "recall"
<1>. DEFINE m == Said("recall", 1, "system", 1)
<1>1. Recall = [name |-> "recall", order |-> 20, pinned |-> TRUE, messages |-> <<m>>]
  BY DEF Recall
<1>2. m \in Messages /\ m.source = "recall" /\ m.place = 1
  BY DEF Said, Messages
<1>. HIDE DEF m
<1>3. <<m>> \in Seq(Messages) /\ Len(<<m>>) = 1 /\ <<m>>[1] = m
  BY <1>2
<1>. QED BY <1>1, <1>2, <1>3 DEF Proper, Sources

LEMMA AgentProper ==
    ASSUME NEW turns \in Nat
    PROVE  Proper(Agent(turns)) /\ Agent(turns).name = "agent"
<1>. DEFINE m == Said("agent", 1, "system", 1)
            t == [i \in 1 .. turns |-> Said("agent", i + 1, "turn", 2)]
            l == <<m>> \o t
<1>1. Agent(turns) = [name |-> "agent", order |-> 90, pinned |-> TRUE, messages |-> l]
  BY DEF Agent
<1>2. m \in Messages /\ m.source = "agent" /\ m.place = 1
  BY DEF Said, Messages
<1>. HIDE DEF m
<1>3. <<m>> \in Seq(Messages) /\ Len(<<m>>) = 1 /\ <<m>>[1] = m
  BY <1>2
<1>4. \A i \in 1 .. turns : /\ t[i] \in Messages /\ t[i].source = "agent"
                            /\ t[i].place = i + 1
  BY DEF Said, Messages
<1>5. t \in Seq(Messages) /\ Len(t) = turns
  BY <1>4, IsASeq, LenProperties
<1>. HIDE DEF t
<1>6. l \in Seq(Messages)
  BY <1>3, <1>5, ConcatProperties
<1>7. /\ Len(l) = Len(<<m>>) + Len(t)
      /\ \A x \in 1 .. Len(<<m>>) : l[x] = <<m>>[x]
      /\ \A x \in 1 .. Len(t) : l[Len(<<m>>) + x] = t[x]
  BY <1>3, <1>5, ConcatAt
<1>. HIDE DEF l
<1>8. ASSUME NEW x \in 1 .. Len(l) PROVE l[x].source = "agent" /\ l[x].place = x
  <2>1. CASE x = 1
    BY <1>2, <1>3, <1>7, <2>1
  <2>2. CASE x # 1
    <3>1. x - 1 \in 1 .. turns /\ 1 + (x - 1) = x /\ (x - 1) + 1 = x
      BY <1>3, <1>5, <1>7, <2>2
    <3>2. l[x] = t[x - 1]
      BY <1>3, <1>5, <1>7, <3>1
    <3>. QED BY <1>4, <3>1, <3>2
  <2>. QED BY <2>1, <2>2
<1>. QED BY <1>1, <1>6, <1>8 DEF Proper, Sources

LEMMA FineNone == Fine(<<>>)
BY EmptySeq DEF Fine, Apart

LEMMA FineOne ==
    ASSUME NEW s, Proper(s)
    PROVE  Fine(<<s>>) /\ Len(<<s>>) = 1 /\ <<s>>[1] = s
<1>1. s \in Sources
  BY DEF Proper
<1>2. <<s>> \in Seq(Sources) /\ Len(<<s>>) = 1 /\ <<s>>[1] = s
  BY <1>1
<1>. QED BY <1>2 DEF Fine, Apart

\* Two lists of sources without a name in common.
LEMMA FineConcat ==
    ASSUME NEW s, NEW d, Fine(s), Fine(d),
           \A i \in 1 .. Len(s), j \in 1 .. Len(d) : s[i].name # d[j].name
    PROVE  Fine(s \o d)
<1>. DEFINE c == s \o d
            n == Len(s)
            m == Len(d)
<1>1. s \in Seq(Sources) /\ d \in Seq(Sources)
  BY DEF Fine
<1>2. c \in Seq(Sources)
  BY <1>1, ConcatProperties
<1>3. /\ n \in Nat /\ m \in Nat /\ Len(c) = n + m
      /\ \A x \in 1 .. n : c[x] = s[x]
      /\ \A j \in 1 .. m : c[n + j] = d[j]
  BY <1>1, ConcatAt
<1>4. /\ \A i \in 1 .. n, j \in 1 .. m : s[i].name # d[j].name
      /\ \A i, j \in 1 .. n : s[i].name = s[j].name => i = j
      /\ \A i, j \in 1 .. m : d[i].name = d[j].name => i = j
      /\ \A i \in 1 .. n : Proper(s[i])
      /\ \A i \in 1 .. m : Proper(d[i])
  BY DEF Fine, Apart
<1>. HIDE DEF n, m, c
<1>5. ASSUME NEW x \in 1 .. n + m
      PROVE  \/ x \in 1 .. n /\ c[x] = s[x]
             \/ x - n \in 1 .. m /\ c[x] = d[x - n]
  <2>1. CASE x <= n
    BY <1>3, <2>1
  <2>2. CASE x > n
    <3>1. x - n \in 1 .. m /\ n + (x - n) = x
      BY <1>3, <2>2
    <3>. QED BY <1>3, <3>1
  <2>. QED BY <1>3, <2>1, <2>2
<1>6. \A x \in 1 .. n + m : Proper(c[x])
  BY <1>4, <1>5
<1>7. ASSUME NEW x \in 1 .. n + m, NEW y \in 1 .. n + m, c[x].name = c[y].name
      PROVE  x = y
  <2>1. CASE x \in 1 .. n /\ c[x] = s[x]
    BY <1>4, <1>5, <1>7, <2>1
  <2>2. CASE x - n \in 1 .. m /\ c[x] = d[x - n]
    <3>1. y - n \in 1 .. m /\ c[y] = d[y - n]
      BY <1>4, <1>5, <1>7, <2>2
    <3>2. x - n = y - n
      BY <1>4, <1>7, <2>2, <3>1
    <3>. QED BY <1>3, <3>2
  <2>. QED BY <1>5, <2>1, <2>2
<1>. QED BY <1>2, <1>3, <1>6, <1>7 DEF Fine, Apart, c

LEMMA GatheredFine ==
    ASSUME NEW g \in Gathered
    PROVE  Fine(g)
<1>1. PICK extras \in Extras, recall \in {<<>>, <<Recall>>}, turns \in 0 .. MaxTurns :
         g = extras \o recall \o <<Agent(turns)>>
  BY DEF Gathered
<1>2. Fine(extras) /\ \A i \in 1 .. Len(extras) : extras[i].name \in {"first", "second"}
  <2>1. CASE extras = <<>>
    BY <2>1, FineNone, EmptySeq
  <2>2. CASE extras \in {<<Extra("first", o, s)>> : o \in Orders, s \in {0, 2}}
    <3>1. PICK o \in Orders, s \in {0, 2} : extras = <<Extra("first", o, s)>>
      BY <2>2
    <3>2. Proper(Extra("first", o, s)) /\ Extra("first", o, s).name = "first"
      BY ExtraProper
    <3>. QED BY <3>1, <3>2, FineOne
  <2>3. CASE extras \in {<<Extra("first", o, 2), Extra("second", p, 3)>> :
                            o \in Orders, p \in Orders}
    <3>1. PICK o \in Orders, p \in Orders :
             extras = <<Extra("first", o, 2), Extra("second", p, 3)>>
      BY <2>3
    <3>. DEFINE e == Extra("first", o, 2)
                f == Extra("second", p, 3)
    <3>2. Proper(e) /\ e.name = "first" /\ Proper(f) /\ f.name = "second"
      BY ExtraProper
    <3>3. extras = <<e, f>>
      BY <3>1
    <3>. HIDE DEF e, f
    <3>4. e \in Sources /\ f \in Sources
      BY <3>2 DEF Proper
    <3>5. /\ extras \in Seq(Sources) /\ Len(extras) = 2
          /\ extras[1] = e /\ extras[2] = f
      BY <3>3, <3>4
    <3>. QED BY <3>2, <3>5 DEF Fine, Apart
  <2>. QED BY <2>1, <2>2, <2>3 DEF Extras
<1>3. Fine(recall) /\ \A i \in 1 .. Len(recall) : recall[i].name = "recall"
  <2>1. CASE recall = <<>>
    BY <2>1, FineNone, EmptySeq
  <2>2. CASE recall = <<Recall>>
    BY <2>2, RecallProper, FineOne
  <2>. QED BY <1>1, <2>1, <2>2
<1>. DEFINE a == <<Agent(turns)>>
            b == extras \o recall
<1>4. Fine(a) /\ \A i \in 1 .. Len(a) : a[i].name = "agent"
  <2>1. turns \in Nat
    BY <1>1
  <2>. QED BY <2>1, AgentProper, FineOne
<1>. HIDE DEF a
<1>5. Fine(b)
  BY <1>2, <1>3, FineConcat
<1>6. \A i \in 1 .. Len(b) : b[i].name \in {"first", "second", "recall"}
  <2>1. extras \in Seq(Sources) /\ recall \in Seq(Sources)
    BY <1>2, <1>3 DEF Fine
  <2>2. /\ Len(extras) \in Nat /\ Len(recall) \in Nat /\ Len(b) = Len(extras) + Len(recall)
        /\ \A x \in 1 .. Len(extras) : b[x] = extras[x]
        /\ \A j \in 1 .. Len(recall) : b[Len(extras) + j] = recall[j]
    BY <2>1, ConcatAt
  <2>3. ASSUME NEW i \in 1 .. Len(b)
        PROVE  i \in 1 .. Len(extras) \/ \E j \in 1 .. Len(recall) : i = Len(extras) + j
    <3>. DEFINE n == Len(extras)
                m == Len(recall)
    <3>1. n \in Nat /\ m \in Nat /\ i \in 1 .. n + m
      BY <2>2
    <3>. HIDE DEF n, m
    <3>2. i \in 1 .. n \/ (i - n \in 1 .. m /\ i = n + (i - n))
      BY <3>1
    <3>3. i \in 1 .. n \/ \E j \in 1 .. m : i = n + j
      BY <3>2
    <3>. QED BY <3>3 DEF n, m
  <2>. HIDE DEF b
  <2>4. ASSUME NEW i \in 1 .. Len(b) PROVE b[i].name \in {"first", "second", "recall"}
    <3>1. CASE i \in 1 .. Len(extras)
      <4>1. b[i] = extras[i] /\ extras[i].name \in {"first", "second"}
        BY <1>2, <2>2, <3>1
      <4>. QED BY <4>1
    <3>2. CASE \E j \in 1 .. Len(recall) : i = Len(extras) + j
      <4>1. PICK j \in 1 .. Len(recall) : i = Len(extras) + j
        BY <3>2
      <4>2. b[i] = recall[j] /\ recall[j].name = "recall"
        BY <1>3, <2>2, <4>1
      <4>. QED BY <4>2
    <3>. QED BY <2>3, <3>1, <3>2
  <2>. QED BY <2>4
<1>. HIDE DEF b
<1>7. Fine(b \o a)
  BY <1>4, <1>5, <1>6, FineConcat
<1>. QED BY <1>1, <1>7 DEF a, b

\* Sorting them loses and doubles none.
LEMMA ByOrderFine ==
    ASSUME Orders \subseteq Int, NEW g, Fine(g)
    PROVE  Fine(ByOrder(g))
<1>. DEFINE n == Len(g)
            S == 1 .. n
<1>1. /\ n \in Nat /\ g \in Seq(Sources) /\ DOMAIN g = S
      /\ \A i \in S : g[i] \in Sources /\ Proper(g[i])
      /\ \A i, j \in S : g[i].name = g[j].name => i = j
  BY LenProperties, ElementOfSeq DEF Fine, Apart
<1>2. IsFiniteSet(S) /\ Cardinality(S) = n
  <2>1. 1 \in Int /\ n \in Int /\ (IF 1 > n THEN 0 ELSE n - 1 + 1) = n
    BY <1>1
  <2>. HIDE DEF n
  <2>. QED BY <2>1, FS_Interval
<1>3. S \subseteq Int /\ \A i \in S : g[i].order \in Int
  <2>. HIDE DEF n
  <2>1. S \subseteq Int
    BY <1>1
  <2>2. Orders \cup {20, 90} \subseteq Int
    OBVIOUS
  <2>. HIDE DEF S
  <2>3. \A i \in S : g[i].order \in Orders \cup {20, 90}
    BY <1>1 DEF Sources
  <2>. QED BY <2>1, <2>2, <2>3
<1>. HIDE DEF S
<1>. DEFINE R == {p \in S \X S : Sooner(g, p[1], p[2])}
            C(i) == Cardinality(Under(R, S, i))
            f == [k \in S |-> CHOOSE i \in S : C(i) = k - 1]
            o == [k \in S |-> g[f[k]]]
<1>4. \A i, j \in S : <<i, j>> \in R <=> Sooner(g, i, j)
  OBVIOUS
<1>. HIDE DEF R
<1>5. StrictOrder(R, S)
  BY <1>3, <1>4 DEF StrictOrder, Sooner
<1>6. ByOrder(g) = o
  <2>1. \A i \in S : {j \in S : Sooner(g, j, i)} = Under(R, S, i)
    BY <1>4 DEF Under
  <2>2. \A k \in S : f[k] = CHOOSE i \in S : Cardinality({j \in S : Sooner(g, j, i)}) = k - 1
    BY <2>1
  <2>. HIDE DEF f
  <2>3. ByOrder(g) = [k \in S |-> g[CHOOSE i \in S :
                         Cardinality({j \in S : Sooner(g, j, i)}) = k - 1]]
    BY <1>1 DEF ByOrder
  <2>. QED BY <2>2, <2>3
<1>7. \A k \in 1 .. Cardinality(S) : \E i \in S : Cardinality(Under(R, S, i)) = k - 1
  BY <1>2, <1>5, Ranks
<1>8. \A k \in S : f[k] \in S /\ C(f[k]) = k - 1
  BY <1>2, <1>7 DEF S
<1>. HIDE DEF C, f
<1>9. \A k, l \in S : f[k] = f[l] => k = l
  <2>1. SUFFICES ASSUME NEW k \in S, NEW l \in S, f[k] = f[l] PROVE k = l
    OBVIOUS
  <2>2. k - 1 = l - 1
    BY <1>8, <2>1
  <2>. QED BY <2>2, <1>3
<1>10. o \in Seq(Sources) /\ Len(o) = n
  <2>1. \A k \in S : g[f[k]] \in Sources
    BY <1>1, <1>8
  <2>. QED BY <1>1, <2>1, IsASeq, LenProperties DEF S
<1>11. \A k \in S : o[k] = g[f[k]]
  OBVIOUS
<1>. HIDE DEF o
<1>12. \A k \in S : Proper(o[k])
  BY <1>1, <1>8, <1>11
<1>13. \A k, l \in S : o[k].name = o[l].name => k = l
  BY <1>1, <1>8, <1>9, <1>11
<1>14. Fine(o)
  BY <1>10, <1>12, <1>13 DEF Fine, Apart, S
<1>. QED BY <1>6, <1>14

-----------------------------------------------------------------------------
(* What is left of the sources *)

\* The loop is past a source that it could give up.
Lost(i) == i < at /\ ~Untouchable(given[i])

\* A lost source is a summary, which has no place in the source, or nothing.
Turn(i) ==
    /\ emitted[i].name = given[i].name
    /\ ~Lost(i) => emitted[i] = given[i] /\ given[i].name \notin dropped
    /\ Lost(i) => \/ given[i].name \in dropped
                  \/ \A x \in 1 .. Len(emitted[i].messages) :
                        /\ emitted[i].messages[x].place = 0
                        /\ emitted[i].messages[x].source = given[i].name

ContextShapes ==
    /\ Fine(given) /\ keep \in Nat
    /\ cpc \in {"check", "loop", "compact", "sent", "asis", "stopped"}
    /\ at \in 1 .. Len(given) + 1
    /\ emitted \in Seq(Sources) /\ Len(emitted) = Len(given)
    /\ dropped \subseteq {given[i].name : i \in DOMAIN given}
    /\ \A i \in 1 .. Len(given) : Turn(i)

Whole == Assemble(given, {})
Left  == Assemble(emitted, dropped)
WholePieces == [i \in 1 .. Len(given) |-> given[i].messages]
LeftPieces  == [i \in 1 .. Len(given) |->
                   IF emitted[i].name \in dropped THEN <<>> ELSE emitted[i].messages]

LEMMA Pieces ==
    ASSUME ContextShapes
    PROVE  /\ Len(given) \in Nat
           /\ DOMAIN given = 1 .. Len(given) /\ DOMAIN emitted = 1 .. Len(given)
           /\ \A i \in 1 .. Len(given) : given[i] \in Sources /\ emitted[i] \in Sources
           /\ WholePieces \in Seq(Seq(Messages)) /\ Len(WholePieces) = Len(given)
           /\ LeftPieces \in Seq(Seq(Messages)) /\ Len(LeftPieces) = Len(given)
           /\ Whole = FlattenSeq(WholePieces) /\ Left = FlattenSeq(LeftPieces)
           /\ Whole \in Seq(Messages) /\ Left \in Seq(Messages)
<1>. DEFINE n == Len(given)
<1>1. given \in Seq(Sources) /\ emitted \in Seq(Sources) /\ Len(emitted) = n
  BY DEF ContextShapes, Fine
<1>2. n \in Nat /\ DOMAIN given = 1 .. n /\ DOMAIN emitted = 1 .. n
  BY <1>1, LenProperties
<1>3. \A i \in 1 .. n : given[i] \in Sources /\ emitted[i] \in Sources
  BY <1>1, ElementOfSeq
<1>. HIDE DEF n
<1>4. WholePieces \in Seq(Seq(Messages)) /\ Len(WholePieces) = n
  <2>1. \A i \in 1 .. n : given[i].messages \in Seq(Messages)
    BY <1>3 DEF Sources
  <2>. QED BY <1>2, <2>1, IsASeq, LenProperties DEF WholePieces, n
<1>5. LeftPieces \in Seq(Seq(Messages)) /\ Len(LeftPieces) = n
  <2>. DEFINE q(i) == IF emitted[i].name \in dropped THEN <<>> ELSE emitted[i].messages
  <2>1. \A i \in 1 .. n : q(i) \in Seq(Messages)
    BY <1>3, EmptySeq DEF Sources
  <2>2. LeftPieces = [i \in 1 .. n |-> q(i)]
    BY DEF LeftPieces, n
  <2>. HIDE DEF q
  <2>. QED BY <1>2, <2>1, <2>2, IsASeq, LenProperties
<1>6. Whole = FlattenSeq(WholePieces)
  <2>1. [i \in DOMAIN given |-> IF given[i].name \in {} THEN <<>> ELSE given[i].messages]
           = WholePieces
    BY <1>2 DEF WholePieces, n
  <2>. QED BY <2>1 DEF Whole, Assemble
<1>7. Left = FlattenSeq(LeftPieces)
  <2>1. [i \in DOMAIN emitted |-> IF emitted[i].name \in dropped THEN <<>>
                                 ELSE emitted[i].messages] = LeftPieces
    BY <1>2 DEF LeftPieces, n
  <2>. QED BY <2>1 DEF Left, Assemble
<1>8. Whole \in Seq(Messages) /\ Left \in Seq(Messages)
  BY <1>4, <1>5, <1>6, <1>7, FlattenType, Zenon
<1>. QED BY <1>2, <1>3, <1>4, <1>5, <1>6, <1>7, <1>8 DEF n

\* A message of the whole prompt is told by its source and its place there.
LEMMA WholeAt ==
    ASSUME ContextShapes, NEW a, NEW i, NEW j, Holds(WholePieces, a, i, j)
    PROVE  /\ i \in 1 .. Len(given) /\ j \in 1 .. Len(given[i].messages)
           /\ a \in 1 .. Len(Whole) /\ Whole[a] = given[i].messages[j]
           /\ Whole[a].source = given[i].name /\ Whole[a].place = j
<1>1. Laid(WholePieces, Whole)
  BY Pieces, FlattenLaid, Zenon
<1>2. a \in 1 .. Len(Whole) /\ Whole[a] = WholePieces[i][j]
  BY <1>1 DEF Laid
<1>3. i \in 1 .. Len(given) /\ j \in 1 .. Len(WholePieces[i])
  BY Pieces DEF Holds
<1>4. WholePieces[i] = given[i].messages
  BY <1>3 DEF WholePieces
<1>5. Proper(given[i])
  BY <1>3 DEF ContextShapes, Fine
<1>. QED BY <1>2, <1>3, <1>4, <1>5 DEF Proper

LEMMA WholeHas ==
    ASSUME ContextShapes, NEW a \in 1 .. Len(Whole)
    PROVE  \E i, j : Holds(WholePieces, a, i, j)
<1>1. Laid(WholePieces, Whole)
  BY Pieces, FlattenLaid, Zenon
<1>. QED BY <1>1 DEF Laid

LEMMA WholeApart ==
    ASSUME ContextShapes, NEW a \in 1 .. Len(Whole), NEW b \in 1 .. Len(Whole),
           Whole[a] = Whole[b]
    PROVE  a = b
<1>1. PICK i, j : Holds(WholePieces, a, i, j)
  BY WholeHas
<1>2. PICK k, l : Holds(WholePieces, b, k, l)
  BY WholeHas
<1>3. /\ i \in 1 .. Len(given) /\ k \in 1 .. Len(given)
      /\ given[i].name = given[k].name /\ j = l
  BY <1>1, <1>2, WholeAt
<1>4. i = k
  BY <1>3 DEF ContextShapes, Fine, Apart
<1>. QED BY <1>1, <1>2, <1>3, <1>4 DEF Holds

LEMMA LeftAt ==
    ASSUME ContextShapes, NEW x \in 1 .. Len(Left)
    PROVE  \E i, j : /\ Holds(LeftPieces, x, i, j) /\ i \in 1 .. Len(given)
                     /\ Left[x].source = given[i].name
                     /\ Lost(i) => Left[x].place = 0
                     /\ ~Lost(i) => \E a \in 1 .. Len(Whole) :
                           Holds(WholePieces, a, i, j) /\ Whole[a] = Left[x]
<1>1. Laid(LeftPieces, Left)
  BY Pieces, FlattenLaid, Zenon
<1>2. PICK i, j : Holds(LeftPieces, x, i, j)
  BY <1>1 DEF Laid
<1>3. Left[x] = LeftPieces[i][j]
  BY <1>1, <1>2 DEF Laid
<1>4. i \in 1 .. Len(given) /\ j \in 1 .. Len(LeftPieces[i])
  BY <1>2, Pieces DEF Holds
<1>5. Turn(i) /\ Proper(given[i])
  BY <1>4 DEF ContextShapes, Fine
<1>6. CASE Lost(i)
  <2>1. given[i].name \notin dropped
    BY <1>4, <1>5, EmptySeq DEF LeftPieces, Turn
  <2>2. LeftPieces[i] = emitted[i].messages
    BY <1>4, <1>5, <2>1 DEF LeftPieces, Turn
  <2>3. Left[x].place = 0 /\ Left[x].source = given[i].name
    BY <1>3, <1>4, <1>5, <1>6, <2>1, <2>2 DEF Turn
  <2>. QED BY <1>2, <1>4, <1>6, <2>3
<1>7. CASE ~Lost(i)
  <2>1. LeftPieces[i] = given[i].messages
    BY <1>4, <1>5, <1>7 DEF LeftPieces, Turn
  <2>2. WholePieces[i] = given[i].messages
    BY <1>4 DEF WholePieces
  <2>. DEFINE a == Begins(WholePieces, i) + j
  <2>3. Holds(WholePieces, a, i, j)
    BY <1>4, <2>1, <2>2, Pieces DEF Holds
  <2>. HIDE DEF a
  <2>4. a \in 1 .. Len(Whole) /\ Whole[a] = given[i].messages[j]
        /\ Whole[a].source = given[i].name
    BY <2>3, WholeAt
  <2>. QED BY <1>2, <1>3, <1>4, <1>7, <2>1, <2>3, <2>4
<1>. QED BY <1>6, <1>7

\* What is left of the whole prompt is the sources that are not lost, in order.
LEMMA LeftOfWhole ==
    ASSUME ContextShapes, NEW x \in 1 .. Len(Left), NEW a \in 1 .. Len(Whole),
           Left[x] = Whole[a]
    PROVE  \E i, j : /\ Holds(LeftPieces, x, i, j) /\ Holds(WholePieces, a, i, j)
                     /\ i \in 1 .. Len(given) /\ ~Lost(i)
<1>1. PICK k, l : Holds(WholePieces, a, k, l)
  BY WholeHas
<1>2. Whole[a].place = l /\ l \in 1 .. Len(given[k].messages)
  BY <1>1, WholeAt
<1>3. Left[x].place # 0
  BY <1>2
<1>4. PICK i, j : /\ Holds(LeftPieces, x, i, j) /\ i \in 1 .. Len(given)
                  /\ Lost(i) => Left[x].place = 0
                  /\ ~Lost(i) => \E b \in 1 .. Len(Whole) :
                        Holds(WholePieces, b, i, j) /\ Whole[b] = Left[x]
  BY LeftAt, Zenon
<1>5. ~Lost(i)
  BY <1>3, <1>4
<1>6. PICK b \in 1 .. Len(Whole) : Holds(WholePieces, b, i, j) /\ Whole[b] = Left[x]
  BY <1>4, <1>5
<1>7. a = b
  BY <1>6, WholeApart
<1>. QED BY <1>4, <1>5, <1>6, <1>7

LEMMA LeftOrder ==
    ASSUME ContextShapes, NEW x \in 1 .. Len(Left), NEW y \in 1 .. Len(Left), y < x,
           NEW a \in 1 .. Len(Whole), NEW b \in 1 .. Len(Whole),
           Left[x] = Whole[a], Left[y] = Whole[b]
    PROVE  b < a
<1>1. PICK i, j : Holds(LeftPieces, x, i, j) /\ Holds(WholePieces, a, i, j)
  BY LeftOfWhole
<1>2. PICK k, l : Holds(LeftPieces, y, k, l) /\ Holds(WholePieces, b, k, l)
  BY LeftOfWhole
<1>3. k < i \/ (k = i /\ l < j)
  <2>1. y < x <=> k < i \/ (k = i /\ l < j)
    BY <1>1, <1>2, Pieces, HoldsOrder
  <2>. QED BY <2>1
<1>4. b < a <=> k < i \/ (k = i /\ l < j)
  BY <1>1, <1>2, Pieces, HoldsOrder
<1>. QED BY <1>3, <1>4

LEMMA LeftHas ==
    ASSUME ContextShapes, NEW a, NEW i, NEW j, Holds(WholePieces, a, i, j), ~Lost(i)
    PROVE  \E x \in 1 .. Len(Left) : Left[x] = Whole[a]
<1>1. i \in 1 .. Len(given) /\ j \in 1 .. Len(given[i].messages)
      /\ Whole[a] = given[i].messages[j]
  BY WholeAt
<1>2. LeftPieces[i] = given[i].messages
  BY <1>1 DEF ContextShapes, Turn, LeftPieces
<1>. DEFINE x == Begins(LeftPieces, i) + j
<1>3. Holds(LeftPieces, x, i, j)
  BY <1>1, <1>2, Pieces DEF Holds
<1>. HIDE DEF x
<1>4. Laid(LeftPieces, Left)
  BY Pieces, FlattenLaid, Zenon
<1>. QED BY <1>1, <1>2, <1>3, <1>4 DEF Laid

LEMMA LostGone ==
    ASSUME ContextShapes, NEW a, NEW i, NEW j, Holds(WholePieces, a, i, j), Lost(i),
           NEW x \in 1 .. Len(Left)
    PROVE  Left[x] # Whole[a]
<1>1. SUFFICES ASSUME Left[x] = Whole[a] PROVE FALSE
  OBVIOUS
<1>2. a \in 1 .. Len(Whole)
  BY WholeAt
<1>3. PICK k, l : Holds(WholePieces, a, k, l) /\ ~Lost(k)
  BY <1>1, <1>2, LeftOfWhole
<1>4. i = k
  BY <1>3, Pieces, HoldsOrder
<1>. QED BY <1>3, <1>4

-----------------------------------------------------------------------------
(* What a prompt may give up *)

Added     == {i \in DOMAIN Whole : Whole[i].source \notin {"recall", "agent"}}
Gone(p)   == {i \in DOMAIN Whole : Whole[i] \notin ToSet(p)}
Recent(p) == {j \in DOMAIN p : \A k \in DOMAIN p : p[k].source = "history" => k < j}

Ordered(p) == \A i \in DOMAIN p : p[i].place # 0 =>
    \E a \in DOMAIN Whole : /\ p[i] = Whole[a]
                            /\ \A j \in 1 .. i - 1, b \in DOMAIN Whole :
                                  p[j] = Whole[b] => b < a
Right(p) ==
    /\ Ordered(p)
    /\ Gone(p) # {} => ~Fits(Whole)
    /\ Gone(p) \cap Added # {} => Over(before)
    /\ \A i \in Gone(p) \cap Added : \A j \in Added : j < i => j \in Gone(p)
    /\ \A i \in Gone(p) \ Added :
          /\ Whole[i].role = "turn" /\ summarises /\ Added \subseteq Gone(p)
          /\ Cardinality(Recent(p)) >= keep

LEMMA Domains ==
    ASSUME ContextShapes
    PROVE  /\ DOMAIN Whole = 1 .. Len(Whole) /\ Len(Whole) \in Nat
           /\ DOMAIN Left = 1 .. Len(Left) /\ Len(Left) \in Nat
BY Pieces, LenProperties

\* The message is of a source that the loop may give up.
LEMMA AddedAt ==
    ASSUME ContextShapes, NEW a, NEW i, NEW j, Holds(WholePieces, a, i, j)
    PROVE  a \in Added <=> ~Untouchable(given[i])
<1>1. /\ i \in 1 .. Len(given) /\ j \in 1 .. Len(given[i].messages)
      /\ a \in DOMAIN Whole /\ Whole[a].source = given[i].name
  BY WholeAt, Domains
<1>2. Proper(given[i])
  BY <1>1 DEF ContextShapes, Fine
<1>3. given[i].messages # <<>>
  BY <1>1, EmptySeq
<1>4. given[i].pinned <=> given[i].name \in {"recall", "agent"}
  BY <1>2 DEF Proper
<1>. QED BY <1>1, <1>3, <1>4 DEF Added, Untouchable

LEMMA WholeRight == ASSUME ContextShapes PROVE Right(Whole)
<1>1. Ordered(Whole)
  <2>1. SUFFICES ASSUME NEW i \in DOMAIN Whole
                 PROVE  \A j \in 1 .. i - 1, b \in DOMAIN Whole : Whole[j] = Whole[b] => b < i
    BY DEF Ordered
  <2>2. SUFFICES ASSUME NEW j \in 1 .. i - 1, NEW b \in DOMAIN Whole, Whole[j] = Whole[b]
                 PROVE  b < i
    OBVIOUS
  <2>3. i \in 1 .. Len(Whole) /\ j \in 1 .. Len(Whole) /\ b \in 1 .. Len(Whole) /\ j < i
    BY Domains
  <2>4. j = b
    BY <2>2, <2>3, WholeApart
  <2>. QED BY <2>3, <2>4
<1>2. Gone(Whole) = {}
  BY DEF Gone, ToSet
<1>. QED BY <1>1, <1>2 DEF Right

Budgeted ==
    /\ cpc = "check" => at = 1
    /\ cpc \in {"loop", "compact"} => ~Fits(Whole)
    /\ cpc = "loop" => ~Fits(Left)
    /\ cpc = "compact" => at = Len(given) + 1 \/ Fits(Left)
    /\ \A i \in 1 .. Len(given) : Lost(i) => Over(before)

\* A message is gone from what is left when its source is lost.
LEMMA GoneAt ==
    ASSUME ContextShapes, NEW a, NEW i, NEW j, Holds(WholePieces, a, i, j)
    PROVE  a \in Gone(Left) <=> Lost(i)
<1>1. a \in DOMAIN Whole
  BY WholeAt, Domains
<1>2. CASE Lost(i)
  <2>1. \A x \in 1 .. Len(Left) : Left[x] # Whole[a]
    BY <1>2, LostGone
  <2>. QED BY <1>1, <1>2, <2>1, Domains DEF Gone, ToSet
<1>3. CASE ~Lost(i)
  <2>1. \E x \in 1 .. Len(Left) : Left[x] = Whole[a]
    BY <1>3, LeftHas
  <2>. QED BY <1>1, <1>3, <2>1, Domains DEF Gone, ToSet
<1>. QED BY <1>2, <1>3

LEMMA LeftOrdered == ASSUME ContextShapes PROVE Ordered(Left)
<1>1. SUFFICES ASSUME NEW x \in 1 .. Len(Left), Left[x].place # 0
               PROVE  \E a \in DOMAIN Whole :
                         /\ Left[x] = Whole[a]
                         /\ \A y \in 1 .. x - 1, b \in DOMAIN Whole :
                               Left[y] = Whole[b] => b < a
  BY Domains DEF Ordered
<1>2. PICK a \in 1 .. Len(Whole) : Whole[a] = Left[x]
  <2>1. PICK i, j : /\ Lost(i) => Left[x].place = 0
                    /\ ~Lost(i) => \E a \in 1 .. Len(Whole) :
                          Holds(WholePieces, a, i, j) /\ Whole[a] = Left[x]
    BY LeftAt, Zenon
  <2>. QED BY <1>1, <2>1
<1>3. ASSUME NEW y \in 1 .. x - 1, NEW b \in 1 .. Len(Whole), Left[y] = Whole[b]
      PROVE  b < a
  <2>1. y \in 1 .. Len(Left) /\ y < x
    BY Domains
  <2>. QED BY <1>2, <1>3, <2>1, LeftOrder
<1>. QED BY <1>2, <1>3, Domains

LEMMA LeftRight ==
    ASSUME ContextShapes, Budgeted, cpc = "compact"
    PROVE  Right(Left)
<1>1. Gone(Left) # {} => ~Fits(Whole)
  BY DEF Budgeted
<1>2. ASSUME NEW a \in Gone(Left)
      PROVE  \E i, j : Holds(WholePieces, a, i, j) /\ Lost(i)
  <2>1. a \in 1 .. Len(Whole)
    BY Domains DEF Gone
  <2>2. PICK i, j : Holds(WholePieces, a, i, j)
    BY <2>1, WholeHas
  <2>. QED BY <2>2, GoneAt
<1>3. ASSUME NEW a \in Gone(Left) PROVE a \in Added /\ Over(before)
  <2>1. PICK i, j : Holds(WholePieces, a, i, j) /\ Lost(i)
    BY <1>2
  <2>2. i \in 1 .. Len(given)
    BY <2>1, WholeAt
  <2>. QED BY <2>1, <2>2, AddedAt DEF Lost, Budgeted
<1>4. ASSUME NEW a \in Gone(Left) \cap Added, NEW b \in Added, b < a
      PROVE  b \in Gone(Left)
  <2>1. PICK i, j : Holds(WholePieces, a, i, j) /\ Lost(i)
    BY <1>2
  <2>2. b \in 1 .. Len(Whole)
    BY Domains DEF Added
  <2>3. PICK k, l : Holds(WholePieces, b, k, l)
    BY <2>2, WholeHas
  <2>4. k < i \/ (k = i /\ l < j)
    <3>1. b < a <=> k < i \/ (k = i /\ l < j)
      BY <2>1, <2>3, Pieces, HoldsOrder
    <3>. QED BY <1>4, <3>1
  <2>5. k < at
    <3>1. i \in 1 .. Len(given) /\ k \in 1 .. Len(given) /\ Len(given) \in Nat
      BY <2>1, <2>3, WholeAt, Pieces
    <3>2. i < at /\ at \in 1 .. Len(given) + 1
      BY <2>1 DEF Lost, ContextShapes
    <3>. HIDE DEF Holds
    <3>. QED BY <2>4, <3>1, <3>2
  <2>6. Lost(k)
    BY <2>3, <2>5, AddedAt DEF Lost
  <2>. QED BY <2>3, <2>6, GoneAt
<1>5. Gone(Left) \ Added = {}
  BY <1>3
<1>. QED BY <1>1, <1>3, <1>4, <1>5, LeftOrdered DEF Right

-----------------------------------------------------------------------------
(* Compaction *)

\* c is m with the messages of old left out, and a summary where first stood: the
\* z-th message of c is, or stands for, the f[z]-th of m.
Condensed(m, c, size, old, first, f) ==
    /\ first \in old /\ c \in Seq(Messages)
    /\ f \in [1 .. Len(c) -> 1 .. Len(m)]
    /\ \A z, y \in 1 .. Len(c) : z < y <=> f[z] < f[y]
    /\ \A z \in 1 .. Len(c) : \/ f[z] = first /\ c[z] = Summary("history", size)
                              \/ f[z] \notin old /\ c[z] = m[f[z]]
    /\ \A y \in 1 .. Len(m) : y \notin old => \E z \in 1 .. Len(c) : f[z] = y

LEMMA Condenses ==
    ASSUME NEW m \in Seq(Messages), keep \in Nat, NEW size \in Summaries,
           Droppable(m) # {}
    PROVE  \E first, f : Condensed(m, Compacted(m, size), size, Droppable(m), first, f)
<1>. DEFINE n == Len(m)
            old == Droppable(m)
            first == CHOOSE i \in old : \A j \in old : i <= j
            q(i) == IF i = first THEN <<Summary("history", size)>>
                    ELSE IF i \in old THEN <<>> ELSE <<m[i]>>
            p == [i \in 1 .. n |-> q(i)]
            c == FlattenSeq(p)
<1>1. n \in Nat /\ DOMAIN m = 1 .. n /\ \A i \in 1 .. n : m[i] \in Messages
  BY LenProperties, ElementOfSeq
<1>2. old \in SUBSET (1 .. n)
  BY <1>1 DEF Droppable
<1>3. first \in old
  <2>1. old \in SUBSET Nat
    BY <1>1, <1>2
  <2>. HIDE DEF old
  <2>2. \E i \in old : \A j \in old : i <= j
    BY <2>1, Least DEF old
  <2>. QED BY <2>2
<1>4. Compacted(m, size) = c
  <2>1. p = [i \in DOMAIN m |-> IF i = first THEN <<Summary("history", size)>>
                                ELSE IF i \in old THEN <<>> ELSE <<m[i]>>]
    BY <1>1
  <2>. HIDE DEF p
  <2>. QED BY <2>1 DEF Compacted
<1>5. Summary("history", size) \in Messages
  BY DEF Summary, Said, Messages
<1>. HIDE DEF n, old, first
<1>6. ASSUME NEW i \in 1 .. n
      PROVE  /\ q(i) \in Seq(Messages)
             /\ \/ i = first /\ Len(q(i)) = 1 /\ q(i)[1] = Summary("history", size)
                \/ i \in old /\ i # first /\ Len(q(i)) = 0
                \/ i \notin old /\ Len(q(i)) = 1 /\ q(i)[1] = m[i]
  <2>1. m[i] \in Messages
    BY <1>1
  <2>2. ASSUME NEW e \in Messages PROVE <<e>> \in Seq(Messages) /\ Len(<<e>>) = 1 /\ <<e>>[1] = e
    OBVIOUS
  <2>3. <<>> \in Seq(Messages) /\ Len(<<>>) = 0
    BY EmptySeq
  <2>. DEFINE h == Summary("history", size)
  <2>4. h \in Messages
    BY <1>5
  <2>. HIDE DEF h
  <2>5. q(i) = IF i = first THEN <<h>> ELSE IF i \in old THEN <<>> ELSE <<m[i]>>
    BY DEF h
  <2>. HIDE DEF q
  <2>6. CASE i = first
    BY <2>2, <2>4, <2>5, <2>6 DEF h
  <2>7. CASE i # first /\ i \in old
    BY <2>3, <2>5, <2>7
  <2>8. CASE i # first /\ i \notin old
    BY <2>1, <2>2, <2>5, <2>8
  <2>. QED BY <2>6, <2>7, <2>8
<1>. HIDE DEF q
<1>7. p \in Seq(Seq(Messages)) /\ Len(p) = n /\ \A i \in 1 .. n : p[i] = q(i)
  BY <1>1, <1>6, IsASeq, LenProperties
<1>. HIDE DEF p
<1>8. c \in Seq(Messages)
  BY <1>7, FlattenType, Zenon
<1>9. Laid(p, c)
  BY <1>7, FlattenLaid, Zenon
<1>. HIDE DEF c
<1>10. ASSUME NEW z \in 1 .. Len(c)
       PROVE  \E i \in 1 .. n : /\ Holds(p, z, i, 1)
                                /\ \/ i = first /\ c[z] = Summary("history", size)
                                   \/ i \notin old /\ c[z] = m[i]
  <2>1. PICK i, j : Holds(p, z, i, j)
    BY <1>9 DEF Laid
  <2>2. i \in 1 .. n /\ j \in 1 .. Len(q(i)) /\ c[z] = q(i)[j]
    <3>1. i \in 1 .. Len(p) /\ j \in 1 .. Len(p[i])
      BY <2>1 DEF Holds
    <3>2. c[z] = p[i][j]
      BY <1>9, <2>1 DEF Laid
    <3>3. i \in 1 .. n /\ p[i] = q(i)
      BY <1>7, <3>1
    <3>. QED BY <3>1, <3>2, <3>3
  <2>3. Len(q(i)) # 0 /\ (Len(q(i)) = 1 => j = 1)
    BY <2>2
  <2>. QED BY <1>6, <2>1, <2>2, <2>3
<1>. DEFINE f == [z \in 1 .. Len(c) |-> CHOOSE i \in 1 .. n : Holds(p, z, i, 1)]
<1>11. ASSUME NEW z \in 1 .. Len(c)
       PROVE  /\ f[z] \in 1 .. n /\ Holds(p, z, f[z], 1)
              /\ \/ f[z] = first /\ c[z] = Summary("history", size)
                 \/ f[z] \notin old /\ c[z] = m[f[z]]
  <2>1. PICK i \in 1 .. n : /\ Holds(p, z, i, 1)
                            /\ \/ i = first /\ c[z] = Summary("history", size)
                               \/ i \notin old /\ c[z] = m[i]
    BY <1>10
  <2>2. f[z] \in 1 .. n /\ Holds(p, z, f[z], 1)
    BY <2>1
  <2>. HIDE DEF f
  <2>3. i = f[z]
    BY <1>7, <2>1, <2>2, HoldsOrder
  <2>. QED BY <2>1, <2>2, <2>3
<1>12. f \in [1 .. Len(c) -> 1 .. n]
  BY <1>11
<1>. HIDE DEF f
<1>13. ASSUME NEW z \in 1 .. Len(c), NEW y \in 1 .. Len(c)
       PROVE  z < y <=> f[z] < f[y]
  <2>1. Holds(p, z, f[z], 1) /\ Holds(p, y, f[y], 1)
    BY <1>11
  <2>2. z < y <=> f[z] < f[y] \/ (f[z] = f[y] /\ 1 < 1)
    BY <1>7, <2>1, HoldsOrder
  <2>. QED BY <2>2
<1>14. ASSUME NEW y \in 1 .. n, y \notin old
       PROVE  \E z \in 1 .. Len(c) : f[z] = y
  <2>1. Len(q(y)) = 1
    BY <1>3, <1>6, <1>14
  <2>. DEFINE z == Begins(p, y) + 1
  <2>2. Holds(p, z, y, 1)
    <3>1. y \in 1 .. Len(p) /\ p[y] = q(y)
      BY <1>7
    <3>. HIDE DEF z
    <3>2. Len(p[y]) = 1
      BY <2>1, <3>1
    <3>3. 1 \in 1 .. Len(p[y])
      BY <3>2
    <3>. QED BY <3>1, <3>3 DEF Holds, z
  <2>. HIDE DEF z
  <2>3. z \in 1 .. Len(c)
    BY <1>9, <2>2 DEF Laid
  <2>4. Holds(p, z, f[z], 1)
    BY <1>11, <2>3
  <2>5. y = f[z]
    BY <1>7, <2>2, <2>4, HoldsOrder
  <2>. QED BY <2>3, <2>5
<1>15. Condensed(m, c, size, old, first, f)
  BY <1>3, <1>8, <1>11, <1>12, <1>13, <1>14 DEF Condensed, n
<1>. QED BY <1>4, <1>15 DEF old

\* The last messages, as many as are kept, stand behind the summary.
LEMMA KeptRecent ==
    ASSUME NEW m \in Seq(Messages), keep \in Nat, NEW c, NEW size, NEW first, NEW f,
           Condensed(m, c, size, Droppable(m), first, f),
           \A y \in 1 .. Len(m) : m[y].source # "history"
    PROVE  Cardinality(Recent(c)) >= keep
<1>. DEFINE n == Len(m)
            B == n - keep + 1 .. n
            Z == {z \in 1 .. Len(c) : f[z] \in B}
            g == [z \in Z |-> f[z]]
<1>1. n \in Nat /\ Len(c) \in Nat /\ DOMAIN c = 1 .. Len(c)
  <2>1. c \in Seq(Messages)
    BY DEF Condensed
  <2>. QED BY <2>1, LenProperties
<1>2. Droppable(m) \subseteq 1 .. n - keep /\ first \in Droppable(m)
  BY DEF Droppable, Condensed
<1>. HIDE DEF n
<1>3. first \in 1 .. n - keep /\ B \subseteq 1 .. n /\ \A y \in B : y \notin Droppable(m) /\ first < y
  <2>1. first \in 1 .. n - keep
    BY <1>2
  <2>2. B \subseteq 1 .. n
    BY <1>1, <2>1
  <2>3. ASSUME NEW y \in B PROVE y \notin Droppable(m) /\ first < y
    <3>1. y \notin 1 .. n - keep /\ first < y
      BY <1>1, <2>1
    <3>. QED BY <1>2, <3>1
  <2>. QED BY <2>1, <2>2, <2>3
<1>4. IsFiniteSet(B) /\ Cardinality(B) = keep
  <2>1. n - keep + 1 \in Int /\ n \in Int
        /\ (IF n - keep + 1 > n THEN 0 ELSE n - (n - keep + 1) + 1) = keep
    BY <1>1
  <2>. QED BY <2>1, FS_Interval
<1>. HIDE DEF B
<1>5. \A y \in B : \E z \in Z : f[z] = y
  <2>1. \A y \in 1 .. n : y \notin Droppable(m) => \E z \in 1 .. Len(c) : f[z] = y
    BY DEF Condensed, n
  <2>. QED BY <1>3, <2>1
<1>6. IsFiniteSet(Z)
  <2>1. IsFiniteSet(1 .. Len(c))
    BY <1>1, FS_Interval
  <2>. QED BY <2>1, FS_Subset
<1>7. Z \in SUBSET Recent(c)
  <2>1. SUFFICES ASSUME NEW z \in Z, NEW k \in 1 .. Len(c), c[k].source = "history"
                 PROVE  k < z
    BY <1>1 DEF Recent
  <2>2. f[k] = first
    <3>1. f[k] \in 1 .. n /\ (f[k] = first \/ c[k] = m[f[k]])
      BY DEF Condensed, n
    <3>. QED BY <2>1, <3>1 DEF n
  <2>3. f[k] < f[z]
    BY <1>3, <2>2
  <2>. QED BY <2>3 DEF Condensed
<1>8. IsFiniteSet(Recent(c))
  <2>1. IsFiniteSet(1 .. Len(c))
    BY <1>1, FS_Interval
  <2>2. Recent(c) \in SUBSET (1 .. Len(c))
    BY <1>1 DEF Recent
  <2>. QED BY <2>1, <2>2, FS_Subset
<1>9. g \in Surjection(Z, B)
  <2>1. g \in [Z -> B]
    OBVIOUS
  <2>2. \A y \in B : \E z \in Z : g[z] = y
    BY <1>5
  <2>. QED BY <2>1, <2>2 DEF Surjection
<1>. HIDE DEF g, Z
<1>10. Cardinality(B) <= Cardinality(Z)
  BY <1>6, <1>9, FS_Surjection
<1>11. Cardinality(Z) <= Cardinality(Recent(c))
  BY <1>7, <1>8, FS_Subset
<1>12. Cardinality(Z) \in Nat /\ Cardinality(Recent(c)) \in Nat
  BY <1>6, <1>8, FS_CardinalityType
<1>. QED BY <1>4, <1>10, <1>11, <1>12

LEMMA CompactedRight ==
    ASSUME ContextShapes, Budgeted, cpc = "compact", summarises, ~Fits(Left),
           NEW size \in Summaries
    PROVE  Right(Compacted(Left, size))
<1>. DEFINE c == Compacted(Left, size)
            old == Droppable(Left)
<1>1. CASE old = {}
  <2>1. c = Left
    BY <1>1 DEF Compacted
  <2>. QED BY <2>1, LeftRight
<1>2. CASE old # {}
  <2>1. Left \in Seq(Messages) /\ keep \in Nat
    BY Pieces DEF ContextShapes
  <2>2. PICK first, f : Condensed(Left, c, size, old, first, f)
    BY <1>2, <2>1, Condenses
  <2>. HIDE DEF c
  <2>3. /\ c \in Seq(Messages) /\ DOMAIN c = 1 .. Len(c) /\ Len(c) \in Nat
        /\ \A z \in 1 .. Len(c) : f[z] \in 1 .. Len(Left)
        /\ \A z, y \in 1 .. Len(c) : z < y <=> f[z] < f[y]
        /\ \A z \in 1 .. Len(c) : \/ c[z].place = 0
                                  \/ f[z] \notin old /\ c[z] = Left[f[z]]
        /\ \A y \in 1 .. Len(Left) : y \notin old => \E z \in 1 .. Len(c) : f[z] = y /\ c[z] = Left[y]
    <3>1. c \in Seq(Messages)
      BY <2>2 DEF Condensed
    <3>2. DOMAIN c = 1 .. Len(c) /\ Len(c) \in Nat
      BY <3>1, LenProperties
    <3>3. Summary("history", size).place = 0
      BY DEF Summary, Said
    <3>4. /\ \A z \in 1 .. Len(c) : f[z] \in 1 .. Len(Left)
          /\ \A z, y \in 1 .. Len(c) : z < y <=> f[z] < f[y]
          /\ \A z \in 1 .. Len(c) : \/ c[z].place = 0
                                    \/ f[z] \notin old /\ c[z] = Left[f[z]]
      BY <2>2, <3>3 DEF Condensed
    <3>5. ASSUME NEW y \in 1 .. Len(Left), y \notin old
          PROVE  \E z \in 1 .. Len(c) : f[z] = y /\ c[z] = Left[y]
      <4>1. PICK z \in 1 .. Len(c) : f[z] = y
        BY <2>2, <3>5 DEF Condensed
      <4>2. f[z] \notin old => c[z] = Left[f[z]]
        BY <2>2 DEF Condensed
      <4>. QED BY <3>5, <4>1, <4>2
    <3>. QED BY <3>1, <3>2, <3>4, <3>5
  <2>4. Ordered(c)
    <3>1. SUFFICES ASSUME NEW z \in 1 .. Len(c), c[z].place # 0
                   PROVE  \E a \in DOMAIN Whole :
                             /\ c[z] = Whole[a]
                             /\ \A y \in 1 .. z - 1, b \in DOMAIN Whole :
                                   c[y] = Whole[b] => b < a
      BY <2>3 DEF Ordered
    <3>2. c[z] = Left[f[z]] /\ f[z] \in DOMAIN Left
      BY <2>3, <3>1, Domains
    <3>3. PICK a \in DOMAIN Whole : /\ Left[f[z]] = Whole[a]
                                    /\ \A y \in 1 .. f[z] - 1, b \in DOMAIN Whole :
                                          Left[y] = Whole[b] => b < a
      BY <3>1, <3>2, LeftOrdered DEF Ordered
    <3>4. ASSUME NEW y \in 1 .. z - 1, NEW b \in DOMAIN Whole, c[y] = Whole[b]
          PROVE  b < a
      <4>1. y \in 1 .. Len(c) /\ y < z
        BY <2>3
      <4>2. c[y].place # 0
        <5>1. PICK i, j : Holds(WholePieces, b, i, j)
          BY Domains, WholeHas
        <5>2. Whole[b].place = j /\ j \in 1 .. Len(given[i].messages)
          BY <5>1, WholeAt
        <5>. QED BY <3>4, <5>2
      <4>3. c[y] = Left[f[y]] /\ f[y] \in 1 .. Len(Left) /\ f[y] < f[z] /\ f[z] \in 1 .. Len(Left)
        BY <2>3, <4>1, <4>2
      <4>4. f[y] \in 1 .. f[z] - 1
        BY <4>3, Domains
      <4>. QED BY <3>3, <3>4, <4>3, <4>4
    <3>. QED BY <3>2, <3>3, <3>4
  <2>5. Added \subseteq Gone(c)
    <3>1. SUFFICES ASSUME NEW a \in Added, NEW z \in 1 .. Len(c), c[z] = Whole[a] PROVE FALSE
      BY <2>3 DEF Gone, Added, ToSet
    <3>2. a \in 1 .. Len(Whole)
      BY Domains DEF Added
    <3>3. PICK i, j : Holds(WholePieces, a, i, j)
      BY <3>2, WholeHas
    <3>4. Whole[a].place # 0 /\ i \in 1 .. Len(given)
      BY <3>3, WholeAt
    <3>5. f[z] \in 1 .. Len(Left) /\ Left[f[z]] = Whole[a]
      BY <2>3, <3>1, <3>4
    <3>6. Lost(i)
      <4>1. at = Len(given) + 1 /\ Len(given) \in Nat
        BY Pieces DEF Budgeted
      <4>2. i < at
        BY <3>4, <4>1
      <4>. QED BY <3>3, <4>2, AddedAt DEF Lost
    <3>. QED BY <3>3, <3>5, <3>6, LostGone
  <2>6. ~Fits(Whole)
    BY DEF Budgeted
  <2>7. ASSUME NEW a \in Added PROVE Over(before)
    <3>1. a \in 1 .. Len(Whole)
      BY Domains DEF Added
    <3>2. PICK i, j : Holds(WholePieces, a, i, j)
      BY <3>1, WholeHas
    <3>3. i \in 1 .. Len(given) /\ ~Untouchable(given[i])
      BY <3>2, WholeAt, AddedAt
    <3>4. at = Len(given) + 1 /\ Len(given) \in Nat
      BY Pieces DEF Budgeted
    <3>5. Lost(i)
      BY <3>3, <3>4 DEF Lost
    <3>. QED BY <3>3, <3>5 DEF Budgeted
  <2>8. ASSUME NEW a \in Gone(c) \ Added PROVE Whole[a].role = "turn"
    <3>1. a \in 1 .. Len(Whole)
      BY Domains DEF Gone
    <3>2. PICK i, j : Holds(WholePieces, a, i, j)
      BY <3>1, WholeHas
    <3>3. ~Lost(i)
      BY <2>8, <3>2, AddedAt DEF Lost
    <3>4. PICK x \in 1 .. Len(Left) : Left[x] = Whole[a]
      BY <3>2, <3>3, LeftHas
    <3>5. x \in old
      <4>1. SUFFICES ASSUME x \notin old PROVE FALSE
        OBVIOUS
      <4>2. PICK z \in 1 .. Len(c) : c[z] = Left[x]
        BY <2>3, <4>1
      <4>3. Whole[a] \in ToSet(c)
        BY <2>3, <3>4, <4>2 DEF ToSet
      <4>. QED BY <2>8, <4>3 DEF Gone
    <3>6. Left[x].role # "system"
      BY <3>5 DEF Droppable
    <3>7. Whole[a] \in Messages
      BY <3>1, Pieces, ElementOfSeq
    <3>. QED BY <3>4, <3>6, <3>7 DEF Messages
  <2>9. Cardinality(Recent(c)) >= keep
    <3>1. \A y \in 1 .. Len(Left) : Left[y].source # "history"
      <4>1. SUFFICES ASSUME NEW y \in 1 .. Len(Left) PROVE Left[y].source # "history"
        OBVIOUS
      <4>2. PICK i : i \in 1 .. Len(given) /\ Left[y].source = given[i].name
        BY LeftAt, Zenon
      <4>. QED BY <4>2, Pieces DEF Sources
    <3>. QED BY <2>1, <2>2, <3>1, KeptRecent
  <2>10. Right(c)
    BY <2>4, <2>5, <2>6, <2>7, <2>8, <2>9 DEF Right
  <2>. QED BY <2>10 DEF c
<1>. QED BY <1>1, <1>2

-----------------------------------------------------------------------------
(* The steps *)

ContextInv == ContextShapes /\ Budgeted /\ PromptKeeps

LEMMA Same == PromptKeeps <=> (cpc = "sent" => Right(prompt))
BY DEF PromptKeeps, Right, Ordered, Gone, Added, Recent, Whole

LEMMA ContextInit == ASSUME Orders \subseteq Int, Init PROVE ContextInv
<1>1. Fine(given)
  BY GatheredFine, ByOrderFine DEF Init
<1>2. given \in Seq(Sources) /\ Len(given) \in Nat /\ DOMAIN given = 1 .. Len(given)
  BY <1>1, LenProperties DEF Fine
<1>3. emitted = given /\ at = 1 /\ dropped = {} /\ cpc = "check" /\ keep \in Nat
  BY DEF Init
<1>4. \A i \in 1 .. Len(given) : ~Lost(i)
  BY <1>3 DEF Lost
<1>5. \A i \in 1 .. Len(given) : Turn(i)
  BY <1>3, <1>4 DEF Turn
<1>6. ContextShapes
  BY <1>1, <1>2, <1>3, <1>5 DEF ContextShapes
<1>7. Budgeted
  BY <1>3, <1>4 DEF Budgeted
<1>. QED BY <1>3, <1>6, <1>7 DEF ContextInv, PromptKeeps

\* The sources as they were are no step's business.
Unmoved == /\ given' = given /\ ceiling' = ceiling /\ summarises' = summarises
           /\ keep' = keep

LEMMA SentRight ==
    ASSUME Unmoved, before' = before, cpc' = "sent" => Right(prompt')
    PROVE  PromptKeeps'
<1>1. Whole' = Whole /\ (Fits(Whole)' <=> Fits(Whole)) /\ (Over(before)' <=> Over(before))
  BY DEF Whole, Assemble, Fits, Over, Unmoved
<1>2. /\ Added' = Added /\ Gone(prompt)' = Gone(prompt')
      /\ Recent(prompt)' = Recent(prompt') /\ (Ordered(prompt)' <=> Ordered(prompt'))
  BY <1>1 DEF Added, Gone, Recent, Ordered
<1>3. Right(prompt') => Right(prompt)'
  BY <1>1, <1>2 DEF Right, Unmoved
<1>4. PromptKeeps' <=> (cpc = "sent" => Right(prompt))'
  BY Same, PTL
<1>. QED BY <1>3, <1>4

LEMMA Sent ==
    ASSUME ContextInv, Unmoved, emitted' = emitted, at' = at, dropped' = dropped,
           before' = before, cpc' \in {"sent", "asis", "stopped"},
           cpc' = "sent" => Right(prompt')
    PROVE  ContextInv'
<1>1. ContextShapes'
  <2>1. \A i \in 1 .. Len(given) : Turn(i)'
    BY DEF ContextInv, ContextShapes, Turn, Lost, Untouchable, Unmoved
  <2>. QED BY <2>1 DEF ContextInv, ContextShapes, Unmoved
<1>2. Budgeted'
  BY DEF ContextInv, Budgeted, Lost, Untouchable, Unmoved, Over
<1>3. PromptKeeps'
  BY SentRight
<1>. QED BY <1>1, <1>2, <1>3 DEF ContextInv

LEMMA CheckStep == ASSUME ContextInv, Check PROVE ContextInv'
<1>1. /\ cpc = "check" /\ Unmoved /\ emitted' = emitted /\ at' = at /\ dropped' = dropped
      /\ before' = before
  BY DEF Check, Inputs, Unmoved
<1>2. CASE Fits(Whole)
  <2>1. cpc' = "sent" /\ prompt' = Whole
    BY <1>2 DEF Check, Whole
  <2>. QED BY <1>1, <2>1, Sent, WholeRight DEF ContextInv
<1>3. CASE ~Fits(Whole)
  <2>1. cpc' = "loop"
    BY <1>3 DEF Check, Whole
  <2>2. at = 1
    BY <1>1 DEF ContextInv, Budgeted
  <2>3. \A i \in 1 .. Len(given) : ~Lost(i) /\ Turn(i)
    BY <2>2 DEF Lost, ContextInv, ContextShapes
  <2>4. LeftPieces = WholePieces
    BY <2>3 DEF LeftPieces, WholePieces, Turn
  <2>5. Left = Whole
    BY <2>4, Pieces DEF ContextInv
  <2>6. ContextShapes'
    <3>1. \A i \in 1 .. Len(given) : Turn(i)'
      BY <1>1, <2>3 DEF Turn, Lost, Untouchable, Unmoved
    <3>. QED BY <1>1, <2>1, <3>1 DEF ContextInv, ContextShapes, Unmoved
  <2>7. ~Fits(Whole)' /\ ~Fits(Left)'
    BY <1>1, <1>3, <2>5 DEF Whole, Left, Assemble, Fits, Over, Unmoved
  <2>8. \A i \in 1 .. Len(given) : ~Lost(i)'
    BY <1>1, <2>3 DEF Lost, Untouchable, Unmoved
  <2>9. Budgeted'
    BY <1>1, <2>1, <2>7, <2>8 DEF Budgeted, Unmoved
  <2>. QED BY <2>1, <2>6, <2>9 DEF ContextInv, PromptKeeps
<1>. QED BY <1>2, <1>3

LEMMA KeepStep == ASSUME ContextInv, Keep PROVE ContextInv'
<1>1. /\ cpc = "loop" /\ at <= Len(emitted) /\ Untouchable(emitted[at]) /\ at' = at + 1
      /\ Unmoved /\ emitted' = emitted /\ dropped' = dropped /\ cpc' = cpc
      /\ before' = before
  BY DEF Keep, Inputs, Unmoved
<1>2. /\ Len(given) \in Nat /\ Len(emitted) = Len(given) /\ at \in 1 .. Len(given) + 1
      /\ \A i \in 1 .. Len(given) : Turn(i)
  BY Pieces DEF ContextInv, ContextShapes
<1>3. at \in 1 .. Len(given)
  BY <1>1, <1>2
<1>4. emitted[at] = given[at]
  <2>1. ~Lost(at)
    BY <1>3 DEF Lost
  <2>. QED BY <1>2, <1>3, <2>1 DEF Turn
<1>5. ASSUME NEW i \in 1 .. Len(given) PROVE Lost(i)' <=> Lost(i)
  <2>1. i < at' <=> i < at \/ i = at
    BY <1>1, <1>2
  <2>. QED BY <1>1, <1>4, <2>1 DEF Lost, Untouchable, Unmoved
<1>6. ContextShapes'
  <2>1. \A i \in 1 .. Len(given) : Turn(i)'
    BY <1>1, <1>2, <1>5 DEF Turn, Unmoved
  <2>2. at' \in 1 .. Len(given) + 1
    BY <1>1, <1>2, <1>3
  <2>. QED BY <1>1, <2>1, <2>2 DEF ContextInv, ContextShapes, Unmoved
<1>7. ~Fits(Whole)' /\ ~Fits(Left)'
  <2>1. ~Fits(Whole) /\ ~Fits(Left)
    BY <1>1 DEF ContextInv, Budgeted
  <2>. QED BY <1>1, <2>1 DEF Whole, Left, Assemble, Fits, Over, Unmoved
<1>8. \A i \in 1 .. Len(given) : Lost(i)' => Over(before)'
  BY <1>1, <1>5 DEF ContextInv, Budgeted, Over, Unmoved
<1>9. Budgeted'
  BY <1>1, <1>7, <1>8 DEF Budgeted, Unmoved
<1>. QED BY <1>1, <1>6, <1>9 DEF ContextInv, PromptKeeps

LEMMA GiveUpStep == ASSUME ContextInv, GiveUp PROVE ContextInv'
<1>1. PICK size \in Summaries :
        /\ cpc = "loop" /\ at <= Len(emitted) /\ ~Untouchable(emitted[at])
        /\ IF summarises
           THEN /\ emitted' = [emitted EXCEPT ![at].messages = <<Summary(@[1].source, size)>>]
                /\ dropped' = dropped
           ELSE dropped' = dropped \cup {emitted[at].name} /\ emitted' = emitted
        /\ at' = at + 1 /\ before' = Tokens(Left)
        /\ cpc' = IF Fits(Assemble(emitted', dropped')) THEN "compact" ELSE "loop"
        /\ Unmoved
  BY DEF GiveUp, GivenUp, Inputs, Unmoved, Left
<1>2. /\ Len(given) \in Nat /\ Len(emitted) = Len(given) /\ at \in 1 .. Len(given) + 1
      /\ DOMAIN given = 1 .. Len(given) /\ DOMAIN emitted = 1 .. Len(given)
      /\ \A i \in 1 .. Len(given) : Turn(i) /\ Proper(given[i])
      /\ \A i, j \in 1 .. Len(given) : given[i].name = given[j].name => i = j
  BY Pieces DEF ContextInv, ContextShapes, Fine, Apart
<1>3. at \in 1 .. Len(given)
  BY <1>1, <1>2
<1>4. emitted[at] = given[at] /\ given[at].name \notin dropped
  <2>1. ~Lost(at)
    BY <1>3 DEF Lost
  <2>. QED BY <1>2, <1>3, <2>1 DEF Turn
<1>5. ASSUME NEW i \in 1 .. Len(given) PROVE Lost(i)' <=> Lost(i) \/ i = at
  <2>1. i < at' <=> i < at \/ i = at
    BY <1>1, <1>2
  <2>. QED BY <1>1, <1>4, <2>1 DEF Lost, Untouchable, Unmoved
<1>6. /\ emitted' \in Seq(Sources) /\ Len(emitted') = Len(given)
      /\ dropped' \subseteq {given[i].name : i \in DOMAIN given}
      /\ \A i \in 1 .. Len(given) : Turn(i)'
  <2>1. CASE summarises
    <3>. DEFINE m == Summary(emitted[at].messages[1].source, size)
                e == [emitted[at] EXCEPT !.messages = <<m>>]
    <3>1. emitted' = [emitted EXCEPT ![at] = e] /\ dropped' = dropped
      BY <1>1, <1>2, <1>3, <2>1
    <3>2. m \in Messages /\ m.place = 0 /\ m.source = given[at].name
      <4>1. given[at] \in Sources /\ given[at].messages # <<>>
            /\ given[at].messages \in Seq(Messages)
        BY <1>1, <1>2, <1>3, <1>4 DEF Untouchable, Proper, Sources
      <4>2. 1 \in 1 .. Len(given[at].messages)
        BY <4>1, LenProperties, EmptySeq
      <4>3. given[at].messages[1].source = given[at].name
        BY <1>2, <1>3, <4>2 DEF Proper
      <4>4. given[at].name \in {"first", "second", "recall", "agent"}
        BY <4>1 DEF Sources
      <4>. QED BY <1>4, <4>3, <4>4 DEF Summary, Said, Messages
    <3>3. e \in Sources /\ e.name = given[at].name /\ e.messages = <<m>>
      <4>1. given[at] \in Sources
        BY <1>2, <1>3 DEF Proper
      <4>. HIDE DEF m
      <4>2. <<m>> \in Seq(Messages)
        BY <3>2
      <4>. QED BY <1>4, <4>1, <4>2 DEF Sources
    <3>. HIDE DEF m, e
    <3>4. emitted' \in Seq(Sources) /\ Len(emitted') = Len(given)
      <4>1. emitted \in Seq(Sources)
        BY DEF ContextInv, ContextShapes
      <4>. QED BY <1>2, <1>3, <3>1, <3>3, <4>1, ExceptSeq
    <3>5. emitted'[at] = e /\ \A i \in 1 .. Len(given) : i # at => emitted'[i] = emitted[i]
      BY <1>2, <1>3, <3>1
    <3>6. ASSUME NEW i \in 1 .. Len(given) PROVE Turn(i)'
      <4>1. CASE i = at
        <5>1. \A x \in 1 .. Len(<<m>>) : <<m>>[x].place = 0 /\ <<m>>[x].source = given[at].name
          BY <3>2
        <5>. QED BY <1>1, <1>5, <3>3, <3>5, <4>1, <5>1 DEF Turn, Unmoved
      <4>2. CASE i # at
        BY <1>1, <1>2, <1>5, <3>1, <3>5, <4>2 DEF Turn, Unmoved
      <4>. QED BY <4>1, <4>2
    <3>. QED BY <3>1, <3>4, <3>6 DEF ContextInv, ContextShapes
  <2>2. CASE ~summarises
    <3>1. emitted' = emitted /\ dropped' = dropped \cup {given[at].name}
      BY <1>1, <1>4, <2>2
    <3>2. \A i \in 1 .. Len(given) : Turn(i)'
      <4>1. SUFFICES ASSUME NEW i \in 1 .. Len(given) PROVE Turn(i)'
        OBVIOUS
      <4>2. CASE i = at
        BY <1>1, <1>2, <1>5, <3>1, <4>2 DEF Turn, Unmoved
      <4>3. CASE i # at
        <5>1. given[i].name # given[at].name
          BY <1>2, <1>3, <4>3
        <5>. QED BY <1>1, <1>2, <1>5, <3>1, <4>3, <5>1 DEF Turn, Unmoved
      <4>. QED BY <4>2, <4>3
    <3>. QED BY <1>2, <1>3, <3>1, <3>2 DEF ContextInv, ContextShapes
  <2>. QED BY <2>1, <2>2
<1>7. ContextShapes'
  <2>1. at' \in 1 .. Len(given) + 1
    BY <1>1, <1>2, <1>3
  <2>. QED BY <1>1, <1>6, <2>1 DEF ContextInv, ContextShapes, Unmoved
<1>8. ~Fits(Whole)' /\ (Fits(Left)' <=> Fits(Assemble(emitted', dropped')))
  <2>1. ~Fits(Whole)
    BY <1>1 DEF ContextInv, Budgeted
  <2>. QED BY <1>1, <2>1 DEF Whole, Left, Assemble, Fits, Over, Unmoved
<1>9. Over(before)'
  <2>1. ~Fits(Left)
    BY <1>1 DEF ContextInv, Budgeted
  <2>. QED BY <1>1, <2>1 DEF Fits, Over, Unmoved
<1>10. Budgeted'
  BY <1>1, <1>8, <1>9 DEF Budgeted, Unmoved
<1>. QED BY <1>1, <1>7, <1>10 DEF ContextInv, PromptKeeps

LEMMA LoopEndsStep == ASSUME ContextInv, LoopEnds PROVE ContextInv'
<1>1. /\ cpc = "loop" /\ at > Len(emitted) /\ cpc' = "compact"
      /\ Unmoved /\ emitted' = emitted /\ at' = at /\ dropped' = dropped
      /\ before' = before
  BY DEF LoopEnds, Inputs, Unmoved
<1>2. at = Len(given) + 1
  <2>1. at \in 1 .. Len(given) + 1 /\ Len(emitted) = Len(given) /\ Len(given) \in Nat
    BY Pieces DEF ContextInv, ContextShapes
  <2>. QED BY <1>1, <2>1
<1>3. ContextShapes'
  <2>1. \A i \in 1 .. Len(given) : Turn(i)'
    BY <1>1 DEF ContextInv, ContextShapes, Turn, Lost, Untouchable, Unmoved
  <2>. QED BY <1>1, <2>1 DEF ContextInv, ContextShapes, Unmoved
<1>4. ~Fits(Whole)'
  <2>1. ~Fits(Whole)
    BY <1>1 DEF ContextInv, Budgeted
  <2>. QED BY <1>1, <2>1 DEF Whole, Assemble, Fits, Over, Unmoved
<1>5. \A i \in 1 .. Len(given) : Lost(i)' => Over(before)'
  BY <1>1 DEF ContextInv, Budgeted, Lost, Untouchable, Over, Unmoved
<1>6. Budgeted'
  BY <1>1, <1>2, <1>4, <1>5 DEF Budgeted, Unmoved
<1>. QED BY <1>1, <1>3, <1>6 DEF ContextInv, PromptKeeps

LEMMA CompactStep == ASSUME ContextInv, Compact PROVE ContextInv'
<1>1. /\ cpc = "compact" /\ cpc' = "sent"
      /\ IF summarises /\ ~Fits(Left)
         THEN \E size \in Summaries : prompt' = Compacted(Left, size)
         ELSE prompt' = Left
      /\ Unmoved /\ emitted' = emitted /\ at' = at /\ dropped' = dropped
      /\ before' = before
  BY DEF Compact, Inputs, Unmoved, Left
<1>2. Right(prompt')
  <2>1. CASE summarises /\ ~Fits(Left)
    <3>1. PICK size \in Summaries : prompt' = Compacted(Left, size)
      BY <1>1, <2>1
    <3>. QED BY <1>1, <2>1, <3>1, CompactedRight DEF ContextInv
  <2>2. CASE ~(summarises /\ ~Fits(Left))
    BY <1>1, <2>2, LeftRight DEF ContextInv
  <2>. QED BY <2>1, <2>2
<1>. QED BY <1>1, <1>2, Sent

LEMMA ContextStep == ContextInv /\ [Next]_contextVars => ContextInv'
<1>. SUFFICES ASSUME ContextInv, [Next]_contextVars PROVE ContextInv'
  OBVIOUS
<1>1. CASE SummaryFails
  BY <1>1, Sent DEF SummaryFails, Inputs, Unmoved
<1>2. CASE UNCHANGED contextVars
  <2>1. /\ Unmoved /\ emitted' = emitted /\ at' = at /\ dropped' = dropped
        /\ before' = before /\ cpc' = cpc /\ prompt' = prompt
    BY <1>2 DEF contextVars, Unmoved
  <2>2. ContextShapes'
    BY <2>1 DEF ContextInv, ContextShapes, Turn, Lost, Untouchable, Unmoved
  <2>3. Budgeted'
    BY <2>1 DEF ContextInv, Budgeted, Lost, Untouchable, Unmoved, Over, Fits, Whole, Left,
                Assemble
  <2>4. PromptKeeps'
    <3>1. cpc' = "sent" => Right(prompt')
      BY <2>1, Same DEF ContextInv
    <3>. QED BY <2>1, <3>1, SentRight
  <2>. QED BY <2>2, <2>3, <2>4 DEF ContextInv
<1>. QED BY <1>1, <1>2, CheckStep, KeepStep, GiveUpStep, LoopEndsStep, CompactStep DEF Next

\* Whatever ceiling, summariser and length a call has, the prompt that is sent gives
\* up only what it may, in order (context/compiler.py and context/compaction.py).
THEOREM PromptAlwaysKeeps ==
    ASSUME Orders \subseteq Int
    PROVE  Spec => []PromptKeeps
<1>1. ContextInv => PromptKeeps
  BY DEF ContextInv
<1>. QED BY <1>1, ContextInit, ContextStep, PTL DEF Spec
=============================================================================
