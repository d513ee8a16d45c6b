-------------------------- MODULE FormatterProofs --------------------------
(***************************************************************************)
(* Proofs about module Formatter, for patterns of any length; the run's    *)
(* property is stated in module MCLogger.                                  *)
(***************************************************************************)
EXTENDS MCLogger, SequenceTheorems, FiniteSetTheorems, WellFoundedInduction, TLAPS

\* Natural numbers: the smallest of a set, and induction.
LEMMA Smallest == ASSUME NEW T \in SUBSET Nat, T # {} PROVE \E n \in T : \A m \in T : n <= m
  <1>1. PICK n \in T : \A m \in T : <<m, n>> \notin OpToRel(<, Nat)
    BY NatLessThanWellFounded, WFMin
  <1>2. \A m \in T : m < n => <<m, n>> \in OpToRel(<, Nat)
    BY DEF OpToRel
  <1>3. \A m \in T : ~ m < n
    BY <1>1, <1>2
  <1>4. \A m \in T : n <= m
    BY <1>3
  <1> QED
    BY <1>4

LEMMA MinFacts == ASSUME NEW T \in SUBSET Nat, T # {} PROVE Min(T) \in T /\ \A m \in T : Min(T) <= m
  BY Smallest DEF Min

LEMMA Induction ==
    ASSUME NEW T, 0 \in T, \A n \in Nat : n \in T => n + 1 \in T
    PROVE  \A n \in Nat : n \in T
  <1> SUFFICES ASSUME Nat \ T # {} PROVE FALSE
    OBVIOUS
  <1>1. PICK n \in Nat \ T : \A m \in Nat \ T : n <= m
    BY Smallest
  <1>2. n - 1 \in Nat /\ n - 1 \in T
    BY <1>1
  <1> QED
    BY <1>1, <1>2

-----------------------------------------------------------------------------
(* The loops of init() and of Pattern *)

\* What Scan finds: the end of the name, and that of the format.
Name(p, i, h) ==
    /\ h \in (i + 1)..(Len(p) + 1)
    /\ \A n \in (i + 1)..(h - 1) : p[n] \in Letters \cup {RBrace}
    /\ h <= Len(p) => p[h] \notin Letters \cup {RBrace}
Format(p, h, c) == c \in (h + 1)..Len(p) /\ p[c] = RBrace /\ \A n \in (h + 1)..(c - 1) : p[n] # RBrace
Opened(p, h) == h <= Len(p) /\ p[h] = LBrace

LEMMA ScanFacts ==
    ASSUME NEW p, Len(p) \in Nat, NEW i \in 1..Len(p)
    PROVE  \E h : /\ Name(p, i, h) /\ Scan(p, i).str = SubSeq(p, i + 1, h - 1)
                  /\ ~ Opened(p, h) => Scan(p, i).closed /\ Scan(p, i).fmt = <<>> /\ Scan(p, i).next = h
                  /\ Opened(p, h) /\ Scan(p, i).closed =>
                        \E c : /\ Format(p, h, c) /\ Scan(p, i).fmt = SubSeq(p, h + 1, c - 1)
                               /\ Scan(p, i).next = c + 1
                  /\ Opened(p, h) /\ (\E c : Format(p, h, c)) => Scan(p, i).closed
                  /\ Scan(p, i).next \in (i + 1)..(Len(p) + 1)
  <1> DEFINE ends == {n \in (i + 1)..Len(p) : p[n] \notin Letters /\ p[n] # RBrace}
             h == IF ends = {} THEN Len(p) + 1 ELSE Min(ends)
             closing == {n \in (h + 1)..Len(p) : p[n] = RBrace}
             c == Min(closing)
  <1>1. /\ Scan(p, i).str = SubSeq(p, i + 1, h - 1)
        /\ Scan(p, i).fmt = IF Opened(p, h) /\ closing # {} THEN SubSeq(p, h + 1, c - 1) ELSE <<>>
        /\ Scan(p, i).next = IF Opened(p, h) /\ closing # {} THEN c + 1 ELSE h
        /\ Scan(p, i).closed <=> ~ Opened(p, h) \/ closing # {}
    BY DEF Scan, Opened
  <1>2. Name(p, i, h)
    <2>1. CASE ends = {}
      BY <2>1 DEF Name
    <2>2. CASE ends # {}
      <3>1. ends \in SUBSET Nat
        OBVIOUS
      <3>2. h \in ends /\ \A m \in ends : h <= m
        BY <2>2, <3>1, MinFacts
      <3>3. \A n \in (i + 1)..(h - 1) : n \notin ends
        BY <3>2
      <3> HIDE DEF h
      <3> QED
        BY <3>2, <3>3 DEF Name
    <2> QED
      BY <2>1, <2>2
  <1> HIDE DEF h
  <1>3. h \in Nat /\ h \in (i + 1)..(Len(p) + 1)
    BY <1>2 DEF Name
  <1>4. ASSUME closing # {} PROVE Format(p, h, c)
    <2>1. closing \in SUBSET Nat
      BY <1>3
    <2>2. c \in closing /\ \A m \in closing : c <= m
      BY <1>4, <2>1, MinFacts
    <2> HIDE DEF c
    <2>3. \A n \in (h + 1)..(c - 1) : n \notin closing
      BY <1>3, <2>2
    <2> QED
      BY <1>3, <2>2, <2>3 DEF Format
  <1>5. ASSUME NEW e, Format(p, h, e) PROVE closing # {}
    BY <1>5 DEF Format
  <1> HIDE DEF closing, c
  <1>6. Scan(p, i).next \in (i + 1)..(Len(p) + 1)
    BY <1>1, <1>3, <1>4 DEF Format
  <1> QED
    BY <1>1, <1>2, <1>4, <1>5, <1>6

\* One round of the loop, given what it does from later characters on.
Body(p, f, i) ==
    IF i > Len(p) THEN [items |-> <<>>, m_error |-> FALSE]
    ELSE IF Plain(p, i) THEN Found(Literal(p[i]), f[i + 1])
    ELSE IF Scan(p, i).closed /\ Scan(p, i).str \in ItemNames
    THEN Found(Item(Scan(p, i).str, Scan(p, i).fmt), f[Scan(p, i).next])
    ELSE [items |-> <<>>, m_error |-> TRUE]

LEMMA LoopIsLoop ==
    ASSUME NEW p, Len(p) \in Nat
    PROVE  \A i \in 1..(Len(p) + 2) : Loop(p)[i] = Body(p, Loop(p), i)
  <1> DEFINE D == 1..(Len(p) + 2)
             k == Len(p) + 2
             Solves(g, n) == \A i \in D : i >= n => g[i] = Body(p, g, i)
             T == {n \in Nat : n <= k - 1 => \E g : g = [i \in D |-> g[i]] /\ Solves(g, k - n)}
  <1>1. ASSUME NEW f, NEW g, NEW i \in D, \A j \in D : j > i => f[j] = g[j]
        PROVE  Body(p, f, i) = Body(p, g, i)
    <2>1. CASE i > Len(p)
      BY <2>1 DEF Body
    <2>2. CASE i <= Len(p)
      <3>1. i + 1 \in D /\ i + 1 > i
        BY <2>2
      <3>2. Scan(p, i).next \in (i + 1)..(Len(p) + 1)
        BY <2>2, ScanFacts
      <3>3. Scan(p, i).next \in D /\ Scan(p, i).next > i
        BY <2>2, <3>2
      <3>4. f[i + 1] = g[i + 1] /\ f[Scan(p, i).next] = g[Scan(p, i).next]
        BY <1>1, <3>1, <3>3
      <3> QED
        BY <3>4 DEF Body
    <2> QED
      BY <2>1, <2>2
  <1>2. 0 \in T
    <2> DEFINE g == [i \in D |-> [items |-> <<>>, m_error |-> FALSE]]
    <2>1. \A i \in D : i >= k => g[i] = Body(p, g, i)
      BY DEF Body
    <2>2. g = [i \in D |-> g[i]]
      OBVIOUS
    <2> HIDE DEF g
    <2>3. Solves(g, k - 0)
      BY <2>1
    <2> QED
      BY <2>2, <2>3
  <1>3. ASSUME NEW n \in Nat, n \in T PROVE n + 1 \in T
    <2> SUFFICES ASSUME n + 1 <= k - 1
                 PROVE  \E g : g = [i \in D |-> g[i]] /\ Solves(g, k - (n + 1))
      OBVIOUS
    <2>1. PICK f : f = [i \in D |-> f[i]] /\ Solves(f, k - n)
      BY <1>3
    <2> DEFINE m == k - (n + 1)
               b == Body(p, f, m)
               g == [i \in D |-> IF i = m THEN b ELSE f[i]]
    <2>2. m \in D /\ \A i \in D : i > m => i >= k - n /\ i # m
      OBVIOUS
    <2> HIDE DEF m, b
    <2>3. g[m] = b /\ \A j \in D : j > m => g[j] = f[j]
      BY <2>2
    <2> HIDE DEF g
    <2>4. ASSUME NEW i \in D, i >= m PROVE g[i] = Body(p, g, i)
      <3>1. \A j \in D : j > i => g[j] = f[j]
        BY <2>2, <2>3, <2>4
      <3>2. Body(p, g, i) = Body(p, f, i)
        BY <1>1, <3>1
      <3>3. CASE i = m
        BY <2>3, <3>2, <3>3 DEF b
      <3>4. CASE i # m
        BY <2>1, <2>2, <2>3, <2>4, <3>2, <3>4
      <3> QED
        BY <3>3, <3>4
    <2>5. g = [i \in D |-> g[i]]
      BY DEF g
    <2>6. Solves(g, m)
      BY <2>4
    <2> QED
      BY <2>5, <2>6 DEF m
  <1>4. k - 1 \in Nat /\ \A n \in Nat : n \in T
    <2> HIDE DEF T
    <2> QED
      BY <1>2, <1>3, Induction
  <1>5. PICK g : g = [i \in D |-> g[i]] /\ Solves(g, 1)
    BY <1>4
  <1>6. g = [i \in 1..(Len(p) + 2) |-> Body(p, g, i)]
    BY <1>5
  <1>7. Loop(p) = [i \in 1..(Len(p) + 2) |-> Body(p, Loop(p), i)]
    BY <1>6 DEF Loop, Body, Resume
  <1> HIDE DEF D
  <1> QED
    BY <1>7

\* The same for what a list of items looks like.
LEMMA PrefixesAre ==
    ASSUME NEW items, Len(items) \in Nat
    PROVE  /\ PatternUpto(items)[0] = <<>>
           /\ \A n \in 1..Len(items) : PatternUpto(items)[n] = PatternUpto(items)[n - 1] \o Written(items[n])
  <1> DEFINE D == 0..Len(items)
             Then(g, n) == IF n = 0 THEN <<>> ELSE g[n - 1] \o Written(items[n])
             Solves(g, n) == \A i \in D : i <= n => g[i] = Then(g, i)
             T == {n \in Nat : \E g : g = [i \in D |-> g[i]] /\ Solves(g, n)}
  <1>1. 0 \in T
    <2> DEFINE g == [i \in D |-> <<>>]
    <2>1. \A i \in D : i <= 0 => g[i] = Then(g, i)
      OBVIOUS
    <2>2. g = [i \in D |-> g[i]]
      OBVIOUS
    <2> HIDE DEF g
    <2> QED
      BY <2>1, <2>2
  <1>2. ASSUME NEW n \in Nat, n \in T PROVE n + 1 \in T
    <2>1. PICK f : f = [i \in D |-> f[i]] /\ Solves(f, n)
      BY <1>2
    <2> DEFINE b == f[n] \o Written(items[n + 1])
               g == [i \in D |-> IF i = n + 1 THEN b ELSE f[i]]
    <2> HIDE DEF b
    <2>2. \A i \in D : (i = n + 1 => g[i] = b) /\ (i # n + 1 => g[i] = f[i])
      OBVIOUS
    <2>3. g = [i \in D |-> g[i]]
      OBVIOUS
    <2> HIDE DEF g
    <2>4. ASSUME NEW i \in D, i <= n + 1 PROVE g[i] = Then(g, i)
      <3>1. CASE i = 0
        <4>1. 0 \in D /\ 0 <= n /\ 0 # n + 1
          OBVIOUS
        <4>2. f[0] = <<>>
          BY <2>1, <4>1
        <4> QED
          BY <2>2, <3>1, <4>1, <4>2
      <3>2. CASE i = n + 1
        <4>1. i - 1 = n /\ n \in D /\ n # n + 1 /\ i # 0
          BY <3>2
        <4> QED
          BY <2>2, <3>2, <4>1 DEF b
      <3>3. CASE i # 0 /\ i <= n
        <4>1. i - 1 \in D /\ i - 1 # n + 1 /\ i # n + 1
          BY <3>3
        <4> QED
          BY <2>1, <2>2, <3>3, <4>1
      <3> QED
        BY <2>4, <3>1, <3>2, <3>3
    <2>5. Solves(g, n + 1)
      BY <2>4
    <2> HIDE DEF Solves
    <2> QED
      BY <2>3, <2>5
  <1>3. Len(items) \in T
    <2> HIDE DEF T
    <2> QED
      BY <1>1, <1>2, Induction
  <1>4. PICK g : g = [i \in D |-> g[i]] /\ Solves(g, Len(items))
    BY <1>3
  <1>5. g = [n \in 0..Len(items) |-> IF n = 0 THEN <<>> ELSE g[n - 1] \o Written(items[n])]
    BY <1>4
  <1> DEFINE P == PatternUpto(items)
  <1>6. P = [n \in 0..Len(items) |-> IF n = 0 THEN <<>> ELSE P[n - 1] \o Written(items[n])]
    BY <1>5 DEF PatternUpto
  <1> HIDE DEF P
  <1>7. \A n \in 0..Len(items) : P[n] = IF n = 0 THEN <<>> ELSE P[n - 1] \o Written(items[n])
    BY <1>6
  <1>8. P[0] = <<>> /\ \A n \in 1..Len(items) : P[n] = P[n - 1] \o Written(items[n])
    <2>1. 0 \in 0..Len(items) /\ \A n \in 1..Len(items) : n \in 0..Len(items) /\ n # 0
      OBVIOUS
    <2> QED
      BY <1>7, <2>1
  <1> QED
    BY <1>8 DEF P

\* What the first n items look like is made of characters, and longer than what
\* fewer of them look like.
LEMMA PrefixFacts ==
    ASSUME NEW S, NEW I, NEW items \in Seq(I), \A x \in I : Written(x) \in Seq(S)
    PROVE  \A n \in 0..Len(items) : PatternUpto(items)[n] \in Seq(S)
  <1> DEFINE P == PatternUpto(items)
             T == {n \in Nat : n <= Len(items) => P[n] \in Seq(S)}
  <1>1. Len(items) \in Nat /\ \A n \in 1..Len(items) : items[n] \in I
    BY LenProperties, ElementOfSeq
  <1>2. P[0] = <<>> /\ \A n \in 1..Len(items) : P[n] = P[n - 1] \o Written(items[n])
    BY <1>1, PrefixesAre
  <1> HIDE DEF P
  <1>3. 0 \in T
    BY <1>2, EmptySeq
  <1>4. ASSUME NEW n \in Nat, n \in T PROVE n + 1 \in T
    <2> SUFFICES ASSUME n + 1 <= Len(items) PROVE P[n + 1] \in Seq(S)
      OBVIOUS
    <2>1. P[n] \in Seq(S) /\ n + 1 \in 1..Len(items) /\ (n + 1) - 1 = n
      BY <1>1, <1>4
    <2>2. P[n + 1] = P[n] \o Written(items[n + 1]) /\ Written(items[n + 1]) \in Seq(S)
      BY <1>1, <1>2, <2>1
    <2> QED
      BY <2>1, <2>2, ConcatProperties
  <1>5. \A n \in Nat : n \in T
    <2> HIDE DEF T
    <2> QED
      BY <1>3, <1>4, Induction
  <1> QED
    BY <1>1, <1>5 DEF P

LEMMA PatternOfFirst ==
    ASSUME NEW S, NEW I, NEW items \in Seq(I), \A y \in I : Written(y) \in Seq(S),
           NEW x \in I
    PROVE  Pattern(<<x>> \o items) = Written(x) \o Pattern(items)
  <1> DEFINE more == <<x>> \o items
             P == PatternUpto(items)
             Q == PatternUpto(more)
             T == {n \in Nat : n <= Len(items) => Q[n + 1] = Written(x) \o P[n]}
  <1>1. /\ Len(items) \in Nat /\ more \in Seq(I) /\ Len(more) = Len(items) + 1 /\ more[1] = x
        /\ \A n \in 1..Len(items) : more[n + 1] = items[n] /\ items[n] \in I
    <2>1. <<x>> \in Seq(I) /\ Len(<<x>>) = 1 /\ <<x>>[1] = x
      OBVIOUS
    <2>2. Len(items) \in Nat /\ \A n \in 1..Len(items) : items[n] \in I
      BY LenProperties, ElementOfSeq
    <2>3. /\ more \in Seq(I) /\ Len(more) = 1 + Len(items)
          /\ \A i \in 1..(1 + Len(items)) : more[i] = IF i <= 1 THEN <<x>>[i] ELSE items[i - 1]
      BY <2>1, ConcatProperties
    <2> HIDE DEF more
    <2> QED
      BY <2>1, <2>2, <2>3
  <1> HIDE DEF more
  <1>2. /\ P[0] = <<>> /\ \A n \in 1..Len(items) : P[n] = P[n - 1] \o Written(items[n])
        /\ \A n \in 0..Len(items) : P[n] \in Seq(S)
    BY <1>1, PrefixesAre, PrefixFacts
  <1>3. Q[0] = <<>> /\ \A n \in 1..Len(more) : Q[n] = Q[n - 1] \o Written(more[n])
    <2>1. Len(more) \in Nat
      BY <1>1
    <2> QED
      BY <2>1, PrefixesAre
  <1> HIDE DEF P, Q
  <1>4. 0 \in T
    <2>1. 1 \in 1..Len(more) /\ 1 - 1 = 0 /\ 0 + 1 = 1
      BY <1>1
    <2>2. Q[1] = <<>> \o Written(x)
      BY <1>1, <1>3, <2>1
    <2>3. Q[1] = Written(x) \o <<>>
      BY <2>2, ConcatEmptySeq
    <2> QED
      BY <1>2, <2>1, <2>3
  <1>5. ASSUME NEW n \in Nat, n \in T PROVE n + 1 \in T
    <2> SUFFICES ASSUME n + 1 <= Len(items) PROVE Q[(n + 1) + 1] = Written(x) \o P[n + 1]
      OBVIOUS
    <2>1. /\ n + 1 \in 1..Len(items) /\ (n + 1) + 1 \in 1..Len(more)
          /\ ((n + 1) + 1) - 1 = n + 1 /\ (n + 1) - 1 = n /\ n \in 0..Len(items)
      BY <1>1
    <2>2. Q[n + 1] = Written(x) \o P[n]
      <3>1. n <= Len(items)
        BY <1>1
      <3> QED
        BY <1>5, <3>1
    <2>3. Q[(n + 1) + 1] = (Written(x) \o P[n]) \o Written(items[n + 1])
      BY <1>1, <1>3, <2>1, <2>2
    <2>4. P[n] \in Seq(S) /\ Written(items[n + 1]) \in Seq(S) /\ Written(x) \in Seq(S)
      BY <1>1, <1>2, <2>1
    <2>5. (Written(x) \o P[n]) \o Written(items[n + 1]) = Written(x) \o (P[n] \o Written(items[n + 1]))
      <3>1. \A a, b, c \in Seq(S) : (a \o b) \o c = a \o (b \o c)
        <4> SUFFICES ASSUME NEW a \in Seq(S), NEW b \in Seq(S), NEW c \in Seq(S)
                     PROVE  (a \o b) \o c = a \o (b \o c)
          OBVIOUS
        <4> QED
          BY SMTT(60)
      <3> QED
        BY <2>4, <3>1, Zenon
    <2>6. P[n + 1] = P[n] \o Written(items[n + 1])
      BY <1>2, <2>1
    <2> QED
      BY <2>3, <2>5, <2>6
  <1>6. Len(items) \in T
    <2> HIDE DEF T
    <2> QED
      BY <1>1, <1>4, <1>5, Induction
  <1>7. Q[Len(items) + 1] = Written(x) \o P[Len(items)]
    BY <1>1, <1>6
  <1> QED
    BY <1>1, <1>7 DEF Pattern, more, P, Q

LEMMA PatternOfNone == Pattern(<<>>) = <<>>
  <1>1. Len(<<>>) = 0
    OBVIOUS
  <1>2. PatternUpto(<<>>)[0] = <<>>
    BY <1>1, PrefixesAre
  <1> QED
    BY <1>1, <1>2 DEF Pattern

-----------------------------------------------------------------------------
(* Nothing is lost *)

\* All items that are written with characters of C.
Items(C) == {Literal(c) : c \in C} \cup {Item(name, f) : name \in Seq(C), f \in Seq(C)}

LEMMA WrittenItem ==
    ASSUME NEW name, NEW f
    PROVE  /\ f = <<>> => Written(Item(name, f)) = (<<Percent>> \o name) \o <<>>
           /\ f # <<>> => Written(Item(name, f)) = (<<Percent>> \o name) \o ((<<LBrace>> \o f) \o <<RBrace>>)
  <1> DEFINE x == Item(name, f)
  <1>1. x.type # 0 /\ x.str = name /\ x.fmt = f
    BY DEF Item
  <1> HIDE DEF x
  <1>2. /\ f = <<>> => Written(x) = (<<Percent>> \o name) \o <<>>
        /\ f # <<>> => Written(x) = (<<Percent>> \o name) \o ((<<LBrace>> \o f) \o <<RBrace>>)
    BY <1>1, Zenon DEF Written
  <1> QED
    BY <1>2 DEF x

LEMMA ItemsWritten ==
    ASSUME NEW C, Percent \in C, LBrace \in C, RBrace \in C
    PROVE  \A x \in Items(C) : Written(x) \in Seq(C)
  <1> SUFFICES ASSUME NEW x \in Items(C) PROVE Written(x) \in Seq(C)
    OBVIOUS
  <1>1. ASSUME NEW c \in C, x = Literal(c) PROVE Written(x) \in Seq(C)
    BY <1>1 DEF Literal, Written
  <1>2. ASSUME NEW name \in Seq(C), NEW f \in Seq(C), x = Item(name, f) PROVE Written(x) \in Seq(C)
    <2>1. <<Percent>> \in Seq(C) /\ <<LBrace>> \in Seq(C) /\ <<RBrace>> \in Seq(C) /\ <<>> \in Seq(C)
      OBVIOUS
    <2>2. <<Percent>> \o name \in Seq(C) /\ (<<LBrace>> \o f) \o <<RBrace>> \in Seq(C)
      BY <2>1, ConcatProperties
    <2>3. \/ Written(x) = (<<Percent>> \o name) \o <<>>
          \/ Written(x) = (<<Percent>> \o name) \o ((<<LBrace>> \o f) \o <<RBrace>>)
      BY <1>2, WrittenItem
    <2> QED
      BY <2>1, <2>2, <2>3, ConcatProperties
  <1> QED
    BY <1>1, <1>2 DEF Items

\* What init() takes for an item is written as it was.
LEMMA ItemAsWritten ==
    ASSUME NEW C, NEW p \in Seq(C), NEW i \in 1..Len(p), p[i] = Percent, Scan(p, i).closed,
           \A n \in 1..(Len(p) - 1) : <<p[n], p[n + 1]>> # <<LBrace, RBrace>>
    PROVE  LET s == Scan(p, i)
           IN  s.str \in Seq(C) /\ s.fmt \in Seq(C) /\ Written(Item(s.str, s.fmt)) = SubSeq(p, i, s.next - 1)
  <1> DEFINE s == Scan(p, i)
  <1>1. Len(p) \in Nat
    BY LenProperties
  <1>2. PICK h : /\ Name(p, i, h) /\ s.str = SubSeq(p, i + 1, h - 1)
                 /\ ~ Opened(p, h) => s.closed /\ s.fmt = <<>> /\ s.next = h
                 /\ Opened(p, h) /\ s.closed =>
                       \E c : Format(p, h, c) /\ s.fmt = SubSeq(p, h + 1, c - 1) /\ s.next = c + 1
    BY <1>1, ScanFacts
  <1>3. h \in Nat /\ h >= i + 1 /\ h <= Len(p) + 1
    BY <1>1, <1>2 DEF Name
  <1>4. /\ s.str \in Seq(C)
        /\ <<Percent>> \o s.str = SubSeq(p, i, h - 1)
    <2>1. i \in 1..Len(p) /\ h - 1 \in i..Len(p)
      BY <1>1, <1>3
    <2>2. SubSeq(p, i, h - 1) = <<p[i]>> \o SubSeq(p, i + 1, h - 1)
      BY <2>1, SubSeqRecursiveFirst
    <2>3. SubSeq(p, i + 1, h - 1) \in Seq(C)
      <3>1. \A n \in (i + 1)..(h - 1) : p[n] \in C
        BY <1>1, <1>3, ElementOfSeq
      <3>2. i + 1 \in Int /\ h - 1 \in Int
        BY <1>1, <1>3
      <3> QED
        BY <3>1, <3>2, SubSeqProperties
    <2> QED
      BY <1>2, <2>2, <2>3
  <1> DEFINE x == Item(s.str, s.fmt)
             a == <<Percent>> \o s.str
  <1>5. /\ s.fmt = <<>> => Written(x) = a \o <<>>
        /\ s.fmt # <<>> => Written(x) = a \o ((<<LBrace>> \o s.fmt) \o <<RBrace>>)
    BY WrittenItem
  <1>6. a \in Seq(C)
    <2>1. <<Percent>> \in Seq(C)
      BY <1>1, ElementOfSeq
    <2> QED
      BY <1>4, <2>1, ConcatProperties
  <1> HIDE DEF s, x, a
  <1>7. CASE ~ Opened(p, h)
    <2>1. s.fmt = <<>> /\ s.next = h
      BY <1>2, <1>7
    <2>2. Written(x) = a \o <<>>
      BY <1>5, <2>1
    <2>3. Written(x) = a
      BY <1>6, <2>2, ConcatEmptySeq
    <2>4. s.fmt \in Seq(C)
      BY <2>1
    <2> QED
      BY <1>4, <2>1, <2>3, <2>4 DEF s, x, a
  <1>8. CASE Opened(p, h)
    <2>1. PICK c : Format(p, h, c) /\ s.fmt = SubSeq(p, h + 1, c - 1) /\ s.next = c + 1
      BY <1>2, <1>8 DEF s
    <2>2. /\ c \in Nat /\ c >= h + 1 /\ c <= Len(p) /\ h <= Len(p)
          /\ p[c] = RBrace /\ p[h] = LBrace
      BY <1>1, <1>3, <1>8, <2>1 DEF Format, Opened
    <2>3. c # h + 1
      <3> SUFFICES ASSUME c = h + 1 PROVE FALSE
        OBVIOUS
      <3>1. h \in 1..(Len(p) - 1)
        BY <1>1, <1>3, <2>2
      <3>2. <<p[h], p[h + 1]>> = <<LBrace, RBrace>>
        BY <2>2
      <3> QED
        BY <3>1, <3>2
    <2>4. s.fmt \in Seq(C) /\ Len(s.fmt) = c - h - 1
      <3>1. \A n \in (h + 1)..(c - 1) : p[n] \in C
        BY <1>1, <1>3, <2>2, ElementOfSeq
      <3>2. h + 1 \in Int /\ c - 1 \in Int /\ h + 1 <= c - 1
        BY <1>1, <1>3, <2>2, <2>3
      <3>3. /\ SubSeq(p, h + 1, c - 1) \in Seq(C)
            /\ Len(SubSeq(p, h + 1, c - 1)) = (c - 1) - (h + 1) + 1
        BY <3>1, <3>2, SubSeqProperties
      <3> QED
        BY <1>3, <2>1, <2>2, <3>3
    <2>5. s.fmt # <<>>
      <3>1. Len(s.fmt) > 0
        BY <1>3, <2>2, <2>3, <2>4
      <3> QED
        BY <3>1
    <2>6. <<LBrace>> \o s.fmt = SubSeq(p, h, c - 1)
      <3>1. h \in 1..Len(p) /\ c - 1 \in h..Len(p)
        BY <1>1, <1>3, <2>2
      <3>2. SubSeq(p, h, c - 1) = <<p[h]>> \o SubSeq(p, h + 1, c - 1)
        BY <3>1, SubSeqRecursiveFirst
      <3> QED
        BY <2>1, <2>2, <3>2
    <2>7. SubSeq(p, h, c - 1) \o <<RBrace>> = SubSeq(p, h, c)
      <3>1. h \in 1..Len(p) /\ c \in h..Len(p)
        BY <1>1, <1>3, <2>2
      <3>2. SubSeq(p, h, c) = SubSeq(p, h, c - 1) \o <<p[c]>>
        BY <3>1, SubSeqRecursiveSecond
      <3> QED
        BY <2>2, <3>2
    <2>8. SubSeq(p, i, h - 1) \o SubSeq(p, h, c) = SubSeq(p, i, c)
      <3>1. i \in 1..(Len(p) + 1) /\ h - 1 \in (i - 1)..Len(p) /\ c \in (h - 1)..Len(p) /\ (h - 1) + 1 = h
        BY <1>1, <1>3, <2>2
      <3> DEFINE k == h - 1
      <3>2. k \in (i - 1)..Len(p) /\ c \in k..Len(p) /\ k + 1 = h
        BY <3>1
      <3> HIDE DEF k
      <3>3. SubSeq(p, i, k) \o SubSeq(p, k + 1, c) = SubSeq(p, i, c)
        BY <3>1, <3>2, ConcatAdjacentSubSeq
      <3> QED
        BY <3>2, <3>3 DEF k
    <2>9. Written(x) = SubSeq(p, i, c)
      <3>1. Written(x) = a \o ((<<LBrace>> \o s.fmt) \o <<RBrace>>)
        BY <1>5, <2>5
      <3>2. a = SubSeq(p, i, h - 1)
        BY <1>4 DEF a, s
      <3> QED
        BY <2>6, <2>7, <2>8, <3>1, <3>2
    <2>10. s.next - 1 = c
      BY <2>1, <2>2
    <2> QED
      BY <1>4, <2>4, <2>9, <2>10 DEF s, x
  <1> QED
    BY <1>7, <1>8

\* Of a pattern that is accepted nothing is lost, in whatever order its items,
\* formats, "%%" and other characters come: init() goes on exactly behind what it
\* has put into an item.
THEOREM FormatterKeeps == ASSUME NEW S, NEW p \in Seq(S) PROVE Kept(p)
  <1> DEFINE C == S \cup {Percent, LBrace, RBrace}
             I == Items(C)
             N == Len(p)
             F == Loop(p)
             Rest(i) == ~ F[i].m_error => F[i].items \in Seq(I) /\ Pattern(F[i].items) = SubSeq(p, i, N)
             T == {n \in Nat : \A i \in 1..(N + 1) : i + n >= N + 1 => Rest(i)}
  <1>1. N \in Nat /\ p \in Seq(C) /\ \A i \in 1..N : p[i] \in C
    <2>1. p \in Seq(C)
      BY SeqMonotonic
    <2> HIDE DEF C
    <2> QED
      BY <2>1, LenProperties, ElementOfSeq
  <1>2. \A x \in I : Written(x) \in Seq(C)
    BY ItemsWritten
  <1>3. \A c \in C : Literal(c) \in I
    BY DEF Items
  <1>4. \A name, f \in Seq(C) : Item(name, f) \in I
    BY DEF Items
  <1>5. \A i \in 1..(N + 1) : F[i] = Body(p, F, i)
    BY <1>1, LoopIsLoop
  <1> HIDE DEF C, I, F
  <1> SUFFICES ASSUME \A n \in 1..(N - 1) : <<p[n], p[n + 1]>> # <<LBrace, RBrace>>, ~ F[1].m_error
               PROVE  Pattern(F[1].items) = p
    BY DEF Kept, isError, init, F
  <1>6. Rest(N + 1)
    <2>1. F[N + 1] = [items |-> <<>>, m_error |-> FALSE]
      BY <1>1, <1>5 DEF Body
    <2>2. SubSeq(p, N + 1, N) = <<>>
      BY <1>1, SubSeqEmpty
    <2>3. F[N + 1].items = <<>> /\ <<>> \in Seq(I)
      BY <2>1
    <2>4. Pattern(F[N + 1].items) = SubSeq(p, N + 1, N)
      BY <2>2, <2>3, PatternOfNone, Zenon
    <2> QED
      BY <2>3, <2>4, Zenon
  <1>7. ASSUME NEW i \in 1..N, NEW j \in (i + 1)..(N + 1), Rest(j), NEW x \in I, F[i] = Found(x, F[j]),
               Written(x) = SubSeq(p, i, j - 1)
        PROVE  Rest(i)
    <2> SUFFICES ASSUME ~ F[i].m_error
                 PROVE  F[i].items \in Seq(I) /\ Pattern(F[i].items) = SubSeq(p, i, N)
      OBVIOUS
    <2> DEFINE rest == F[j].items
    <2>1. F[i].m_error = F[j].m_error /\ F[i].items = <<x>> \o rest
      BY <1>7 DEF Found
    <2>2. rest \in Seq(I) /\ Pattern(rest) = SubSeq(p, j, N)
      BY <1>7, <2>1
    <2> HIDE DEF rest
    <2>3. <<x>> \o rest \in Seq(I)
      BY <2>2
    <2>4. Pattern(<<x>> \o rest) = Written(x) \o Pattern(rest)
      BY <1>2, <2>2, PatternOfFirst
    <2>5. SubSeq(p, i, j - 1) \o SubSeq(p, j, N) = SubSeq(p, i, N)
      <3> DEFINE k == j - 1
      <3>1. i \in 1..(N + 1) /\ k \in (i - 1)..N /\ N \in k..N /\ k + 1 = j
        BY <1>1
      <3> HIDE DEF k
      <3>2. SubSeq(p, i, k) \o SubSeq(p, k + 1, N) = SubSeq(p, i, N)
        BY <1>1, <3>1, ConcatAdjacentSubSeq
      <3> QED
        BY <3>1, <3>2 DEF k
    <2>6. Pattern(<<x>> \o rest) = SubSeq(p, i, N)
      BY <1>7, <2>2, <2>4, <2>5, Zenon
    <2> QED
      BY <2>1, <2>3, <2>6, Zenon
  <1>8. ASSUME NEW i \in 1..N, \A j \in (i + 1)..(N + 1) : Rest(j) PROVE Rest(i)
    <2>0. i \in 1..(N + 1) /\ ~ i > N /\ i + 1 \in (i + 1)..(N + 1)
      BY <1>1
    <2>1. CASE Plain(p, i)
      <3>1. F[i] = Found(Literal(p[i]), F[i + 1])
        BY <1>5, <2>0, <2>1 DEF Body
      <3>2. Literal(p[i]) \in I
        BY <1>1, <1>3
      <3>3. Written(Literal(p[i])) = SubSeq(p, i, (i + 1) - 1)
        <4>1. i \in 1..N /\ i \in i..N /\ (i + 1) - 1 = i
          BY <1>1
        <4>2. SubSeq(p, i, i) = <<p[i]>> \o SubSeq(p, i + 1, i)
          BY <1>1, <4>1, SubSeqRecursiveFirst
        <4>3. SubSeq(p, i + 1, i) = <<>>
          BY <1>1, SubSeqEmpty
        <4>4. Written(Literal(p[i])) = <<p[i]>>
          BY DEF Written, Literal
        <4> QED
          BY <1>1, <4>1, <4>2, <4>3, <4>4
      <3> QED
        BY <1>7, <1>8, <2>0, <3>1, <3>2, <3>3
    <2>2. CASE ~ Plain(p, i) /\ Scan(p, i).closed /\ Scan(p, i).str \in ItemNames
      <3> DEFINE s == Scan(p, i)
                 x == Item(s.str, s.fmt)
      <3>1. F[i] = Found(x, F[s.next])
        BY <1>5, <2>0, <2>2 DEF Body
      <3>2. s.next \in (i + 1)..(N + 1)
        BY <1>1, ScanFacts
      <3>3. p[i] = Percent
        BY <2>2 DEF Plain
      <3>4. s.str \in Seq(C) /\ s.fmt \in Seq(C) /\ Written(x) = SubSeq(p, i, s.next - 1)
        BY <1>1, <2>2, <3>3, ItemAsWritten
      <3>5. x \in I
        BY <1>4, <3>4
      <3> HIDE DEF s, x
      <3> QED
        BY <1>7, <1>8, <3>1, <3>2, <3>4, <3>5
    <2>3. CASE ~ Plain(p, i) /\ ~ (Scan(p, i).closed /\ Scan(p, i).str \in ItemNames)
      <3>1. F[i] = [items |-> <<>>, m_error |-> TRUE]
        BY <1>5, <2>0, <2>3 DEF Body
      <3> QED
        BY <3>1
    <2> QED
      BY <2>1, <2>2, <2>3
  <1> HIDE DEF Rest
  <1>9. 0 \in T
    <2>1. \A i \in 1..(N + 1) : i + 0 >= N + 1 => i = N + 1
      BY <1>1
    <2> QED
      BY <1>6, <2>1
  <1>10. ASSUME NEW n \in Nat, n \in T PROVE n + 1 \in T
    <2> SUFFICES ASSUME NEW i \in 1..(N + 1), i + (n + 1) >= N + 1 PROVE Rest(i)
      OBVIOUS
    <2>1. CASE i + n >= N + 1
      BY <1>10, <2>1
    <2>2. CASE ~ i + n >= N + 1
      <3>1. i \in 1..N /\ \A j \in (i + 1)..(N + 1) : j \in 1..(N + 1) /\ j + n >= N + 1
        BY <1>1, <2>2
      <3> QED
        BY <1>8, <1>10, <3>1
    <2> QED
      BY <2>1, <2>2
  <1>11. N \in T
    <2> HIDE DEF T
    <2> QED
      BY <1>1, <1>9, <1>10, Induction
  <1>12. Rest(1)
    <2>1. 1 \in 1..(N + 1) /\ 1 + N >= N + 1
      BY <1>1
    <2> QED
      BY <1>11, <2>1
  <1>13. SubSeq(p, 1, N) = p
    BY <1>1, SubSeqFull
  <1> QED
    BY <1>12, <1>13 DEF Rest

-----------------------------------------------------------------------------
(* What items make is accepted *)

\* There is one end of a name and one end of a format.
LEMMA ScanIs ==
    ASSUME NEW p, Len(p) \in Nat, NEW i \in 1..Len(p), NEW h, Name(p, i, h)
    PROVE  /\ Scan(p, i).str = SubSeq(p, i + 1, h - 1)
           /\ ~ Opened(p, h) => Scan(p, i).closed /\ Scan(p, i).fmt = <<>> /\ Scan(p, i).next = h
           /\ Opened(p, h) => \A c : Format(p, h, c) =>
                 Scan(p, i).closed /\ Scan(p, i).fmt = SubSeq(p, h + 1, c - 1) /\ Scan(p, i).next = c + 1
  <1> DEFINE s == Scan(p, i)
  <1>1. PICK g : /\ Name(p, i, g) /\ s.str = SubSeq(p, i + 1, g - 1)
                 /\ ~ Opened(p, g) => s.closed /\ s.fmt = <<>> /\ s.next = g
                 /\ Opened(p, g) /\ s.closed =>
                       \E c : Format(p, g, c) /\ s.fmt = SubSeq(p, g + 1, c - 1) /\ s.next = c + 1
                 /\ Opened(p, g) /\ (\E c : Format(p, g, c)) => s.closed
    BY ScanFacts
  <1> HIDE DEF s
  <1>2. g = h
    <2>1. g \in Nat /\ h \in Nat /\ g \in (i + 1)..(Len(p) + 1) /\ h \in (i + 1)..(Len(p) + 1)
      BY <1>1 DEF Name
    <2>2. ~ g < h
      <3> SUFFICES ASSUME g < h PROVE FALSE
        OBVIOUS
      <3>1. g \in (i + 1)..(h - 1) /\ g <= Len(p)
        BY <2>1
      <3> QED
        BY <1>1, <3>1 DEF Name
    <2>3. ~ h < g
      <3> SUFFICES ASSUME h < g PROVE FALSE
        OBVIOUS
      <3>1. h \in (i + 1)..(g - 1) /\ h <= Len(p)
        BY <2>1
      <3> QED
        BY <1>1, <3>1 DEF Name
    <2> QED
      BY <2>1, <2>2, <2>3
  <1>3. ASSUME NEW c, NEW d, Format(p, h, c), Format(p, h, d) PROVE c = d
    <2>1. h \in Nat
      BY DEF Name
    <2>2. c \in Nat /\ d \in Nat /\ c \in (h + 1)..Len(p) /\ d \in (h + 1)..Len(p) /\ p[c] = RBrace /\ p[d] = RBrace
      BY <1>3, <2>1 DEF Format
    <2>3. ~ c < d
      <3> SUFFICES ASSUME c < d PROVE FALSE
        OBVIOUS
      <3>1. c \in (h + 1)..(d - 1)
        BY <2>1, <2>2
      <3> QED
        BY <1>3, <2>2, <3>1 DEF Format
    <2>4. ~ d < c
      <3> SUFFICES ASSUME d < c PROVE FALSE
        OBVIOUS
      <3>1. d \in (h + 1)..(c - 1)
        BY <2>1, <2>2
      <3> QED
        BY <1>3, <2>2, <3>1 DEF Format
    <2> QED
      BY <2>2, <2>3, <2>4
  <1>4. ASSUME Opened(p, h), NEW c, Format(p, h, c)
        PROVE  s.closed /\ s.fmt = SubSeq(p, h + 1, c - 1) /\ s.next = c + 1
    <2>1. s.closed
      BY <1>1, <1>2, <1>4
    <2>2. PICK d : Format(p, h, d) /\ s.fmt = SubSeq(p, h + 1, d - 1) /\ s.next = d + 1
      BY <1>1, <1>2, <1>4, <2>1
    <2>3. d = c
      BY <1>3, <1>4, <2>2
    <2> QED
      BY <2>1, <2>2, <2>3
  <1> QED
    BY <1>1, <1>2, <1>4 DEF s

\* An item's characters.
LEMMA ItemCharacters ==
    ASSUME NEW C, Percent \in C, LBrace \in C, RBrace \in C, NEW name \in Seq(C), NEW f \in Seq(C),
           NEW w, w = Written(Item(name, f))
    PROVE  LET k == Len(name)
           IN  /\ w \in Seq(C) /\ Len(w) >= k + 1 /\ w[1] = Percent /\ \A i \in 1..k : w[i + 1] = name[i]
               /\ f = <<>> => Len(w) = k + 1
               /\ f # <<>> => /\ Len(w) = k + Len(f) + 3 /\ w[k + 2] = LBrace /\ w[k + Len(f) + 3] = RBrace
                              /\ \A i \in 1..Len(f) : w[k + 2 + i] = f[i]
  <1> DEFINE k == Len(name)
             a == <<Percent>> \o name
             b == <<LBrace>> \o f
             c == b \o <<RBrace>>
  <1>1. /\ <<Percent>> \in Seq(C) /\ <<LBrace>> \in Seq(C) /\ <<RBrace>> \in Seq(C)
        /\ Len(<<Percent>>) = 1 /\ Len(<<LBrace>>) = 1 /\ Len(<<RBrace>>) = 1
        /\ <<Percent>>[1] = Percent /\ <<LBrace>>[1] = LBrace /\ <<RBrace>>[1] = RBrace
        /\ k \in Nat /\ Len(f) \in Nat
    BY LenProperties
  <1>2. a \in Seq(C) /\ Len(a) = k + 1 /\ a[1] = Percent /\ \A i \in 1..k : a[i + 1] = name[i]
    <2>1. /\ a \in Seq(C) /\ Len(a) = 1 + k
          /\ \A i \in 1..(1 + k) : a[i] = IF i <= 1 THEN <<Percent>>[i] ELSE name[i - 1]
      BY <1>1, ConcatProperties
    <2> HIDE DEF a, k
    <2> QED
      BY <1>1, <2>1
  <1>3. b \in Seq(C) /\ Len(b) = Len(f) + 1 /\ b[1] = LBrace /\ \A i \in 1..Len(f) : b[i + 1] = f[i]
    <2>1. /\ b \in Seq(C) /\ Len(b) = 1 + Len(f)
          /\ \A i \in 1..(1 + Len(f)) : b[i] = IF i <= 1 THEN <<LBrace>>[i] ELSE f[i - 1]
      BY <1>1, ConcatProperties
    <2> HIDE DEF b
    <2> QED
      BY <1>1, <2>1
  <1> HIDE DEF a, b
  <1>4. /\ c \in Seq(C) /\ Len(c) = Len(f) + 2 /\ c[1] = LBrace /\ c[Len(f) + 2] = RBrace
        /\ \A i \in 1..Len(f) : c[i + 1] = f[i]
    <2>1. /\ c \in Seq(C) /\ Len(c) = Len(b) + 1
          /\ \A i \in 1..(Len(b) + 1) : c[i] = IF i <= Len(b) THEN b[i] ELSE <<RBrace>>[i - Len(b)]
      BY <1>1, <1>3, ConcatProperties
    <2> HIDE DEF c
    <2> QED
      BY <1>1, <1>3, <2>1
  <1> HIDE DEF c
  <1>5. (f = <<>> => w = a \o <<>>) /\ (f # <<>> => w = a \o c)
    BY WrittenItem DEF a, b, c
  <1> HIDE DEF k
  <1>6. CASE f = <<>>
    <2>1. w = a
      BY <1>2, <1>5, <1>6, ConcatEmptySeq
    <2> QED
      BY <1>1, <1>2, <1>6, <2>1 DEF k
  <1>7. CASE f # <<>>
    <2>1. /\ a \o c \in Seq(C) /\ Len(a \o c) = Len(a) + Len(c)
          /\ \A i \in 1..(Len(a) + Len(c)) : (a \o c)[i] = IF i <= Len(a) THEN a[i] ELSE c[i - Len(a)]
      BY <1>2, <1>4, ConcatProperties
    <2>2. /\ w \in Seq(C) /\ Len(w) = k + Len(f) + 3
          /\ \A i \in 1..(k + Len(f) + 3) : w[i] = IF i <= k + 1 THEN a[i] ELSE c[i - (k + 1)]
      <3>1. w = a \o c
        BY <1>5, <1>7
      <3>2. Len(a) = k + 1 /\ Len(a) + Len(c) = k + Len(f) + 3
        BY <1>1, <1>2, <1>4
      <3> DEFINE u == Len(a)
                 v == Len(a) + Len(c)
      <3>3. /\ w \in Seq(C) /\ Len(w) = v
            /\ \A i \in 1..v : w[i] = IF i <= u THEN a[i] ELSE c[i - u]
        BY <2>1, <3>1, Zenon
      <3>4. u = k + 1 /\ v = k + Len(f) + 3
        BY <3>2
      <3> HIDE DEF u, v
      <3> QED
        BY <3>3, <3>4, Zenon
    <2>3. w[1] = Percent /\ \A i \in 1..k : w[i + 1] = name[i]
      BY <1>1, <1>2, <2>2
    <2>4. w[k + 2] = c[1] /\ w[k + Len(f) + 3] = c[Len(f) + 2]
      <3>1. k + 2 \in 1..(k + Len(f) + 3) /\ ~ k + 2 <= k + 1 /\ (k + 2) - (k + 1) = 1
        BY <1>1
      <3>2. /\ k + Len(f) + 3 \in 1..(k + Len(f) + 3) /\ ~ k + Len(f) + 3 <= k + 1
            /\ (k + Len(f) + 3) - (k + 1) = Len(f) + 2
        BY <1>1
      <3> QED
        BY <2>2, <3>1, <3>2
    <2>5. ASSUME NEW i \in 1..Len(f) PROVE w[k + 2 + i] = f[i]
      <3>1. k + 2 + i \in 1..(k + Len(f) + 3) /\ ~ k + 2 + i <= k + 1 /\ (k + 2 + i) - (k + 1) = i + 1
        BY <1>1
      <3> QED
        BY <1>4, <2>2, <3>1
    <2> QED
      BY <1>1, <1>4, <1>7, <2>2, <2>3, <2>4, <2>5 DEF k
  <1> QED
    BY <1>6, <1>7

\* Where the n-th item's characters are in the pattern.
LaidOut(items, C) ==
    LET P == PatternUpto(items)
        p == Pattern(items)
    IN  /\ p \in Seq(C) /\ Len(P[0]) = 0 /\ Len(P[Len(items)]) = Len(p)
        /\ \A n \in 0..Len(items) : Len(P[n]) \in Nat /\ Len(P[n]) <= Len(p)
        /\ \A n \in 1..Len(items) :
              /\ Len(P[n]) = Len(P[n - 1]) + Len(Written(items[n]))
              /\ \A k \in 1..Len(Written(items[n])) : p[Len(P[n - 1]) + k] = Written(items[n])[k]

LEMMA Layout ==
    ASSUME NEW C, NEW I, NEW items \in Seq(I), \A x \in I : Written(x) \in Seq(C)
    PROVE  LaidOut(items, C)
  <1> DEFINE P == PatternUpto(items)
             p == Pattern(items)
             L == Len(items)
             W(n) == Written(items[n])
             Within(n) == Len(P[n]) <= Len(p) /\ \A k \in 1..Len(P[n]) : p[k] = P[n][k]
             T == {m \in Nat : m <= L => Within(L - m)}
  <1>1. L \in Nat /\ \A n \in 1..L : items[n] \in I /\ W(n) \in Seq(C)
    BY LenProperties, ElementOfSeq
  <1>2. \A n \in 0..L : P[n] \in Seq(C)
    BY PrefixFacts
  <1>3. P[0] = <<>> /\ \A n \in 1..L : P[n] = P[n - 1] \o W(n)
    BY <1>1, PrefixesAre
  <1>4. p = P[L]
    BY DEF Pattern
  <1> HIDE DEF P, p, L
  <1>5. \A n \in 0..L : Len(P[n]) \in Nat
    BY <1>2, LenProperties
  <1>6. \A n \in 1..L : Len(W(n)) \in Nat
    BY <1>1, LenProperties
  <1> HIDE DEF W
  <1>7. ASSUME NEW n \in 1..L
        PROVE  /\ Len(P[n]) = Len(P[n - 1]) + Len(W(n))
               /\ \A k \in 1..Len(P[n - 1]) : P[n][k] = P[n - 1][k]
               /\ \A k \in 1..Len(W(n)) : P[n][Len(P[n - 1]) + k] = W(n)[k]
    <2>1. n - 1 \in 0..L
      BY <1>1
    <2> DEFINE a == P[n - 1]
               b == W(n)
    <2>2. a \in Seq(C) /\ b \in Seq(C) /\ Len(a) \in Nat /\ Len(b) \in Nat /\ P[n] = a \o b
      BY <1>1, <1>2, <1>3, <1>5, <1>6, <2>1
    <2> HIDE DEF a, b
    <2>3. /\ Len(a \o b) = Len(a) + Len(b)
          /\ \A i \in 1..(Len(a) + Len(b)) : (a \o b)[i] = IF i <= Len(a) THEN a[i] ELSE b[i - Len(a)]
      BY <2>2, ConcatProperties
    <2>4. \A k \in 1..Len(a) : (a \o b)[k] = a[k]
      BY <2>2, <2>3
    <2>5. ASSUME NEW k \in 1..Len(b) PROVE (a \o b)[Len(a) + k] = b[k]
      <3>1. Len(a) + k \in 1..(Len(a) + Len(b)) /\ ~ Len(a) + k <= Len(a) /\ (Len(a) + k) - Len(a) = k
        BY <2>2
      <3> QED
        BY <2>3, <3>1
    <2>6. /\ Len(P[n]) = Len(a) + Len(b) /\ (\A k \in 1..Len(a) : P[n][k] = a[k])
          /\ \A k \in 1..Len(b) : P[n][Len(a) + k] = b[k]
      BY <2>2, <2>3, <2>4, <2>5, Zenon
    <2> QED
      BY <2>6 DEF a, b
  <1>8. 0 \in T
    <2>1. L - 0 = L /\ L \in 0..L
      BY <1>1
    <2>2. Len(p) \in Nat
      BY <1>4, <1>5, <2>1
    <2>3. Within(L)
      BY <1>4, <2>2
    <2> QED
      BY <2>1, <2>3
  <1>9. ASSUME NEW m \in Nat, m \in T PROVE m + 1 \in T
    <2> SUFFICES ASSUME m + 1 <= L PROVE Within(L - (m + 1))
      OBVIOUS
    <2> DEFINE n == L - m
    <2>1. n \in 1..L /\ n - 1 = L - (m + 1) /\ n \in 0..L /\ n - 1 \in 0..L /\ m <= L /\ L \in 0..L
      BY <1>1
    <2>2. Within(n)
      BY <1>9, <2>1
    <2> HIDE DEF n
    <2>3. Len(P[n]) \in Nat /\ Len(P[n - 1]) \in Nat /\ Len(W(n)) \in Nat /\ Len(p) \in Nat
      BY <1>4, <1>5, <1>6, <2>1
    <2>4. Len(P[n - 1]) <= Len(P[n]) /\ Len(P[n - 1]) <= Len(p)
      <3>1. Len(P[n]) = Len(P[n - 1]) + Len(W(n)) /\ Len(P[n]) <= Len(p)
        BY <1>7, <2>1, <2>2, Zenon
      <3> QED
        BY <2>3, <3>1
    <2>5. \A k \in 1..Len(P[n - 1]) : k \in 1..Len(P[n])
      BY <2>3, <2>4
    <2>6. \A k \in 1..Len(P[n - 1]) : p[k] = P[n - 1][k]
      BY <1>7, <2>1, <2>2, <2>5
    <2>7. Within(n - 1)
      BY <2>4, <2>6
    <2> QED
      BY <2>1, <2>7
  <1>10. ASSUME NEW n \in 0..L PROVE Within(n)
    <2>1. L - n \in Nat /\ L - n <= L /\ L - (L - n) = n
      BY <1>1
    <2>2. L - n \in T
      <3> HIDE DEF T
      <3> QED
        BY <1>8, <1>9, <2>1, Induction
    <2> QED
      BY <2>1, <2>2
  <1>11. p \in Seq(C) /\ Len(P[0]) = 0 /\ Len(P[L]) = Len(p)
    <2>1. L \in 0..L
      BY <1>1
    <2> QED
      BY <1>2, <1>3, <1>4, <2>1
  <1>12. ASSUME NEW n \in 1..L, NEW k \in 1..Len(W(n)) PROVE p[Len(P[n - 1]) + k] = W(n)[k]
    <2>1. n \in 0..L /\ n - 1 \in 0..L
      BY <1>1
    <2>2. Len(P[n - 1]) + k \in 1..Len(P[n])
      BY <1>5, <1>6, <1>7, <2>1
    <2> QED
      BY <1>7, <1>10, <2>1, <2>2
  <1>13. \A n \in 0..L : Len(P[n]) \in Nat /\ Len(P[n]) <= Len(p)
    BY <1>5, <1>10
  <1>14. \A n \in 1..L :
            /\ Len(P[n]) = Len(P[n - 1]) + Len(W(n))
            /\ \A k \in 1..Len(W(n)) : p[Len(P[n - 1]) + k] = W(n)[k]
    BY <1>7, <1>12
  <1> QED
    BY <1>11, <1>13, <1>14 DEF LaidOut, P, p, L, W

\* The items that a pattern can be made of: one character other than '%', and
\* a known item whose format does not end before its end.
Writable(C) ==
    {Literal(c) : c \in C \ {Percent}} \cup {Item(name, f) : name \in ItemNames, f \in Seq(C \ {RBrace})}

Stands(p, i, w) == i - 1 + Len(w) <= Len(p) /\ \A k \in 1..Len(w) : p[i - 1 + k] = w[k]
Ends(p, h) == h <= Len(p) => p[h] \notin Letters \cup {LBrace, RBrace}

\* The scan of an item in the midst of a pattern finds the item, and where the
\* next one begins.
LEMMA ScanOfItem ==
    ASSUME NEW C, Percent \in C, LBrace \in C, RBrace \in C, Letters \subseteq C,
           NEW p \in Seq(C), NEW i \in 1..Len(p),
           NEW name \in ItemNames, NEW f \in Seq(C \ {RBrace}),
           NEW w, w = Written(Item(name, f)), Stands(p, i, w),
           f = <<>> => Ends(p, i + Len(w))
    PROVE  /\ ~ Plain(p, i) /\ Len(w) \in Nat
           /\ Scan(p, i).closed /\ Scan(p, i).str = name /\ Scan(p, i).fmt = f /\ Scan(p, i).next = i + Len(w)
  <1> DEFINE k == Len(name)
             h == i + k + 1
  <1>1. /\ name \in Seq(Letters) /\ name \in Seq(C) /\ name # <<>> /\ f \in Seq(C)
        /\ k \in Nat /\ k >= 1 /\ Len(f) \in Nat /\ Len(p) \in Nat
        /\ \A n \in 1..k : name[n] \in Letters
        /\ \A n \in 1..Len(f) : f[n] # RBrace
    <2>1. name \in Seq(Letters) /\ name # <<>>
      BY FormatterAssumption
    <2>2. name \in Seq(C) /\ f \in Seq(C)
      BY <2>1, SeqMonotonic
    <2>3. k \in Nat /\ k # 0 /\ Len(f) \in Nat /\ Len(p) \in Nat
      BY <2>1, EmptySeq, LenProperties
    <2>4. \A n \in 1..k : name[n] \in Letters
      BY <2>1, ElementOfSeq
    <2>5. \A n \in 1..Len(f) : f[n] # RBrace
      BY ElementOfSeq
    <2> QED
      BY <2>1, <2>2, <2>3, <2>4, <2>5
  <1>2. Percent \notin Letters /\ LBrace \notin Letters /\ RBrace \notin Letters
    BY FormatterAssumption
  <1>3. Percent # LBrace /\ Percent # RBrace /\ LBrace # RBrace
    BY Zenon DEF Percent, LBrace, RBrace
  <1>4. /\ w \in Seq(C) /\ Len(w) \in Nat /\ Len(w) >= k + 1 /\ w[1] = Percent /\ \A n \in 1..k : w[n + 1] = name[n]
        /\ f = <<>> => Len(w) = k + 1
        /\ f # <<>> => /\ Len(w) = k + Len(f) + 3 /\ w[k + 2] = LBrace /\ w[k + Len(f) + 3] = RBrace
                       /\ \A n \in 1..Len(f) : w[k + 2 + n] = f[n]
    <2>1. /\ w \in Seq(C) /\ Len(w) >= k + 1 /\ w[1] = Percent /\ \A n \in 1..k : w[n + 1] = name[n]
          /\ f = <<>> => Len(w) = k + 1
          /\ f # <<>> => /\ Len(w) = k + Len(f) + 3 /\ w[k + 2] = LBrace /\ w[k + Len(f) + 3] = RBrace
                         /\ \A n \in 1..Len(f) : w[k + 2 + n] = f[n]
      BY <1>1, ItemCharacters
    <2> QED
      BY <2>1, LenProperties
  <1> HIDE DEF k
  <1>5. p[i] = Percent /\ \A n \in 1..k : p[i + n] = name[n]
    <2>1. 1 \in 1..Len(w) /\ i - 1 + 1 = i
      BY <1>1, <1>4
    <2>2. ASSUME NEW n \in 1..k PROVE p[i + n] = name[n]
      <3>1. n + 1 \in 1..Len(w) /\ i - 1 + (n + 1) = i + n
        BY <1>1, <1>4
      <3> QED
        BY <1>4, <3>1 DEF Stands
    <2> QED
      BY <1>4, <2>1, <2>2 DEF Stands
  <1>6. ~ Plain(p, i)
    <2>1. 1 \in 1..k
      BY <1>1
    <2>2. p[i + 1] \in Letters
      BY <1>1, <1>5, <2>1
    <2> QED
      BY <1>2, <1>5, <2>2 DEF Plain
  <1>7. h \in (i + 1)..(Len(p) + 1) /\ \A n \in (i + 1)..(h - 1) : p[n] \in Letters
    <2>1. h \in (i + 1)..(Len(p) + 1)
      BY <1>1, <1>4 DEF Stands
    <2>2. ASSUME NEW n \in (i + 1)..(h - 1) PROVE p[n] \in Letters
      <3>1. n - i \in 1..k /\ i + (n - i) = n
        BY <1>1
      <3> QED
        BY <1>1, <1>5, <3>1
    <2> QED
      BY <2>1, <2>2
  <1>8. SubSeq(p, i + 1, h - 1) = name
    <2> DEFINE t == SubSeq(p, i + 1, h - 1)
    <2>1. i + 1 \in Int /\ h - 1 \in Int /\ i + 1 <= h - 1 /\ (h - 1) - (i + 1) + 1 = k
      BY <1>1
    <2>2. \A n \in (i + 1)..(h - 1) : p[n] \in Letters
      BY <1>7
    <2>3. t \in Seq(Letters) /\ Len(t) = k /\ \A n \in 1..((h - 1) - (i + 1) + 1) : t[n] = p[i + 1 + n - 1]
      BY <2>1, <2>2, SubSeqProperties
    <2>4. ASSUME NEW n \in 1..k PROVE t[n] = name[n]
      <3>1. i + 1 + n - 1 = i + n
        BY <1>1
      <3> HIDE DEF t
      <3> QED
        BY <1>5, <2>1, <2>3, <3>1
    <2> HIDE DEF t
    <2>5. t = name
      BY <1>1, <2>3, <2>4, SeqEqual DEF k
    <2> QED
      BY <2>5 DEF t
  <1>9. CASE f = <<>>
    <2>0. Len(w) = k + 1
      BY <1>4, <1>9, Zenon
    <2>1. i + Len(w) = h
      BY <1>1, <2>0
    <2>2. h <= Len(p) => p[h] \notin Letters \cup {LBrace, RBrace}
      BY <1>9, <2>1 DEF Ends
    <2> HIDE DEF h
    <2>3. Name(p, i, h) /\ ~ Opened(p, h)
      BY <1>7, <2>2 DEF Name, Opened
    <2>4. Scan(p, i).closed /\ Scan(p, i).str = name /\ Scan(p, i).fmt = <<>> /\ Scan(p, i).next = h
      BY <1>1, <1>8, <2>3, ScanIs
    <2> QED
      BY <1>4, <1>6, <1>9, <2>1, <2>4, Zenon
  <1>10. CASE f # <<>>
    <2> DEFINE c == h + Len(f) + 1
    <2>0. /\ Len(w) = k + Len(f) + 3 /\ w[k + 2] = LBrace /\ w[k + Len(f) + 3] = RBrace
          /\ \A n \in 1..Len(f) : w[k + 2 + n] = f[n]
      BY <1>4, <1>10, Zenon
    <2>1. /\ h <= Len(p) /\ p[h] = LBrace
          /\ c \in (h + 1)..Len(p) /\ p[c] = RBrace /\ \A n \in 1..Len(f) : p[h + n] = f[n]
          /\ c + 1 = i + Len(w)
      <3>1. k + 2 \in 1..Len(w) /\ i - 1 + (k + 2) = h
        BY <1>1, <2>0
      <3>2. k + Len(f) + 3 \in 1..Len(w) /\ i - 1 + (k + Len(f) + 3) = c
        BY <1>1, <2>0
      <3>3. ASSUME NEW n \in 1..Len(f) PROVE p[h + n] = f[n]
        <4>1. k + 2 + n \in 1..Len(w) /\ i - 1 + (k + 2 + n) = h + n
          BY <1>1, <2>0
        <4> QED
          BY <2>0, <4>1 DEF Stands
      <3>4. p[h] = LBrace /\ p[c] = RBrace
        BY <2>0, <3>1, <3>2 DEF Stands
      <3>5. h <= Len(p) /\ c \in (h + 1)..Len(p) /\ c + 1 = i + Len(w)
        BY <1>1, <2>0 DEF Stands
      <3> QED
        BY <3>3, <3>4, <3>5
    <2>2. ASSUME NEW n \in (h + 1)..(c - 1) PROVE n - h \in 1..Len(f) /\ p[n] = f[n - h]
      <3>1. n - h \in 1..Len(f) /\ h + (n - h) = n
        BY <1>1
      <3> QED
        BY <2>1, <3>1
    <2>3. SubSeq(p, h + 1, c - 1) = f
      <3> DEFINE t == SubSeq(p, h + 1, c - 1)
      <3>1. h + 1 \in Int /\ c - 1 \in Int /\ (c - 1) - (h + 1) + 1 = Len(f) /\ Len(f) # 0 /\ h + 1 <= c - 1
        <4>1. Len(f) # 0
          BY <1>1, <1>10, EmptySeq
        <4> QED
          BY <1>1, <4>1
      <3>2. \A n \in (h + 1)..(c - 1) : p[n] \in C
        BY <1>1, <2>2, ElementOfSeq
      <3>3. /\ t \in Seq(C) /\ Len(t) = Len(f)
            /\ \A n \in 1..((c - 1) - (h + 1) + 1) : t[n] = p[h + 1 + n - 1]
        BY <3>1, <3>2, SubSeqProperties
      <3>4. ASSUME NEW n \in 1..Len(f) PROVE t[n] = f[n]
        <4>1. h + 1 + n - 1 = h + n
          BY <1>1
        <4> HIDE DEF t
        <4> QED
          BY <2>1, <3>1, <3>3, <4>1
      <3> HIDE DEF t
      <3>5. t = f
        BY <1>1, <3>3, <3>4, SeqEqual
      <3> QED
        BY <3>5 DEF t
    <2> HIDE DEF h, c
    <2>4. Name(p, i, h) /\ Opened(p, h)
      BY <1>2, <1>3, <1>7, <2>1 DEF Name, Opened
    <2>5. Format(p, h, c)
      BY <1>1, <2>1, <2>2 DEF Format
    <2>6. /\ Scan(p, i).closed /\ Scan(p, i).str = name /\ Scan(p, i).fmt = SubSeq(p, h + 1, c - 1)
          /\ Scan(p, i).next = c + 1
      <3>1. /\ Scan(p, i).str = SubSeq(p, i + 1, h - 1)
            /\ Opened(p, h) => \A d : Format(p, h, d) =>
                  Scan(p, i).closed /\ Scan(p, i).fmt = SubSeq(p, h + 1, d - 1) /\ Scan(p, i).next = d + 1
        BY <1>1, <2>4, ScanIs
      <3> QED
        BY <1>8, <2>4, <2>5, <3>1, Zenon
    <2> QED
      BY <1>4, <1>6, <2>1, <2>3, <2>6, Zenon
  <1> QED
    BY <1>9, <1>10

\* Every pattern that items make is accepted, as exactly these items, when no two
\* of them run into each other: a name ends before the first character that
\* cannot be in it, and a format at its brace.
THEOREM FormatterAccepts == ASSUME NEW S, NEW items \in Seq(Writable(S)) PROVE Accepted(items)
  <1> DEFINE C == S \cup Letters \cup {Percent, LBrace, RBrace}
             I == Writable(S)
             L == Len(items)
             P == PatternUpto(items)
             p == Pattern(items)
             F == Loop(p)
             At(n) == Len(P[n - 1]) + 1
             Rest(n) == F[At(n)] = [items |-> SubSeq(items, n, L), m_error |-> FALSE]
             T == {m \in Nat : m <= L => Rest(L + 1 - m)}
             W(n) == Written(items[n])
  <1>1. Percent \in C /\ LBrace \in C /\ RBrace \in C /\ Letters \subseteq C /\ S \subseteq C
    OBVIOUS
  <1> HIDE DEF C
  <1>2. L \in Nat /\ \A n \in 1..L : items[n] \in I
    BY LenProperties, ElementOfSeq
  <1>3. ASSUME NEW x \in I
        PROVE  \/ \E c \in C \ {Percent} : x = Literal(c)
               \/ \E name \in ItemNames, f \in Seq(S \ {RBrace}) : x = Item(name, f)
    BY <1>1 DEF Writable
  <1>4. \A name \in ItemNames : name \in Seq(C) /\ name # <<>>
    BY <1>1, FormatterAssumption, SeqMonotonic
  <1>5. \A f \in Seq(S \ {RBrace}) : f \in Seq(C) /\ f \in Seq(C \ {RBrace})
    BY <1>1, SeqMonotonic
  <1>6. \A x \in I : Written(x) \in Seq(C)
    <2>1. \A x \in I : x \in Items(C)
      BY <1>3, <1>4, <1>5 DEF Items
    <2> QED
      BY <1>1, <2>1, ItemsWritten
  <1>7. /\ p \in Seq(C) /\ Len(P[0]) = 0 /\ Len(P[L]) = Len(p)
        /\ \A n \in 0..L : Len(P[n]) \in Nat /\ Len(P[n]) <= Len(p)
        /\ \A n \in 1..L : /\ Len(P[n]) = Len(P[n - 1]) + Len(W(n))
                           /\ \A k \in 1..Len(W(n)) : p[Len(P[n - 1]) + k] = W(n)[k]
    <2> HIDE DEF I
    <2>1. items \in Seq(I)
      BY DEF I
    <2>2. LaidOut(items, C)
      BY <1>6, <2>1, Layout
    <2> QED
      BY <2>2 DEF LaidOut
  <1>8. Len(p) \in Nat
    BY <1>7, LenProperties
  <1>9. \A i \in 1..(Len(p) + 1) : F[i] = Body(p, F, i)
    BY <1>8, LoopIsLoop
  <1> SUFFICES ASSUME Apart(items) PROVE init(p) = [items |-> items, m_error |-> FALSE]
    BY DEF Accepted
  <1>10. init(p) = F[1]
    BY DEF init
  <1> HIDE DEF I, P, p, F
  <1>11. ASSUME NEW n \in 1..L
         PROVE  /\ At(n) \in Nat /\ At(n) >= 1 /\ At(n) <= Len(p) + 1 /\ At(n + 1) = At(n) + Len(W(n))
                /\ Stands(p, At(n), W(n)) /\ Len(W(n)) \in Nat
    <2>1. n - 1 \in 0..L /\ n \in 0..L /\ (n + 1) - 1 = n
      BY <1>2
    <2> DEFINE o == Len(P[n - 1])
               w == W(n)
    <2>2. /\ o \in Nat /\ Len(P[n]) \in Nat /\ Len(P[n]) <= Len(p) /\ Len(P[n]) = o + Len(w)
          /\ o <= Len(p) /\ \A k \in 1..Len(w) : p[o + k] = w[k]
      BY <1>7, <2>1
    <2>3. Len(w) \in Nat
      BY <1>2, <1>6, LenProperties
    <2> HIDE DEF o, w
    <2>4. Stands(p, o + 1, w)
      <3>1. (o + 1) - 1 = o
        BY <2>2
      <3> QED
        BY <2>2, <3>1 DEF Stands
    <2>5. Len(P[n]) + 1 = (o + 1) + Len(w)
      BY <2>2, <2>3
    <2>6. o + 1 \in Nat /\ o + 1 >= 1 /\ o + 1 <= Len(p) + 1
      BY <1>8, <2>2
    <2> QED
      BY <2>1, <2>3, <2>4, <2>5, <2>6 DEF o, w
  <1>12. ASSUME NEW n \in 1..L, Rest(n + 1), F[At(n)] = Found(items[n], F[At(n + 1)]) PROVE Rest(n)
    <2>1. F[At(n)] = [items |-> <<items[n]>> \o SubSeq(items, n + 1, L), m_error |-> FALSE]
      BY <1>12 DEF Found
    <2>2. n \in 1..Len(items) /\ L \in n..Len(items)
      BY <1>2
    <2>3. SubSeq(items, n, L) = <<items[n]>> \o SubSeq(items, n + 1, L)
      BY <2>2, SubSeqRecursiveFirst
    <2> QED
      BY <2>1, <2>3
  <1>13. ASSUME NEW n \in 1..L, Rest(n + 1) PROVE Rest(n)
    <2> DEFINE i == At(n)
               w == W(n)
    <2>1. /\ i \in Nat /\ i >= 1 /\ i <= Len(p) + 1 /\ At(n + 1) = i + Len(w) /\ Stands(p, i, w)
          /\ Len(w) \in Nat
      BY <1>11
    <2>2. ASSUME Len(w) >= 1 PROVE i \in 1..Len(p) /\ p[i] = w[1]
      <3>0. i - 1 + Len(w) <= Len(p)
        BY <2>1 DEF Stands
      <3>1. i \in 1..Len(p)
        <4> HIDE DEF i, w
        <4> QED
          BY <1>8, <2>1, <2>2, <3>0
      <3>2. 1 \in 1..Len(w) /\ i - 1 + 1 = i
        BY <2>1, <2>2
      <3> QED
        BY <2>1, <3>1, <3>2 DEF Stands
    <2>3. ASSUME NEW c \in C \ {Percent}, items[n] = Literal(c) PROVE Rest(n)
      <3>1. w = <<c>> /\ Len(w) = 1 /\ w[1] = c
        BY <2>3 DEF Written, Literal
      <3>2. i \in 1..Len(p) /\ p[i] = c /\ ~ i > Len(p) /\ i \in 1..(Len(p) + 1)
        BY <1>8, <2>1, <2>2, <3>1
      <3>3. At(n + 1) = i + 1
        BY <2>1, <3>1
      <3> HIDE DEF i, At
      <3>4. F[i] = Found(Literal(p[i]), F[i + 1])
        BY <1>9, <3>2 DEF Body, Plain
      <3>5. F[i] = Found(items[n], F[At(n + 1)])
        BY <2>3, <3>2, <3>3, <3>4
      <3> QED
        BY <1>12, <1>13, <3>5 DEF i
    <2>4. ASSUME NEW name \in ItemNames, NEW f \in Seq(S \ {RBrace}), items[n] = Item(name, f) PROVE Rest(n)
      <3>1. w = Written(Item(name, f)) /\ name \in Seq(C) /\ f \in Seq(C) /\ f \in Seq(C \ {RBrace})
        BY <1>4, <1>5, <2>4
      <3>2. Len(w) >= Len(name) + 1 /\ Len(name) \in Nat
        BY <1>1, <3>1, ItemCharacters, LenProperties
      <3>3. i \in 1..Len(p) /\ ~ i > Len(p) /\ i \in 1..(Len(p) + 1)
        BY <1>8, <2>1, <2>2, <3>2
      <3>4. ASSUME f = <<>> PROVE Ends(p, i + Len(w))
        <4> SUFFICES ASSUME i + Len(w) <= Len(p) PROVE p[i + Len(w)] \notin Letters \cup {LBrace, RBrace}
          BY DEF Ends
        <4>1. n # L
          <5> SUFFICES ASSUME n = L PROVE FALSE
            OBVIOUS
          <5>1. At(n + 1) = Len(p) + 1
            BY <1>2, <1>7
          <5>2. i + Len(w) = Len(p) + 1
            BY <2>1, <5>1
          <5> HIDE DEF i, w
          <5> QED
            BY <1>8, <2>1, <5>2
        <4>2. n + 1 \in 1..L
          BY <1>2, <4>1
        <4> DEFINE v == W(n + 1)
                   j == At(n + 1)
        <4>3. Stands(p, j, v) /\ j \in Nat /\ Len(v) \in Nat /\ j = i + Len(w)
          BY <1>11, <2>1, <4>2
        <4> HIDE DEF v, j, i, w
        <4>4. Len(v) >= 1 => p[j] = v[1]
          <5> SUFFICES ASSUME Len(v) >= 1 PROVE p[j] = v[1]
            OBVIOUS
          <5>1. 1 \in 1..Len(v) /\ j - 1 + 1 = j
            BY <4>3
          <5> QED
            BY <4>3, <5>1 DEF Stands
        <4>5. items[n + 1] \in I
          BY <1>2, <4>2
        <4>6. ASSUME NEW c \in C \ {Percent}, items[n + 1] = Literal(c)
              PROVE  v[1] \notin Letters \cup {LBrace, RBrace} /\ Len(v) >= 1
          <5>1. v = <<c>> /\ Len(v) = 1 /\ v[1] = c
            BY <4>6 DEF Written, Literal, v
          <5>2. items[n + 1].type = 0 /\ items[n + 1].str[1] = c
            BY <4>6 DEF Literal
          <5>3. items[n].type # 0 /\ items[n].fmt = <<>>
            BY <2>4, <3>4 DEF Item
          <5>4. n + 1 \in 2..Len(items) /\ (n + 1) - 1 = n
            BY <1>2, <4>2
          <5>5. c \notin Letters \cup {LBrace, RBrace}
            BY <5>2, <5>3, <5>4 DEF Apart
          <5> QED
            BY <5>1, <5>5
        <4>7. ASSUME NEW nm \in ItemNames, NEW g \in Seq(S \ {RBrace}), items[n + 1] = Item(nm, g)
              PROVE  v[1] \notin Letters \cup {LBrace, RBrace} /\ Len(v) >= 1
          <5>1. v = Written(Item(nm, g)) /\ nm \in Seq(C) /\ g \in Seq(C)
            BY <1>4, <1>5, <4>7 DEF v
          <5>2. v[1] = Percent /\ Len(v) >= Len(nm) + 1 /\ Len(nm) \in Nat
            BY <1>1, <5>1, ItemCharacters, LenProperties
          <5>3. Percent \notin Letters
            BY FormatterAssumption
          <5>4. Percent # LBrace /\ Percent # RBrace
            BY Zenon DEF Percent, LBrace, RBrace
          <5> QED
            BY <4>3, <5>2, <5>3, <5>4
        <4>8. p[j] \notin Letters \cup {LBrace, RBrace}
          BY <1>3, <4>4, <4>5, <4>6, <4>7
        <4> QED
          BY <4>3, <4>8
      <3> HIDE DEF i, w, At
      <3>5. /\ ~ Plain(p, i) /\ Scan(p, i).closed /\ Scan(p, i).str = name /\ Scan(p, i).fmt = f
            /\ Scan(p, i).next = i + Len(w)
        <4>1. p \in Seq(C) /\ Stands(p, i, w) /\ (f = <<>> => Ends(p, i + Len(w)))
          BY <1>7, <2>1, <3>4, Zenon
        <4> QED
          BY <1>1, <3>1, <3>3, <4>1, ScanOfItem
      <3>6. F[i] = Found(Item(name, f), F[i + Len(w)])
        BY <1>9, <3>3, <3>5 DEF Body
      <3>7. F[i] = Found(items[n], F[At(n + 1)])
        BY <2>1, <2>4, <3>6
      <3> QED
        BY <1>12, <1>13, <3>7 DEF i
    <2> QED
      BY <1>2, <1>3, <2>3, <2>4
  <1>14. Rest(L + 1)
    <2>1. At(L + 1) = Len(p) + 1
      BY <1>2, <1>7
    <2>2. F[Len(p) + 1] = [items |-> <<>>, m_error |-> FALSE]
      BY <1>8, <1>9 DEF Body
    <2>3. SubSeq(items, L + 1, L) = <<>>
      BY <1>2, SubSeqEmpty
    <2> QED
      BY <2>1, <2>2, <2>3
  <1> HIDE DEF Rest
  <1>15. 0 \in T
    <2>1. L + 1 - 0 = L + 1
      BY <1>2
    <2> QED
      BY <1>14, <2>1
  <1>16. ASSUME NEW m \in Nat, m \in T PROVE m + 1 \in T
    <2> SUFFICES ASSUME m + 1 <= L PROVE Rest(L + 1 - (m + 1))
      OBVIOUS
    <2>1. L + 1 - (m + 1) \in 1..L /\ (L + 1 - (m + 1)) + 1 = L + 1 - m /\ m <= L
      BY <1>2
    <2> QED
      BY <1>13, <1>16, <2>1
  <1>17. Rest(1)
    <2>1. L \in T
      <3> HIDE DEF T
      <3> QED
        BY <1>2, <1>15, <1>16, Induction
    <2>2. L + 1 - L = 1
      BY <1>2
    <2> QED
      BY <1>2, <2>1, <2>2
  <1>18. At(1) = 1 /\ SubSeq(items, 1, L) = items
    BY <1>7, SubSeqFull
  <1> QED
    BY <1>10, <1>17, <1>18 DEF Rest

LEMMA BoundedInSeq == ASSUME NEW S, NEW n \in Nat PROVE BoundedSeq(S, n) \subseteq Seq(S)
  BY DEF BoundedSeq, SeqOf

\* LogFormatter::init() keeps all of every pattern it accepts and accepts what
\* items make: the property of the run, whatever the bounds on both are.
THEOREM FormatterAlways == Spec => []FormatterExact
  <1>1. \A p \in BoundedSeq(Chars, MaxPattern) : Kept(p)
    BY BoundsAssumption, BoundedInSeq, FormatterKeeps
  <1>2. SomeItems \subseteq Writable(Chars)
    <2>1. "x" # RBrace /\ Percent # RBrace /\ LBrace # RBrace
      BY Zenon DEF Percent, LBrace, RBrace
    <2>2. "x" \in Chars \ {RBrace} /\ Percent \in Chars \ {RBrace} /\ LBrace \in Chars \ {RBrace}
      BY <2>1, Zenon DEF Chars
    <2>3. Formats \subseteq Seq(Chars \ {RBrace})
      BY <2>2 DEF Formats
    <2> QED
      BY <2>3 DEF SomeItems, Writable
  <1>3. \A items \in BoundedSeq(SomeItems, MaxItems) : Accepted(items)
    <2>1. \A items \in BoundedSeq(SomeItems, MaxItems) : items \in Seq(Writable(Chars))
      BY <1>2, BoundsAssumption, BoundedInSeq, SeqMonotonic
    <2> QED
      BY <2>1, FormatterAccepts
  <1>4. FormatterExact
    BY <1>1, <1>3 DEF FormatterExact
  <1> QED
    BY <1>4, PTL

=============================================================================
