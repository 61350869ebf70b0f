---------------------------- MODULE RouteProofs ----------------------------
(***************************************************************************)
(* Theorems about the operators of Sites that compare routes: how a route  *)
(* is taken apart, that Route::operator< is an order, that                 *)
(* Route::compare() is zero for the paths that a route should match and    *)
(* no others, and that for routes that are apart the two agree.            *)
(* SitesProofs needs them.                                                 *)
(*                                                                         *)
(* Route and Compare are recursive functions: that such a function exists, *)
(* and what it returns, is proved by induction on the places of a text or  *)
(* the parts of a route.  Induction is that on sets of numbers (Induction, *)
(* Downward), from the least counterexample that the well-founded order of *)
(* the numbers gives (LeastNumber).                                        *)
(***************************************************************************)
EXTENDS Sites, FiniteSets, FiniteSetTheorems, WellFoundedInduction, TLAPS

-----------------------------------------------------------------------------
(* Numbers.                                                                *)

LEMMA LeastNumber ==
  ASSUME NEW T \in SUBSET Nat, T # {}
  PROVE  \E n \in T : \A m \in T : n <= m
<1> DEFINE R == OpToRel(<, Nat)
<1>1. IsWellFoundedOn(R, Nat)
  BY NatLessThanWellFounded
<1>2. \A m, n \in Nat : <<m, n>> \notin R => n <= m
  BY DEF OpToRel
<1> HIDE DEF R
<1>3. PICK n \in T : \A m \in T : <<m, n>> \notin R
  BY <1>1, WFMin
<1> QED
  BY <1>2, <1>3

LEMMA Induction ==
  ASSUME NEW S \in SUBSET Nat, 0 \in S, \A n \in S : n + 1 \in S
  PROVE  S = Nat
<1> SUFFICES ASSUME Nat \ S # {} PROVE FALSE
  OBVIOUS
<1>1. PICK n \in Nat \ S : \A m \in Nat \ S : n <= m
  BY LeastNumber
<1>2. n - 1 \in S
  BY <1>1
<1> QED
  BY <1>1, <1>2

\* From n down to 1.
LEMMA Downward ==
  ASSUME NEW n \in Nat \ {0}, NEW S, n \in S,
         \A i \in 1 .. n - 1 : i + 1 \in S => i \in S
  PROVE  \A i \in 1 .. n : i \in S
<1> DEFINE T == {m \in Nat : m < n => n - m \in S}
<1>1. 0 \in T
  OBVIOUS
<1>2. ASSUME NEW m \in T PROVE m + 1 \in T
  <2> SUFFICES ASSUME m + 1 < n PROVE n - (m + 1) \in S
    BY <1>2
  <2>1. m \in Nat /\ n - m \in S
    BY <1>2
  <2>2. n - (m + 1) \in 1 .. n - 1 /\ (n - (m + 1)) + 1 = n - m
    BY <2>1
  <2> QED
    BY <2>1, <2>2
<1> HIDE DEF T
<1>3. T \in SUBSET Nat
  BY DEF T
<1>4. T = Nat
  BY <1>1, <1>2, <1>3, Induction
<1> SUFFICES ASSUME NEW i \in 1 .. n PROVE i \in S
  OBVIOUS
<1>5. n - i \in Nat /\ n - i < n /\ n - (n - i) = i
  OBVIOUS
<1>6. n - i \in T
  BY <1>4, <1>5
<1> QED
  BY <1>5, <1>6 DEF T

LEMMA LeastIs ==
  ASSUME NEW S \in SUBSET Nat, S # {}
  PROVE  Least(S) \in S /\ \A j \in S : Least(S) <= j
BY LeastNumber DEF Least

-----------------------------------------------------------------------------
(* Text.                                                                   *)

\* What find() says of the text that it has passed.
LEMMA FindCharResult ==
  ASSUME NEW text \in Seq(Nat), NEW c, NEW from \in Nat \ {0}
  PROVE  LET at == FindChar(text, c, from)
         IN  \/ /\ at = Npos
                /\ \A i \in from .. Len(text) : text[i] # c
             \/ /\ at \in from .. Len(text) /\ text[at] = c
                /\ \A i \in from .. at - 1 : text[i] # c
<1> DEFINE found == {i \in from .. Len(text) : text[i] = c}
<1>1. CASE found = {}
  BY <1>1 DEF FindChar
<1>2. CASE found # {}
  <2>1. found \in SUBSET Nat /\ Len(text) \in Nat
    OBVIOUS
  <2>2. FindChar(text, c, from) = Least(found)
    BY <1>2 DEF FindChar
  <2>3. Least(found) \in found /\ \A j \in found : Least(found) <= j
    BY <2>1, <1>2, LeastIs
  <2> DEFINE at == Least(found)
  <2>4. at \in from .. Len(text) /\ text[at] = c
    BY <2>3
  <2>5. \A i \in from .. at - 1 : text[i] # c
    <3> SUFFICES ASSUME NEW i \in from .. at - 1, text[i] = c PROVE FALSE
      OBVIOUS
    <3>1. i \in found
      BY <2>1, <2>4
    <3>2. at <= i
      BY <3>1, <2>3
    <3> HIDE DEF at
    <3> QED
      BY <3>2, <2>1, <2>4
  <2> QED
    BY <2>2, <2>4, <2>5
<1> QED
  BY <1>1, <1>2

LEMMA SubstrResult ==
  ASSUME NEW text \in Seq(Nat), NEW from \in 1 .. Len(text) + 1, NEW n \in Nat
  PROVE  LET part == Substr(text, from, n)
         IN  /\ part \in Seq(Nat)
             /\ Len(part) = IF from + n - 1 < Len(text) THEN n ELSE Len(text) - from + 1
             /\ \A i \in 1 .. Len(part) : part[i] = text[from + i - 1]
<1> DEFINE to == IF from + n - 1 < Len(text) THEN from + n - 1 ELSE Len(text)
<1>1. /\ Len(text) \in Nat /\ to \in Nat /\ to <= Len(text)
      /\ from <= to + 1 /\ from \in Nat \ {0}
      /\ to - from + 1 = IF from + n - 1 < Len(text) THEN n ELSE Len(text) - from + 1
  OBVIOUS
<1>2. Substr(text, from, n) = SubSeq(text, from, to)
  BY DEF Substr
<1> HIDE DEF to
<1>3. /\ SubSeq(text, from, to) \in Seq(Nat)
      /\ Len(SubSeq(text, from, to)) = to - from + 1
      /\ \A i \in 1 .. to - from + 1 : SubSeq(text, from, to)[i] = text[from + i - 1]
  BY <1>1
<1> QED
  BY <1>1, <1>2, <1>3

\* The first place where two sequences differ.
LEMMA LeastDiff ==
  ASSUME NEW T, NEW s \in Seq(T), NEW t \in Seq(T), NEW l \in 1 .. Len(s),
         l <= Len(t), s[l] # t[l], \A j \in 1 .. l - 1 : s[j] = t[j]
  PROVE  LET differ == {i \in 1 .. Len(s) : i <= Len(t) /\ s[i] # t[i]}
         IN  differ # {} /\ Least(differ) = l
<1> DEFINE differ == {i \in 1 .. Len(s) : i <= Len(t) /\ s[i] # t[i]}
<1>1. l \in differ /\ differ \in SUBSET Nat /\ Len(s) \in Nat
  OBVIOUS
<1>2. Least(differ) \in differ /\ \A j \in differ : Least(differ) <= j
  BY <1>1, LeastIs
<1>3. Least(differ) = l
  <2> DEFINE m == Least(differ)
  <2>1. m <= l /\ m \in 1 .. Len(s) /\ s[m] # t[m]
    BY <1>1, <1>2
  <2> HIDE DEF m
  <2>2. m = l
    BY <2>1, <1>1
  <2> QED
    BY <2>2 DEF m
<1> QED
  BY <1>1, <1>3

\* compare() where the texts first differ.
LEMMA FirstDiff ==
  ASSUME NEW s \in Seq(Nat), NEW t \in Seq(Nat), NEW l \in 1 .. Len(s),
         l <= Len(t), s[l] # t[l], \A j \in 1 .. l - 1 : s[j] = t[j]
  PROVE  CompareText(s, t) = s[l] - t[l]
<1> DEFINE differ == {i \in 1 .. Len(s) : i <= Len(t) /\ s[i] # t[i]}
<1>1. differ # {} /\ Least(differ) = l
  BY LeastDiff
<1> QED
  BY <1>1 DEF CompareText

LEMMA NoDiff ==
  ASSUME NEW s, NEW t, \A j \in 1 .. Len(s) : j <= Len(t) => s[j] = t[j]
  PROVE  CompareText(s, t) = Len(s) - Len(t)
BY DEF CompareText

LEMMA DiffCases ==
  ASSUME NEW T, NEW s \in Seq(T), NEW t \in Seq(T)
  PROVE  \/ \A j \in 1 .. Len(s) : j <= Len(t) => s[j] = t[j]
         \/ \E l \in 1 .. Len(s) : /\ l <= Len(t) /\ s[l] # t[l]
                                   /\ \A j \in 1 .. l - 1 : s[j] = t[j]
<1> DEFINE differ == {i \in 1 .. Len(s) : i <= Len(t) /\ s[i] # t[i]}
<1>1. differ \in SUBSET Nat /\ Len(s) \in Nat
  OBVIOUS
<1>2. ASSUME NEW i \in 1 .. Len(s), i <= Len(t), s[i] # t[i]
      PROVE  \E l \in 1 .. Len(s) : /\ l <= Len(t) /\ s[l] # t[l]
                                    /\ \A j \in 1 .. l - 1 : s[j] = t[j]
  <2>1. differ # {}
    BY <1>2
  <2>2. PICK l \in differ : \A j \in differ : l <= j
    BY <1>1, <2>1, LeastNumber
  <2>3. ASSUME NEW j \in 1 .. l - 1 PROVE s[j] = t[j]
    <3>1. j \in 1 .. Len(s) /\ j <= Len(t) /\ ~ (l <= j)
      BY <1>1, <2>2
    <3> QED
      BY <3>1, <2>2
  <2> QED
    BY <2>2, <2>3
<1> QED
  BY <1>2

LEMMA CompareTextType ==
  ASSUME NEW s \in Seq(Nat), NEW t \in Seq(Nat)
  PROVE  CompareText(s, t) \in Int
<1>1. CASE \A j \in 1 .. Len(s) : j <= Len(t) => s[j] = t[j]
  BY <1>1, NoDiff
<1>2. ASSUME NEW l \in 1 .. Len(s), l <= Len(t), s[l] # t[l],
             \A j \in 1 .. l - 1 : s[j] = t[j]
      PROVE  CompareText(s, t) \in Int
  <2>1. s[l] \in Nat /\ t[l] \in Nat
    BY <1>2
  <2>2. CompareText(s, t) = s[l] - t[l]
    BY <1>2, FirstDiff
  <2>3. s[l] - t[l] \in Int
    BY <2>1
  <2> QED
    BY <2>2, <2>3, Zenon
<1> QED
  BY <1>1, <1>2, DiffCases

LEMMA CompareTextZero ==
  ASSUME NEW s \in Seq(Nat), NEW t \in Seq(Nat)
  PROVE  CompareText(s, t) = 0 <=> s = t
<1>1. CASE \A j \in 1 .. Len(s) : j <= Len(t) => s[j] = t[j]
  <2>1. CompareText(s, t) = Len(s) - Len(t) /\ Len(s) \in Nat /\ Len(t) \in Nat
    BY <1>1, NoDiff
  <2>2. Len(s) = Len(t) => s = t
    <3> SUFFICES ASSUME Len(s) = Len(t) PROVE s = t
      OBVIOUS
    <3>1. \A j \in 1 .. Len(s) : s[j] = t[j]
      BY <1>1, <2>1
    <3> QED
      BY <3>1
  <2> QED
    BY <2>1, <2>2
<1>2. ASSUME NEW l \in 1 .. Len(s), l <= Len(t), s[l] # t[l],
             \A j \in 1 .. l - 1 : s[j] = t[j]
      PROVE  CompareText(s, t) # 0 /\ s # t
  <2>1. s[l] \in Nat /\ t[l] \in Nat
    BY <1>2
  <2>2. CompareText(s, t) = s[l] - t[l]
    BY <1>2, FirstDiff
  <2> QED
    BY <1>2, <2>1, <2>2
<1> QED
  BY <1>1, <1>2, DiffCases

-----------------------------------------------------------------------------
(* The order of the map.                                                   *)

Text == Seq(Nat)

\* Two texts, and two routes, are ordered where they first differ, or where
\* the one that comes first ends.
LessAt(s, t, l) ==
  /\ \A j \in 1 .. l - 1 : s[j] = t[j]
  /\ l = Len(s) + 1 \/ (l <= Len(s) /\ s[l] < t[l])
BeforeAt(r, q, l) ==
  /\ \A j \in 1 .. l - 1 : r[j] = q[j]
  /\ l = Len(r) + 1 \/ (l <= Len(r) /\ CompareText(r[l], q[l]) < 0)

LEMMA TextLessIs ==
  ASSUME NEW s \in Text, NEW t \in Text
  PROVE  CompareText(s, t) < 0 <=> \E l \in 1 .. Len(t) : LessAt(s, t, l)
<1> USE DEF Text
<1>0. Len(s) \in Nat /\ Len(t) \in Nat
  OBVIOUS
<1>1. CASE \A j \in 1 .. Len(s) : j <= Len(t) => s[j] = t[j]
  <2>1. CompareText(s, t) = Len(s) - Len(t)
    BY <1>1, NoDiff
  <2>2. ASSUME NEW l, l = Len(s) + 1, Len(s) < Len(t)
        PROVE  l \in 1 .. Len(t) /\ LessAt(s, t, l)
    <3>1. l \in 1 .. Len(t) /\ \A j \in 1 .. l - 1 : j \in 1 .. Len(s) /\ j <= Len(t)
      BY <1>0, <2>2
    <3>2. \A j \in 1 .. l - 1 : s[j] = t[j]
      BY <3>1, <1>1
    <3> QED
      BY <3>1, <3>2, <2>2 DEF LessAt
  <2>3. ASSUME NEW l \in 1 .. Len(t), LessAt(s, t, l) PROVE Len(s) < Len(t)
    BY <1>0, <1>1, <2>3 DEF LessAt
  <2> QED
    BY <1>0, <2>1, <2>2, <2>3
<1>2. ASSUME NEW m \in 1 .. Len(s), m <= Len(t), s[m] # t[m],
             \A j \in 1 .. m - 1 : s[j] = t[j]
      PROVE  CompareText(s, t) < 0 <=> \E l \in 1 .. Len(t) : LessAt(s, t, l)
  <2>1. s[m] \in Nat /\ t[m] \in Nat
    BY <1>2
  <2>2. CompareText(s, t) = s[m] - t[m]
    BY <1>2, FirstDiff
  <2>3. CompareText(s, t) < 0 <=> s[m] < t[m]
    BY <2>1, <2>2
  <2>4. s[m] < t[m] => m \in 1 .. Len(t) /\ LessAt(s, t, m)
    BY <1>0, <1>2 DEF LessAt
  <2>5. ASSUME NEW l \in 1 .. Len(t), LessAt(s, t, l) PROVE s[m] < t[m]
    <3>1. ~ (m < l) /\ l <= Len(s)
      BY <1>0, <1>2, <2>5 DEF LessAt
    <3>2. s[l] < t[l] /\ s[l] \in Nat /\ t[l] \in Nat
      BY <3>1, <2>5, <1>0 DEF LessAt
    <3>3. l = m
      BY <3>1, <3>2, <1>0, <1>2
    <3> QED
      BY <3>2, <3>3
  <2> QED
    BY <2>3, <2>4, <2>5
<1> QED
  BY <1>1, <1>2, DiffCases

LEMMA TextSign ==
  ASSUME NEW s \in Text, NEW t \in Text
  PROVE  CompareText(s, t) > 0 <=> CompareText(t, s) < 0
<1> USE DEF Text
<1>0. Len(s) \in Nat /\ Len(t) \in Nat
  OBVIOUS
<1>1. CASE \A j \in 1 .. Len(s) : j <= Len(t) => s[j] = t[j]
  <2>1. CompareText(s, t) = Len(s) - Len(t)
    BY <1>1, NoDiff
  <2>2. \A j \in 1 .. Len(t) : j <= Len(s) => t[j] = s[j]
    BY <1>0, <1>1
  <2>3. CompareText(t, s) = Len(t) - Len(s)
    BY <2>2, NoDiff
  <2> QED
    BY <1>0, <2>1, <2>3
<1>2. ASSUME NEW m \in 1 .. Len(s), m <= Len(t), s[m] # t[m],
             \A j \in 1 .. m - 1 : s[j] = t[j]
      PROVE  CompareText(s, t) > 0 <=> CompareText(t, s) < 0
  <2>1. s[m] \in Nat /\ t[m] \in Nat
    BY <1>2
  <2>2. CompareText(s, t) = s[m] - t[m]
    BY <1>2, FirstDiff
  <2>3. CompareText(t, s) = t[m] - s[m]
    BY <1>0, <1>2, FirstDiff
  <2> QED
    BY <2>1, <2>2, <2>3
<1> QED
  BY <1>1, <1>2, DiffCases

LEMMA TextType ==
  \A s \in Text : Len(s) \in Nat /\ \A j \in 1 .. Len(s) : s[j] \in Nat
BY DEF Text

LEMMA TextTransitive ==
  ASSUME NEW s \in Text, NEW t \in Text, NEW u \in Text,
         CompareText(s, t) < 0, CompareText(t, u) < 0
  PROVE  CompareText(s, u) < 0
<1>1. PICK l \in 1 .. Len(t) : LessAt(s, t, l)
  BY TextLessIs, Zenon
<1>2. PICK m \in 1 .. Len(u) : LessAt(t, u, m)
  BY TextLessIs, Zenon
<1>3. /\ Len(s) \in Nat /\ Len(t) \in Nat /\ Len(u) \in Nat
      /\ \A j \in 1 .. Len(s) : s[j] \in Nat
      /\ \A j \in 1 .. Len(t) : t[j] \in Nat
      /\ \A j \in 1 .. Len(u) : u[j] \in Nat
  BY TextType, Zenon
<1>4. CASE l < m
  <2>1. l \in 1 .. Len(u) /\ LessAt(s, u, l)
    BY <1>1, <1>2, <1>3, <1>4 DEF LessAt
  <2> QED
    BY <2>1, TextLessIs
<1>5. CASE m < l
  <2>1. LessAt(s, u, m)
    BY <1>1, <1>2, <1>3, <1>5 DEF LessAt
  <2> QED
    BY <2>1, TextLessIs
<1>6. CASE m = l
  <2>1. \A j \in 1 .. m - 1 : s[j] = u[j]
    BY <1>1, <1>2, <1>6 DEF LessAt
  <2>2. m <= Len(t) /\ t[m] < u[m]
    BY <1>1, <1>2, <1>3, <1>6 DEF LessAt
  <2>3. m = Len(s) + 1 \/ (m <= Len(s) /\ s[m] < t[m])
    BY <1>1, <1>6 DEF LessAt
  <2>4. m <= Len(s) => s[m] \in Nat /\ t[m] \in Nat /\ u[m] \in Nat
    BY <1>1, <1>3, <1>6
  <2>5. m = Len(s) + 1 \/ (m <= Len(s) /\ s[m] < u[m])
    <3>1. CASE m <= Len(s) /\ s[m] < t[m]
      <4>1. \A a, b, c \in Nat : a < b /\ b < c => a < c
        OBVIOUS
      <4> QED
        BY <4>1, <3>1, <2>2, <2>4
    <3> QED
      BY <3>1, <2>3
  <2>6. LessAt(s, u, m)
    BY <2>1, <2>5 DEF LessAt
  <2> QED
    BY <2>6, TextLessIs
<1> QED
  BY <1>4, <1>5, <1>6

LEMMA BeforeIs ==
  ASSUME NEW r \in Seq(Text), NEW q \in Seq(Text)
  PROVE  Before(r, q) <=> \E l \in 1 .. Len(q) : BeforeAt(r, q, l)
<1>0. Len(r) \in Nat /\ Len(q) \in Nat
  OBVIOUS
<1>1. CASE \A j \in 1 .. Len(r) : j <= Len(q) => r[j] = q[j]
  <2>1. Before(r, q) <=> Len(r) < Len(q)
    BY <1>1 DEF Before
  <2>2. ASSUME NEW l, l = Len(r) + 1, Len(r) < Len(q)
        PROVE  l \in 1 .. Len(q) /\ BeforeAt(r, q, l)
    <3>1. l \in 1 .. Len(q) /\ \A j \in 1 .. l - 1 : j \in 1 .. Len(r) /\ j <= Len(q)
      BY <1>0, <2>2
    <3>2. \A j \in 1 .. l - 1 : r[j] = q[j]
      BY <3>1, <1>1
    <3> QED
      BY <3>1, <3>2, <2>2 DEF BeforeAt
  <2>3. ASSUME NEW l \in 1 .. Len(q), BeforeAt(r, q, l) PROVE Len(r) < Len(q)
    <3>1. CASE l <= Len(r)
      <4>1. r[l] = q[l] /\ r[l] \in Text
        BY <3>1, <1>0, <1>1
      <4>2. CompareText(r[l], q[l]) = 0
        BY <4>1, CompareTextZero DEF Text
      <4> QED
        BY <4>2, <3>1, <2>3, <1>0 DEF BeforeAt
    <3>2. CASE l > Len(r)
      BY <3>2, <1>0
    <3> QED
      BY <3>1, <3>2, <1>0
  <2> QED
    BY <2>1, <2>2, <2>3
<1>2. ASSUME NEW m \in 1 .. Len(r), m <= Len(q), r[m] # q[m],
             \A j \in 1 .. m - 1 : r[j] = q[j]
      PROVE  Before(r, q) <=> \E l \in 1 .. Len(q) : BeforeAt(r, q, l)
  <2>1. Before(r, q) <=> CompareText(r[m], q[m]) < 0
    <3> DEFINE differ == {i \in 1 .. Len(r) : i <= Len(q) /\ r[i] # q[i]}
    <3>1. differ # {} /\ Least(differ) = m
      BY <1>2, LeastDiff
    <3> QED
      BY <3>1 DEF Before
  <2>2. CompareText(r[m], q[m]) < 0 => m \in 1 .. Len(q) /\ BeforeAt(r, q, m)
    BY <1>0, <1>2 DEF BeforeAt
  <2>3. ASSUME NEW l \in 1 .. Len(q), BeforeAt(r, q, l)
        PROVE  CompareText(r[m], q[m]) < 0
    <3>1. ~ (m < l) /\ l <= Len(r)
      BY <1>0, <1>2, <2>3 DEF BeforeAt
    <3>2. CompareText(r[l], q[l]) < 0
      BY <3>1, <2>3, <1>0 DEF BeforeAt
    <3>3. r[l] # q[l]
      <4>1. r[l] \in Text
        BY <3>1
      <4> QED
        BY <4>1, <3>2, CompareTextZero DEF Text
    <3>4. l = m
      BY <3>1, <3>3, <1>0, <1>2
    <3> QED
      BY <3>2, <3>4
  <2> QED
    BY <2>1, <2>2, <2>3
<1> QED
  BY <1>1, <1>2, DiffCases

\* operator< is a strict order, and no two routes are equivalent in it.
LEMMA BeforeIrreflexive ==
  ASSUME NEW r \in Seq(Text)
  PROVE  ~ Before(r, r)
BY DEF Before

LEMMA BeforeTotal ==
  ASSUME NEW r \in Seq(Text), NEW q \in Seq(Text)
  PROVE  r = q \/ Before(r, q) \/ Before(q, r)
<1>0. Len(r) \in Nat /\ Len(q) \in Nat
  OBVIOUS
<1>1. CASE \A j \in 1 .. Len(r) : j <= Len(q) => r[j] = q[j]
  <2>1. Before(r, q) <=> Len(r) < Len(q)
    BY <1>1 DEF Before
  <2>2. Before(q, r) <=> Len(q) < Len(r)
    <3>1. \A j \in 1 .. Len(q) : j <= Len(r) => q[j] = r[j]
      BY <1>0, <1>1
    <3> QED
      BY <3>1 DEF Before
  <2>3. Len(r) = Len(q) => r = q
    BY <1>1
  <2> QED
    BY <1>0, <2>1, <2>2, <2>3
<1>2. ASSUME NEW m \in 1 .. Len(r), m <= Len(q), r[m] # q[m],
             \A j \in 1 .. m - 1 : r[j] = q[j]
      PROVE  Before(r, q) \/ Before(q, r)
  <2>1. r[m] \in Text /\ q[m] \in Text /\ m \in 1 .. Len(q)
    BY <1>0, <1>2
  <2>2. CompareText(r[m], q[m]) \in Int /\ CompareText(r[m], q[m]) # 0
    BY <1>2, <2>1, CompareTextZero, CompareTextType DEF Text
  <2>3. CASE CompareText(r[m], q[m]) < 0
    <3>1. BeforeAt(r, q, m)
      BY <2>3, <1>2, <1>0 DEF BeforeAt
    <3> QED
      BY <3>1, <2>1, BeforeIs
  <2>4. CASE CompareText(r[m], q[m]) > 0
    <3>1. CompareText(q[m], r[m]) < 0
      BY <2>1, <2>4, TextSign
    <3>2. BeforeAt(q, r, m)
      BY <3>1, <1>2, <1>0 DEF BeforeAt
    <3> QED
      BY <3>2, <2>1, BeforeIs
  <2> QED
    BY <2>2, <2>3, <2>4
<1> QED
  BY <1>1, <1>2, DiffCases

LEMMA BeforeTransitive ==
  ASSUME NEW r \in Seq(Text), NEW q \in Seq(Text), NEW p \in Seq(Text),
         Before(r, q), Before(q, p)
  PROVE  Before(r, p)
<1>1. PICK l \in 1 .. Len(q) : BeforeAt(r, q, l)
  BY BeforeIs
<1>2. PICK m \in 1 .. Len(p) : BeforeAt(q, p, m)
  BY BeforeIs
<1>3. Len(r) \in Nat /\ Len(q) \in Nat /\ Len(p) \in Nat
  OBVIOUS
<1>4. CASE l < m
  <2>1. l \in 1 .. Len(p) /\ BeforeAt(r, p, l)
    BY <1>1, <1>2, <1>3, <1>4 DEF BeforeAt
  <2> QED
    BY <2>1, BeforeIs
<1>5. CASE m < l
  <2>1. BeforeAt(r, p, m)
    BY <1>1, <1>2, <1>3, <1>5 DEF BeforeAt
  <2> QED
    BY <2>1, BeforeIs
<1>6. CASE m = l
  <2>1. \A j \in 1 .. m - 1 : r[j] = p[j]
    BY <1>1, <1>2, <1>6 DEF BeforeAt
  <2>2. m <= Len(q) /\ CompareText(q[m], p[m]) < 0
    BY <1>1, <1>2, <1>3, <1>6 DEF BeforeAt
  <2>3. m = Len(r) + 1 \/ (m <= Len(r) /\ CompareText(r[m], q[m]) < 0)
    BY <1>1, <1>6 DEF BeforeAt
  <2>4. m <= Len(r) => r[m] \in Text /\ q[m] \in Text /\ p[m] \in Text
    BY <1>1, <1>2, <1>3, <1>6
  <2>5. m = Len(r) + 1 \/ (m <= Len(r) /\ CompareText(r[m], p[m]) < 0)
    <3>1. ASSUME m <= Len(r), CompareText(r[m], q[m]) < 0
          PROVE  CompareText(r[m], p[m]) < 0
      BY <3>1, <2>2, <2>4, TextTransitive
    <3> QED
      BY <3>1, <2>3
  <2>6. BeforeAt(r, p, m)
    BY <2>1, <2>5 DEF BeforeAt
  <2> QED
    BY <2>6, BeforeIs
<1> QED
  BY <1>4, <1>5, <1>6

-----------------------------------------------------------------------------
(* The fixed parts of a route.                                             *)

\* The recursive function of Route, and its step.
RouteStep(full, parts, start) ==
  LET colon == FindChar(full, Colon, start)
      next  == FindChar(full, Slash, colon)
  IN  IF colon = Npos THEN <<Substr(full, start, Len(full))>>
      ELSE IF full[colon - 1] # Slash \/ next = Npos THEN Invalid
      ELSE IF parts[next] = Invalid THEN Invalid
      ELSE <<Substr(full, start, colon - start)>> \o parts[next]

IsParts(full, parts) ==
  parts = [start \in 1 .. Len(full) |-> RouteStep(full, parts, start)]

LEMMA RouteIs ==
  ASSUME NEW full
  PROVE  Route(full) = (CHOOSE parts : IsParts(full, parts))[1]
BY DEF Route, IsParts, RouteStep

\* A step depends on what is beyond start only.
LEMMA RouteStepLooksAhead ==
  ASSUME NEW full \in Text, NEW start \in 1 .. Len(full), NEW f, NEW g,
         \A j \in start + 1 .. Len(full) : f[j] = g[j]
  PROVE  RouteStep(full, f, start) = RouteStep(full, g, start)
<1> DEFINE colon == FindChar(full, Colon, start)
           next  == FindChar(full, Slash, colon)
<1>1. Len(full) \in Nat
  BY DEF Text
<1>2. colon = Npos \/ (colon \in start .. Len(full) /\ full[colon] = Colon)
  BY FindCharResult DEF Text
<1>3. CASE colon = Npos
  BY <1>3 DEF RouteStep
<1>4. CASE colon # Npos
  <2>1. colon \in Nat \ {0} /\ start <= colon /\ full[colon] = Colon
    BY <1>1, <1>2, <1>4
  <2>2. next = Npos \/ (next \in colon .. Len(full) /\ full[next] = Slash)
    <3> HIDE DEF colon
    <3> QED
      BY <2>1, FindCharResult DEF Text
  <2>3. next = Npos \/ next \in start + 1 .. Len(full)
    <3> HIDE DEF colon, next
    <3> QED
      BY <2>1, <2>2, <1>1 DEF Slash, Colon
  <2>4. next = Npos \/ f[next] = g[next]
    <3> HIDE DEF next
    <3> QED
      BY <2>3
  <2> QED
    BY <2>4, <1>4 DEF RouteStep
<1> QED
  BY <1>3, <1>4

\* The function exists: from the end of the text on.
LEMMA PartsExist ==
  ASSUME NEW full \in Text
  PROVE  \E parts : IsParts(full, parts)
<1> DEFINE From(f, n) == [start \in 1 .. Len(full) |->
                            IF start > Len(full) - n THEN RouteStep(full, f, start)
                            ELSE Invalid]
           Has(n) == \E f : f = From(f, n)
<1>0. Len(full) \in Nat
  BY DEF Text
<1>1. Has(0)
  <2> DEFINE f == [start \in 1 .. Len(full) |-> Invalid]
  <2>1. \A start \in 1 .. Len(full) : ~ (start > Len(full) - 0)
    BY <1>0
  <2>2. From(f, 0) = f
    BY <2>1
  <2> QED
    BY <2>2
<1>2. ASSUME NEW n \in Nat, Has(n) PROVE Has(n + 1)
  <2>1. PICK f : f = From(f, n)
    BY <1>2
  <2> DEFINE g == From(f, n + 1)
  <2>2. ASSUME NEW start \in 1 .. Len(full), start > Len(full) - n
        PROVE  g[start] = f[start]
    <3>1. start > Len(full) - (n + 1)
      BY <2>2, <1>0
    <3>2. g[start] = RouteStep(full, f, start)
      BY <3>1
    <3>3. f[start] = RouteStep(full, f, start)
      BY <2>1, <2>2
    <3> QED
      BY <3>2, <3>3
  <2>3. ASSUME NEW start \in 1 .. Len(full), start > Len(full) - (n + 1)
        PROVE  RouteStep(full, g, start) = RouteStep(full, f, start)
    <3>1. \A j \in start + 1 .. Len(full) : j \in 1 .. Len(full) /\ j > Len(full) - n
      BY <2>3, <1>0
    <3>2. \A j \in start + 1 .. Len(full) : g[j] = f[j]
      BY <3>1, <2>2
    <3> HIDE DEF g
    <3> QED
      BY <3>2, RouteStepLooksAhead
  <2>4. g = From(g, n + 1)
    BY <2>3
  <2> HIDE DEF g
  <2> QED
    BY <2>4
<1> HIDE DEF Has
<1>3. \A n \in Nat : Has(n)
  <2> DEFINE S == {n \in Nat : Has(n)}
  <2>1. 0 \in S /\ \A n \in S : n + 1 \in S
    BY <1>1, <1>2
  <2> HIDE DEF S
  <2>2. S \in SUBSET Nat
    BY DEF S
  <2>3. S = Nat
    BY <2>1, <2>2, Induction
  <2> QED
    BY <2>3 DEF S
<1>4. Has(Len(full))
  BY <1>0, <1>3
<1>5. PICK f : f = From(f, Len(full))
  BY <1>4 DEF Has
<1>6. \A start \in 1 .. Len(full) : start > Len(full) - Len(full)
  BY <1>0
<1>7. f = [start \in 1 .. Len(full) |-> RouteStep(full, f, start)]
  BY <1>5, <1>6
<1> QED
  BY <1>7 DEF IsParts

\* What the constructor leaves: at least one part, each part begins with '/',
\* and each but the last ends with one.
RouteOK(r) ==
  /\ r \in Seq(Text) /\ Len(r) \in Nat \ {0}
  /\ \A i \in 1 .. Len(r) : /\ Len(r[i]) \in Nat \ {0} /\ r[i][1] = Slash
                            /\ i < Len(r) => r[i][Len(r[i])] = Slash

LEMMA RoutesOK == \A r \in Routes : RouteOK(r)
<1> SUFFICES ASSUME NEW full \in Pattern, Route(full) # Invalid
             PROVE  RouteOK(Route(full))
  BY DEF Routes
<1>0. full \in Text /\ Len(full) \in Nat \ {0} /\ full[1] = Slash
  BY SitesAssumption DEF Text
<1> DEFINE parts == CHOOSE f : IsParts(full, f)
<1>1. Route(full) = parts[1]
  BY RouteIs
<1>2. IsParts(full, parts)
  BY <1>0, PartsExist
<1> HIDE DEF parts
<1> DEFINE S == {n \in Nat : \A start \in 1 .. Len(full) :
                   start + n >= Len(full) /\ full[start] = Slash
                     => parts[start] = Invalid \/ RouteOK(parts[start])}
<1>3. ASSUME NEW start \in 1 .. Len(full), full[start] = Slash,
             parts[start] # Invalid,
             \A j \in start + 1 .. Len(full) :
               full[j] = Slash => parts[j] = Invalid \/ RouteOK(parts[j])
      PROVE  RouteOK(parts[start])
  <2> DEFINE colon == FindChar(full, Colon, start)
             next  == FindChar(full, Slash, colon)
  <2>1. parts[start] = RouteStep(full, parts, start)
    BY <1>2 DEF IsParts
  <2>2. colon = Npos \/ (colon \in start .. Len(full) /\ full[colon] = Colon)
    BY <1>0, FindCharResult DEF Text
  <2>3. CASE colon = Npos
    <3> DEFINE part == Substr(full, start, Len(full))
    <3>1. parts[start] = <<part>>
      BY <2>1, <2>3 DEF RouteStep
    <3>2. part \in Text /\ Len(part) \in Nat \ {0} /\ part[1] = Slash
      <4>1. /\ part \in Seq(Nat)
            /\ Len(part) = IF start + Len(full) - 1 < Len(full) THEN Len(full)
                           ELSE Len(full) - start + 1
            /\ \A i \in 1 .. Len(part) : part[i] = full[start + i - 1]
        <5>1. start \in 1 .. Len(full) + 1 /\ Len(full) \in Nat
          BY <1>0
        <5> HIDE DEF part
        <5> QED
          BY <5>1, <1>0, SubstrResult DEF Text, part
      <4> HIDE DEF part
      <4>2. Len(part) \in Nat \ {0}
        BY <4>1, <1>0
      <4>3. 1 \in 1 .. Len(part) /\ start + 1 - 1 = start
        BY <4>2
      <4>4. part[1] = full[start]
        BY <4>1, <4>3
      <4> QED
        BY <4>1, <4>2, <4>4, <1>3 DEF Text
    <3> HIDE DEF part
    <3> QED
      BY <3>1, <3>2 DEF RouteOK
  <2>4. CASE colon # Npos
    <3>1. colon \in Nat \ {0} /\ start <= colon /\ colon <= Len(full) /\ full[colon] = Colon
      BY <2>2, <2>4, <1>0
    <3>2. next = Npos \/ (next \in colon .. Len(full) /\ full[next] = Slash)
      <4> HIDE DEF colon
      <4> QED
        BY <3>1, <1>0, FindCharResult DEF Text
    <3> DEFINE part == Substr(full, start, colon - start)
    <3>3. /\ full[colon - 1] = Slash /\ next # Npos /\ parts[next] # Invalid
          /\ parts[start] = <<part>> \o parts[next]
      BY <2>1, <2>4, <1>3 DEF RouteStep
    <3>4. start < colon
      <4> HIDE DEF colon
      <4> QED
        BY <3>1, <1>3 DEF Slash, Colon
    <3>5. next \in start + 1 .. Len(full) /\ full[next] = Slash
      <4> HIDE DEF colon, next
      <4> QED
        BY <3>1, <3>2, <3>3, <3>4, <1>0
    <3>6. RouteOK(parts[next])
      <4> HIDE DEF next
      <4> QED
        BY <3>3, <3>5, <1>3
    <3>7. /\ part \in Text /\ Len(part) \in Nat \ {0}
          /\ part[1] = Slash /\ part[Len(part)] = Slash
      <4> HIDE DEF colon
      <4>1. /\ part \in Seq(Nat)
            /\ Len(part) = IF start + (colon - start) - 1 < Len(full) THEN colon - start
                           ELSE Len(full) - start + 1
            /\ \A i \in 1 .. Len(part) : part[i] = full[start + i - 1]
        <5>1. colon - start \in Nat /\ start \in 1 .. Len(full) + 1
          BY <3>1, <1>0
        <5> DEFINE n == colon - start
        <5> HIDE DEF n, part
        <5>2. n \in Nat
          BY <5>1 DEF n
        <5>3. LET piece == Substr(full, start, n)
              IN  /\ piece \in Seq(Nat)
                  /\ Len(piece) = IF start + n - 1 < Len(full) THEN n
                                  ELSE Len(full) - start + 1
                  /\ \A i \in 1 .. Len(piece) : piece[i] = full[start + i - 1]
          BY <5>1, <5>2, <1>0, SubstrResult DEF Text
        <5>4. part = Substr(full, start, n)
          BY DEF part, n
        <5> QED
          BY <5>3, <5>4 DEF n
      <4> HIDE DEF part
      <4>2. Len(part) = colon - start
        BY <4>1, <3>1, <1>0
      <4>3. Len(part) \in Nat \ {0}
        BY <4>2, <3>1, <3>4
      <4>4. 1 \in 1 .. Len(part) /\ start + 1 - 1 = start
        BY <4>3
      <4>5. Len(part) \in 1 .. Len(part) /\ start + Len(part) - 1 = colon - 1
        BY <4>2, <4>3, <3>1
      <4>6. part[1] = full[start]
        BY <4>1, <4>4
      <4>7. part[Len(part)] = full[colon - 1]
        BY <4>1, <4>5
      <4> QED
        BY <4>1, <4>3, <4>6, <4>7, <3>3, <1>3 DEF Text
    <3> DEFINE rest == parts[next]
    <3> HIDE DEF part, rest, next, colon
    <3>8. rest \in Seq(Text) /\ Len(rest) \in Nat \ {0}
      BY <3>6 DEF RouteOK, rest
    <3>9. /\ <<part>> \o rest \in Seq(Text) /\ Len(<<part>> \o rest) = Len(rest) + 1
          /\ (<<part>> \o rest)[1] = part
          /\ \A i \in 2 .. Len(rest) + 1 : (<<part>> \o rest)[i] = rest[i - 1]
      BY <3>7, <3>8
    <3> DEFINE whole == <<part>> \o rest
    <3> HIDE DEF whole
    <3>10. /\ whole \in Seq(Text) /\ Len(whole) = Len(rest) + 1 /\ whole[1] = part
           /\ \A i \in 2 .. Len(rest) + 1 : whole[i] = rest[i - 1]
           /\ parts[start] = whole
      BY <3>3, <3>9 DEF whole, rest
    <3>11. ASSUME NEW i \in 1 .. Len(whole)
           PROVE  /\ Len(whole[i]) \in Nat \ {0} /\ whole[i][1] = Slash
                  /\ i < Len(whole) => whole[i][Len(whole[i])] = Slash
      <4>1. CASE i = 1
        BY <4>1, <3>7, <3>10
      <4>2. CASE i # 1
        <5>1. /\ i - 1 \in 1 .. Len(rest) /\ i \in 2 .. Len(rest) + 1
              /\ i < Len(whole) => i - 1 < Len(rest)
          BY <4>2, <3>8, <3>10
        <5>2. /\ Len(rest[i - 1]) \in Nat \ {0} /\ rest[i - 1][1] = Slash
              /\ i - 1 < Len(rest) => rest[i - 1][Len(rest[i - 1])] = Slash
          BY <5>1, <3>6 DEF RouteOK, rest
        <5> QED
          BY <5>1, <5>2, <3>10
      <4> QED
        BY <4>1, <4>2
    <3>12. RouteOK(whole)
      BY <3>8, <3>10, <3>11 DEF RouteOK
    <3> QED
      BY <3>10, <3>12
  <2> QED
    BY <2>3, <2>4
<1>4. 0 \in S
  <2> SUFFICES ASSUME NEW start \in 1 .. Len(full), start + 0 >= Len(full),
                      full[start] = Slash, parts[start] # Invalid
               PROVE  RouteOK(parts[start])
    OBVIOUS
  <2>1. \A j \in start + 1 .. Len(full) : FALSE
    BY <1>0
  <2> QED
    BY <2>1, <1>3
<1>5. ASSUME NEW n \in S PROVE n + 1 \in S
  <2> SUFFICES ASSUME NEW start \in 1 .. Len(full), start + (n + 1) >= Len(full),
                      full[start] = Slash, parts[start] # Invalid
               PROVE  RouteOK(parts[start])
    BY <1>5
  <2>1. \A j \in start + 1 .. Len(full) : j \in 1 .. Len(full) /\ j + n >= Len(full)
    BY <1>0, <1>5
  <2> QED
    BY <2>1, <1>3, <1>5
<1>6. S = Nat
  <2> HIDE DEF S
  <2>1. S \in SUBSET Nat
    BY DEF S
  <2> QED
    BY <2>1, <1>4, <1>5, Induction
<1>7. Len(full) \in S /\ 1 \in 1 .. Len(full) /\ 1 + Len(full) >= Len(full)
  <2> HIDE DEF S
  <2> QED
    BY <1>0, <1>6
<1> QED
  BY <1>0, <1>1, <1>7

-----------------------------------------------------------------------------
(* The comparison of a route with a path.                                  *)

\* A name has at least one character, and goes on to the next '/'.
LEMMA NameEndResult ==
  ASSUME NEW path \in Text, NEW start \in 1 .. Len(path)
  PROVE  LET over == NameEnd(path, start)
         IN  /\ over \in start + 1 .. Len(path) + 1
             /\ \A i \in start + 1 .. over - 1 : path[i] # Slash
             /\ over <= Len(path) => path[over] = Slash
<1> DEFINE slash == FindChar(path, Slash, start + 1)
<1>0. Len(path) \in Nat /\ start + 1 \in Nat \ {0}
  BY DEF Text
<1>1. \/ /\ slash = Npos
         /\ \A i \in start + 1 .. Len(path) : path[i] # Slash
      \/ /\ slash \in start + 1 .. Len(path) /\ path[slash] = Slash
         /\ \A i \in start + 1 .. slash - 1 : path[i] # Slash
  <2> DEFINE n == start + 1
  <2> HIDE DEF n
  <2>1. n \in Nat \ {0}
    BY <1>0 DEF n
  <2>2. LET at == FindChar(path, Slash, n)
        IN  \/ /\ at = Npos
               /\ \A i \in n .. Len(path) : path[i] # Slash
            \/ /\ at \in n .. Len(path) /\ path[at] = Slash
               /\ \A i \in n .. at - 1 : path[i] # Slash
    BY <2>1, FindCharResult DEF Text
  <2> QED
    BY <2>2 DEF n
<1>2. NameEnd(path, start) = IF slash = Npos THEN Len(path) + 1 ELSE slash
  BY DEF NameEnd
<1> HIDE DEF slash
<1> QED
  BY <1>0, <1>1, <1>2 DEF Npos

\* The recursive function of Compare, and its step.
CompareStep(route, path, from, i, start) ==
  IF i > Len(route) THEN start - 1 - Len(path)
  ELSE LET test  == CompareText(route[i], Substr(path, start, Len(route[i])))
           after == start + Len(route[i])
       IN  CASE test # 0 -> test
             [] test = 0 /\ after > Len(path) ->
                  IF i = Len(route) THEN 0 ELSE -1
             [] test = 0 /\ after <= Len(path) /\ path[after - 1] # Slash -> 1
             [] OTHER -> from[i + 1][NameEnd(path, after)]

IsFrom(route, path, from) ==
  from = [i \in 1 .. Len(route) + 1 |-> [start \in 1 .. Len(path) + 1 |->
            CompareStep(route, path, from, i, start)]]

From(route, path) == CHOOSE from : IsFrom(route, path, from)

LEMMA CompareIs ==
  ASSUME NEW route, NEW path
  PROVE  Compare(route, path) = From(route, path)[1][1]
BY DEF Compare, From, IsFrom, CompareStep

\* What a step does, case by case.
Test(route, path, i, start) == CompareText(route[i], Substr(path, start, Len(route[i])))

StepIs(route, path, from, i, start, step) ==
  LET test  == Test(route, path, i, start)
      after == start + Len(route[i])
  IN  /\ test \in Int /\ after \in start + 1 .. start + Len(route[i])
      /\ test # 0 => step = test
      /\ test = 0 /\ after > Len(path) => step = IF i = Len(route) THEN 0 ELSE -1
      /\ test = 0 /\ after <= Len(path) /\ path[after - 1] # Slash => step = 1
      /\ test = 0 /\ after <= Len(path) /\ path[after - 1] = Slash
           => /\ step = from[i + 1][NameEnd(path, after)]
              /\ i + 1 \in 1 .. Len(route) + 1
              /\ NameEnd(path, after) \in 1 .. Len(path) + 1

LEMMA CompareStepIs ==
  ASSUME NEW route, RouteOK(route), NEW path \in Text, NEW from,
         NEW i \in 1 .. Len(route), NEW start \in 1 .. Len(path) + 1
  PROVE  StepIs(route, path, from, i, start, CompareStep(route, path, from, i, start))
<1> DEFINE test  == Test(route, path, i, start)
           after == start + Len(route[i])
           step  == CompareStep(route, path, from, i, start)
           n == Len(route[i])
<1>1. /\ route[i] \in Text /\ n \in Nat \ {0} /\ Len(route) \in Nat /\ Len(path) \in Nat
      /\ start \in Nat \ {0}
  BY DEF RouteOK, Text
<1>2. test \in Int
  <2> HIDE DEF n
  <2>1. Substr(path, start, n) \in Seq(Nat)
    BY <1>1, SubstrResult DEF Text
  <2>2. CompareText(route[i], Substr(path, start, n)) \in Int
    BY <1>1, <2>1, CompareTextType DEF Text
  <2> QED
    BY <2>2 DEF Test, n
<1>3. after \in start + 1 .. start + n
  BY <1>1
<1>4. ~ (i > Len(route)) /\ i + 1 \in 1 .. Len(route) + 1
  BY <1>1
<1>5. step = CASE test # 0 -> test
               [] test = 0 /\ after > Len(path) ->
                    IF i = Len(route) THEN 0 ELSE -1
               [] test = 0 /\ after <= Len(path) /\ path[after - 1] # Slash -> 1
               [] OTHER -> from[i + 1][NameEnd(path, after)]
  BY <1>4 DEF CompareStep, Test
<1>6. after <= Len(path) => NameEnd(path, after) \in 1 .. Len(path) + 1
  <2> SUFFICES ASSUME after <= Len(path) PROVE NameEnd(path, after) \in 1 .. Len(path) + 1
    OBVIOUS
  <2>1. after \in 1 .. Len(path)
    BY <1>1, <1>3
  <2> HIDE DEF after
  <2>2. NameEnd(path, after) \in after + 1 .. Len(path) + 1
    BY <2>1, NameEndResult
  <2> QED
    BY <1>1, <2>1, <2>2
<1> HIDE DEF test, step
<1>7. after > Len(path) <=> ~ (after <= Len(path))
  BY <1>1, <1>3
<1> HIDE DEF after
<1>8. /\ test # 0 => step = test
      /\ test = 0 /\ after > Len(path) => step = IF i = Len(route) THEN 0 ELSE -1
      /\ test = 0 /\ after <= Len(path) /\ path[after - 1] # Slash => step = 1
      /\ test = 0 /\ after <= Len(path) /\ path[after - 1] = Slash
           => step = from[i + 1][NameEnd(path, after)]
  BY <1>5, <1>7
<1> QED
  BY <1>2, <1>3, <1>4, <1>6, <1>8 DEF StepIs, test, step, after, n

\* A step looks at the next part only.
LEMMA CompareStepLooksAhead ==
  ASSUME NEW route, RouteOK(route), NEW path \in Text, NEW f, NEW g,
         NEW i \in 1 .. Len(route) + 1, NEW start \in 1 .. Len(path) + 1,
         \A j \in 1 .. Len(route) + 1, s \in 1 .. Len(path) + 1 :
           j = i + 1 => f[j][s] = g[j][s]
  PROVE  CompareStep(route, path, f, i, start) = CompareStep(route, path, g, i, start)
<1>0. Len(route) \in Nat /\ Len(path) \in Nat
  BY DEF RouteOK, Text
<1>1. CASE i > Len(route)
  BY <1>1 DEF CompareStep
<1>2. CASE i \in 1 .. Len(route)
  <2> DEFINE test  == Test(route, path, i, start)
             after == start + Len(route[i])
  <2>1. /\ StepIs(route, path, f, i, start, CompareStep(route, path, f, i, start))
        /\ StepIs(route, path, g, i, start, CompareStep(route, path, g, i, start))
    BY <1>2, CompareStepIs
  <2>2. after \in Nat
    <3>1. Len(route[i]) \in Nat
      BY <1>2 DEF RouteOK
    <3> QED
      BY <3>1
  <2>3. CASE test # 0 \/ after > Len(path) \/ path[after - 1] # Slash
    BY <2>1, <2>2, <2>3, <1>0 DEF StepIs
  <2>4. CASE test = 0 /\ after <= Len(path) /\ path[after - 1] = Slash
    <3>1. /\ CompareStep(route, path, f, i, start) = f[i + 1][NameEnd(path, after)]
          /\ CompareStep(route, path, g, i, start) = g[i + 1][NameEnd(path, after)]
          /\ i + 1 \in 1 .. Len(route) + 1 /\ NameEnd(path, after) \in 1 .. Len(path) + 1
      BY <2>1, <2>4 DEF StepIs
    <3> QED
      BY <3>1
  <2> QED
    BY <2>2, <2>3, <2>4, <1>0
<1> QED
  BY <1>0, <1>1, <1>2

LEMMA FromExists ==
  ASSUME NEW route, RouteOK(route), NEW path \in Text
  PROVE  \E from : IsFrom(route, path, from)
<1> DEFINE end == Len(route) + 1
           Rows(f, n) == [i \in 1 .. end |->
                            IF i > end - n
                            THEN [start \in 1 .. Len(path) + 1 |->
                                    CompareStep(route, path, f, i, start)]
                            ELSE <<>>]
           Has(n) == \E f : f = Rows(f, n)
<1>0. end \in Nat
  BY DEF RouteOK
<1> HIDE DEF end
<1>1. Has(0)
  <2> DEFINE f == [i \in 1 .. end |-> <<>>]
  <2>1. \A i \in 1 .. end : ~ (i > end - 0)
    BY <1>0
  <2>2. Rows(f, 0) = f
    BY <2>1
  <2> QED
    BY <2>2
<1>2. ASSUME NEW n \in Nat, Has(n) PROVE Has(n + 1)
  <2>1. PICK f : f = Rows(f, n)
    BY <1>2
  <2> DEFINE g == Rows(f, n + 1)
  <2>2. ASSUME NEW i \in 1 .. end, i > end - n
        PROVE  g[i] = f[i]
    <3>1. i > end - (n + 1)
      BY <2>2, <1>0
    <3>2. g[i] = [start \in 1 .. Len(path) + 1 |-> CompareStep(route, path, f, i, start)]
      BY <3>1
    <3>3. f[i] = [start \in 1 .. Len(path) + 1 |-> CompareStep(route, path, f, i, start)]
      BY <2>1, <2>2
    <3> QED
      BY <3>2, <3>3
  <2>3. ASSUME NEW i \in 1 .. end, i > end - (n + 1), NEW start \in 1 .. Len(path) + 1
        PROVE  CompareStep(route, path, g, i, start) = CompareStep(route, path, f, i, start)
    <3>1. \A j \in 1 .. end : j = i + 1 => j > end - n
      BY <2>3, <1>0
    <3>2. \A j \in 1 .. end : j = i + 1 => g[j] = f[j]
      BY <3>1, <2>2
    <3> HIDE DEF g
    <3>3. \A j \in 1 .. Len(route) + 1, s \in 1 .. Len(path) + 1 :
            j = i + 1 => g[j][s] = f[j][s]
      BY <3>2 DEF end
    <3>4. i \in 1 .. Len(route) + 1
      BY DEF end
    <3> QED
      BY <3>3, <3>4, CompareStepLooksAhead
  <2>4. g = Rows(g, n + 1)
    BY <2>3
  <2> HIDE DEF g
  <2> QED
    BY <2>4
<1> HIDE DEF Has
<1>3. \A n \in Nat : Has(n)
  <2> DEFINE S == {n \in Nat : Has(n)}
  <2>1. 0 \in S /\ \A n \in S : n + 1 \in S
    BY <1>1, <1>2
  <2> HIDE DEF S
  <2>2. S \in SUBSET Nat
    BY DEF S
  <2>3. S = Nat
    BY <2>1, <2>2, Induction
  <2> QED
    BY <2>3 DEF S
<1>4. Has(end)
  BY <1>0, <1>3
<1>5. PICK f : f = Rows(f, end)
  BY <1>4 DEF Has
<1>6. \A i \in 1 .. end : i > end - end
  BY <1>0
<1>7. f = [i \in 1 .. end |-> [start \in 1 .. Len(path) + 1 |->
                                 CompareStep(route, path, f, i, start)]]
  BY <1>5, <1>6
<1> QED
  BY <1>7 DEF IsFrom, end

\* The rows of the table that Compare looks at.
LEMMA FromIs ==
  ASSUME NEW route, RouteOK(route), NEW path \in Text,
         NEW start \in 1 .. Len(path) + 1
  PROVE  /\ From(route, path)[Len(route) + 1][start] = start - 1 - Len(path)
         /\ \A i \in 1 .. Len(route) :
              StepIs(route, path, From(route, path), i, start, From(route, path)[i][start])
<1> DEFINE from == From(route, path)
<1>0. Len(route) \in Nat
  BY DEF RouteOK
<1>1. IsFrom(route, path, from)
  <2>1. \E f : IsFrom(route, path, f)
    BY FromExists
  <2> QED
    BY <2>1 DEF From
<1> HIDE DEF from
<1>2. \A i \in 1 .. Len(route) + 1 :
        from[i][start] = CompareStep(route, path, from, i, start)
  <2> SUFFICES ASSUME NEW i \in 1 .. Len(route) + 1
               PROVE  from[i][start] = CompareStep(route, path, from, i, start)
    OBVIOUS
  <2>1. from[i] = [s \in 1 .. Len(path) + 1 |-> CompareStep(route, path, from, i, s)]
    BY <1>1 DEF IsFrom
  <2> QED
    BY <2>1
<1>3. from[Len(route) + 1][start] = start - 1 - Len(path)
  <2>1. Len(route) + 1 \in 1 .. Len(route) + 1 /\ Len(route) + 1 > Len(route)
    BY <1>0
  <2> QED
    BY <2>1, <1>2 DEF CompareStep
<1>4. ASSUME NEW i \in 1 .. Len(route)
      PROVE  StepIs(route, path, from, i, start, from[i][start])
  <2>1. i \in 1 .. Len(route) + 1
    BY <1>0
  <2>2. from[i][start] = CompareStep(route, path, from, i, start)
    BY <2>1, <1>2
  <2> QED
    BY <2>2, CompareStepIs
<1> QED
  BY <1>3, <1>4 DEF from

LEMMA CompareType ==
  ASSUME NEW route, RouteOK(route), NEW path \in Text
  PROVE  Compare(route, path) \in Int
<1> DEFINE end == Len(route) + 1
           from == From(route, path)
           S == {i \in 1 .. end : \A start \in 1 .. Len(path) + 1 : from[i][start] \in Int}
<1>0. Len(route) \in Nat \ {0} /\ Len(path) \in Nat /\ end \in Nat \ {0}
  BY DEF RouteOK, Text
<1>1. end \in S
  <2>1. \A start \in 1 .. Len(path) + 1 : from[end][start] = start - 1 - Len(path)
    BY FromIs
  <2> HIDE DEF from, end
  <2> QED
    BY <1>0, <2>1
<1>2. ASSUME NEW i \in 1 .. end - 1, i + 1 \in S PROVE i \in S
  <2>1. i \in 1 .. Len(route)
    BY <1>0
  <2> SUFFICES ASSUME NEW start \in 1 .. Len(path) + 1 PROVE from[i][start] \in Int
    BY <1>0
  <2>2. StepIs(route, path, from, i, start, from[i][start])
    BY <2>1, FromIs
  <2>3. start + Len(route[i]) \in Int
    BY <2>1 DEF RouteOK
  <2>4. \A s \in 1 .. Len(path) + 1 : from[i + 1][s] \in Int
    BY <1>2
  <2> HIDE DEF from, end, S
  <2> QED
    BY <2>2, <2>3, <2>4, SMTT(30) DEF StepIs
<1>3. 1 \in S
  <2> HIDE DEF S, end
  <2>1. \A i \in 1 .. end : i \in S
    BY <1>0, <1>1, <1>2, Downward
  <2>2. 1 \in 1 .. end
    BY <1>0
  <2> QED
    BY <2>1, <2>2
<1> QED
  BY <1>0, <1>3, CompareIs

-----------------------------------------------------------------------------
(* compare() returns zero for the paths that a route should match.         *)

\* A piece of a path.
LEMMA PieceIs ==
  ASSUME NEW path \in Text, NEW a \in Nat \ {0}, NEW b \in Nat,
         a <= b + 1, b <= Len(path)
  PROVE  /\ SubSeq(path, a, b) \in Text
         /\ Len(SubSeq(path, a, b)) = b - a + 1
         /\ \A i \in 1 .. b - a + 1 : SubSeq(path, a, b)[i] = path[a + i - 1]
BY DEF Text

\* The fixed part i is what the path has at start.
LEMMA PartIs ==
  ASSUME NEW route, RouteOK(route), NEW path \in Text,
         NEW i \in 1 .. Len(route), NEW start \in 1 .. Len(path) + 1
  PROVE  Test(route, path, i, start) = 0 <=>
           /\ start + Len(route[i]) - 1 <= Len(path)
           /\ SubSeq(path, start, start + Len(route[i]) - 1) = route[i]
<1> DEFINE n == Len(route[i])
           part == Substr(path, start, n)
           to == start + n - 1
<1>1. /\ route[i] \in Text /\ n \in Nat \ {0} /\ Len(path) \in Nat
      /\ start \in Nat \ {0} /\ to \in Nat
  BY DEF RouteOK, Text
<1>2. /\ part \in Text
      /\ Len(part) = IF to < Len(path) THEN n ELSE Len(path) - start + 1
  <2> HIDE DEF n, part
  <2> QED
    BY <1>1, SubstrResult DEF Text, part
<1>3. part = SubSeq(path, start, IF to < Len(path) THEN to ELSE Len(path))
  BY DEF Substr
<1>4. Test(route, path, i, start) = 0 <=> route[i] = part
  <2> HIDE DEF part
  <2>1. CompareText(route[i], part) = 0 <=> route[i] = part
    BY <1>1, <1>2, CompareTextZero DEF Text
  <2> QED
    BY <2>1 DEF Test, part
<1>5. CASE to <= Len(path)
  <2>1. (IF to < Len(path) THEN to ELSE Len(path)) = to
    BY <1>1, <1>5
  <2> QED
    BY <1>3, <1>4, <1>5, <2>1
<1>6. CASE ~ (to <= Len(path))
  <2> HIDE DEF part
  <2>1. Len(part) # n
    BY <1>1, <1>2, <1>6
  <2> QED
    BY <2>1, <1>4, <1>6
<1> QED
  BY <1>5, <1>6

\* Where a name begins at a, and ends before over.
LEMMA NameIs ==
  ASSUME NEW path \in Text, NEW a \in 1 .. Len(path), NEW b \in Nat,
         a <= b + 1, b <= Len(path)
  PROVE  IsName(SubSeq(path, a, b)) <=> a <= b /\ \A k \in a + 1 .. b : path[k] # Slash
<1> DEFINE name == SubSeq(path, a, b)
<1>0. Len(path) \in Nat /\ a \in Nat \ {0}
  BY DEF Text
<1>1. /\ name \in Text /\ Len(name) = b - a + 1
      /\ \A i \in 1 .. b - a + 1 : name[i] = path[a + i - 1]
  BY <1>0, PieceIs
<1> HIDE DEF name
<1>2. name # <<>> <=> a <= b
  <2>1. name # <<>> <=> Len(name) # 0
    BY <1>1 DEF Text
  <2> QED
    BY <2>1, <1>0, <1>1
<1>3. ASSUME \A i \in 2 .. Len(name) : name[i] # Slash, NEW k \in a + 1 .. b
      PROVE  path[k] # Slash
  <2>1. k - a + 1 \in 2 .. Len(name) /\ k - a + 1 \in 1 .. b - a + 1 /\ a + (k - a + 1) - 1 = k
    BY <1>0, <1>1
  <2> QED
    BY <2>1, <1>1, <1>3
<1>4. ASSUME \A k \in a + 1 .. b : path[k] # Slash, NEW i \in 2 .. Len(name)
      PROVE  name[i] # Slash
  <2>1. a + i - 1 \in a + 1 .. b /\ i \in 1 .. b - a + 1
    BY <1>0, <1>1
  <2> QED
    BY <2>1, <1>1, <1>4
<1>5. IsName(name) <=> a <= b /\ \A k \in a + 1 .. b : path[k] # Slash
  BY <1>2, <1>3, <1>4 DEF IsName
<1> QED
  BY <1>5 DEF name

LEMMA NameEndIs ==
  ASSUME NEW path \in Text, NEW a \in 1 .. Len(path), NEW over \in a + 1 .. Len(path) + 1
  PROVE  NameEnd(path, a) = over <=>
           /\ IsName(SubSeq(path, a, over - 1))
           /\ over <= Len(path) => path[over] = Slash
<1> DEFINE end == NameEnd(path, a)
<1>0. Len(path) \in Nat /\ a \in Nat \ {0} /\ over \in Nat
  BY DEF Text
<1>1. /\ end \in a + 1 .. Len(path) + 1
      /\ \A i \in a + 1 .. end - 1 : path[i] # Slash
      /\ end <= Len(path) => path[end] = Slash
  BY NameEndResult
<1>2. IsName(SubSeq(path, a, over - 1)) <=> \A k \in a + 1 .. over - 1 : path[k] # Slash
  <2>1. over - 1 \in Nat /\ a <= over - 1 /\ a <= (over - 1) + 1 /\ over - 1 <= Len(path)
    BY <1>0
  <2> DEFINE b == over - 1
  <2> HIDE DEF b
  <2>2. IsName(SubSeq(path, a, b)) <=> a <= b /\ \A k \in a + 1 .. b : path[k] # Slash
    BY <2>1, NameIs DEF b
  <2> QED
    BY <2>1, <2>2 DEF b
<1> HIDE DEF end
<1>3. ASSUME \A k \in a + 1 .. over - 1 : path[k] # Slash,
             over <= Len(path) => path[over] = Slash
      PROVE  end = over
  <2>1. ~ (end < over)
    BY <1>0, <1>1, <1>3
  <2>2. ~ (over < end)
    BY <1>0, <1>1, <1>3
  <2> QED
    BY <1>0, <1>1, <2>1, <2>2
<1>4. end = over => (\A k \in a + 1 .. over - 1 : path[k] # Slash)
                    /\ (over <= Len(path) => path[over] = Slash)
  BY <1>1
<1> QED
  BY <1>2, <1>3, <1>4 DEF end

\* The cut of the route from part i on, which begins at start.
CutFrom(route, path, i, start, end) ==
  /\ end[i] = start + Len(route[i]) - 1
  /\ \A j \in i .. Len(route) :
       /\ end[j] >= Len(route[j])
       /\ SubSeq(path, end[j] - Len(route[j]) + 1, end[j]) = route[j]
  /\ \A j \in i + 1 .. Len(route) :
       IsName(SubSeq(path, end[j - 1] + 1, end[j] - Len(route[j])))
  /\ LET last == route[Len(route)]
         rest == SubSeq(path, end[Len(route)] + 1, Len(path))
     IN  rest = <<>> \/ (last[Len(last)] = Slash /\ IsName(rest))

LEMMA CutFromIs ==
  ASSUME NEW route, RouteOK(route), NEW path, NEW end
  PROVE  IsCut(route, path, end) <=> CutFrom(route, path, 1, 1, end)
<1>1. 1 + Len(route[1]) - 1 = Len(route[1])
  BY DEF RouteOK
<1> QED
  BY <1>1 DEF IsCut, CutFrom

\* A name is not empty.
LEMMA NameHasText ==
  ASSUME NEW path \in Text, NEW a \in Nat \ {0}, NEW b \in Nat, b <= Len(path),
         IsName(SubSeq(path, a, b))
  PROVE  a <= b
<1>1. ~ (a <= b) => SubSeq(path, a, b) = <<>>
  BY DEF Text
<1> QED
  BY <1>1 DEF IsName

\* The last fixed part that the path has ends the cut, or a name does.
LEMMA CutLast ==
  ASSUME NEW route, RouteOK(route), NEW path \in Text,
         NEW start \in 1 .. Len(path) + 1,
         NEW end \in [1 .. Len(route) -> 1 .. Len(path)],
         end[Len(route)] = start + Len(route[Len(route)]) - 1
  PROVE  CutFrom(route, path, Len(route), start, end) <=>
           /\ Test(route, path, Len(route), start) = 0
           /\ \/ end[Len(route)] = Len(path)
              \/ /\ path[end[Len(route)]] = Slash
                 /\ NameEnd(path, end[Len(route)] + 1) = Len(path) + 1
<1> DEFINE n == Len(route)
           part == route[n]
           e == end[n]
           rest == SubSeq(path, e + 1, Len(path))
<1>0. /\ n \in Nat \ {0} /\ n \in 1 .. n /\ Len(path) \in Nat /\ start \in Nat \ {0}
  BY DEF RouteOK, Text
<1>1. /\ n \in Nat \ {0} /\ n \in 1 .. n /\ part \in Text /\ Len(part) \in Nat \ {0}
      /\ Len(path) \in Nat /\ e \in 1 .. Len(path) /\ start \in Nat \ {0}
  <2>1. part \in Text /\ Len(part) \in Nat \ {0}
    BY <1>0 DEF RouteOK
  <2>2. e \in 1 .. Len(path)
    BY <1>0
  <2> QED
    BY <1>0, <2>1, <2>2
<1>2. /\ e = start + Len(part) - 1 /\ e >= Len(part)
      /\ e - Len(part) + 1 = start /\ e <= Len(path) /\ e + 1 \in Nat \ {0}
  <2>1. e = start + Len(part) - 1
    OBVIOUS
  <2> HIDE DEF e, part, n
  <2> QED
    BY <1>1, <2>1
<1>3. Test(route, path, n, start) = 0 <=>
        SubSeq(path, e - Len(part) + 1, e) = part
  <2>1. Test(route, path, n, start) = 0 <=>
          /\ start + Len(part) - 1 <= Len(path)
          /\ SubSeq(path, start, start + Len(part) - 1) = part
    <3> HIDE DEF n
    <3> QED
      BY <1>1, PartIs DEF n
  <2> HIDE DEF e, part
  <2> QED
    BY <2>1, <1>2
<1>4. rest = <<>> <=> e = Len(path)
  <2> HIDE DEF e, n, part
  <2>1. Len(rest) = Len(path) - e /\ rest \in Text
    <3>1. /\ e + 1 <= Len(path) + 1 /\ Len(path) <= Len(path)
          /\ Len(path) - (e + 1) + 1 = Len(path) - e
      BY <1>1
    <3> QED
      BY <1>1, <1>2, <3>1, PieceIs
  <2> HIDE DEF rest
  <2>2. rest = <<>> <=> Len(rest) = 0
    BY <2>1 DEF Text
  <2>3. Len(path) - e = 0 <=> e = Len(path)
    BY <1>1
  <2> QED
    BY <2>1, <2>2, <2>3
<1>5. ASSUME Test(route, path, n, start) = 0
      PROVE  part[Len(part)] = path[e]
  <2> HIDE DEF e, part, n
  <2>1. SubSeq(path, e - Len(part) + 1, e)[Len(part)] = path[e]
    <3>1. /\ e - Len(part) + 1 \in Nat \ {0} /\ e \in Nat /\ e - Len(part) + 1 <= e + 1
          /\ Len(part) \in 1 .. e - (e - Len(part) + 1) + 1
          /\ e - Len(part) + 1 + Len(part) - 1 = e
      BY <1>1, <1>2
    <3> QED
      BY <3>1, <1>2, PieceIs
  <2> QED
    BY <2>1, <1>3, <1>5
<1>6. ASSUME e < Len(path)
      PROVE  IsName(rest) <=> NameEnd(path, e + 1) = Len(path) + 1
  <2> HIDE DEF e, part, n
  <2> DEFINE a == e + 1
             over == Len(path) + 1
  <2>1. /\ a \in 1 .. Len(path) /\ over \in a + 1 .. Len(path) + 1
        /\ ~ (over <= Len(path)) /\ over - 1 = Len(path)
    BY <1>1, <1>6
  <2> HIDE DEF a, over
  <2>2. NameEnd(path, a) = over <=> IsName(SubSeq(path, a, over - 1))
    BY <2>1, NameEndIs
  <2> QED
    BY <2>1, <2>2 DEF a, over
<1>7. CutFrom(route, path, n, start, end) <=>
        /\ SubSeq(path, e - Len(part) + 1, e) = part
        /\ rest = <<>> \/ (part[Len(part)] = Slash /\ IsName(rest))
  <2>1. n .. n = {n} /\ n + 1 .. n = {}
    BY <1>1
  <2> HIDE DEF n
  <2> QED
    BY <1>2, <2>1 DEF CutFrom, n
<1>8. e = Len(path) \/ e < Len(path)
  BY <1>1
<1> HIDE DEF e, part, rest
<1>9. CutFrom(route, path, n, start, end) <=>
        /\ Test(route, path, n, start) = 0
        /\ e = Len(path) \/ (path[e] = Slash /\ NameEnd(path, e + 1) = Len(path) + 1)
  BY <1>3, <1>4, <1>5, <1>6, <1>7, <1>8
<1> QED
  BY <1>9 DEF e

\* A cut from part i on is the part, a name, and a cut from the next part on.
LEMMA CutNext ==
  ASSUME NEW route, RouteOK(route), NEW path \in Text,
         NEW i \in 1 .. Len(route) - 1, NEW start \in 1 .. Len(path) + 1,
         NEW end \in [1 .. Len(route) -> 1 .. Len(path)],
         end[i] = start + Len(route[i]) - 1
  PROVE  CutFrom(route, path, i, start, end) <=>
           /\ Test(route, path, i, start) = 0
           /\ end[i] < Len(path) /\ path[end[i]] = Slash
           /\ CutFrom(route, path, i + 1, NameEnd(path, end[i] + 1), end)
<1> DEFINE n == Len(route)
           part == route[i]
           next == route[i + 1]
           e == end[i]
           f == end[i + 1]
           over == f - Len(next) + 1
<1>1. /\ n \in Nat \ {0} /\ i \in 1 .. n /\ i + 1 \in 1 .. n /\ i < n /\ i \in Nat
      /\ Len(path) \in Nat /\ start \in Nat \ {0}
  BY DEF RouteOK, Text
<1>2. /\ part \in Text /\ Len(part) \in Nat \ {0} /\ part[Len(part)] = Slash
      /\ next \in Text /\ Len(next) \in Nat \ {0} /\ next[1] = Slash
  <2> HIDE DEF n
  <2>1. part \in Text /\ Len(part) \in Nat \ {0} /\ part[Len(part)] = Slash
    BY <1>1 DEF RouteOK, n
  <2>2. next \in Text /\ Len(next) \in Nat \ {0} /\ next[1] = Slash
    BY <1>1 DEF RouteOK, n
  <2> QED
    BY <2>1, <2>2
<1>3. e \in 1 .. Len(path) /\ f \in 1 .. Len(path)
  <2> HIDE DEF n
  <2> QED
    BY <1>1 DEF n
<1>4. /\ e = start + Len(part) - 1 /\ e >= Len(part)
      /\ e - Len(part) + 1 = start /\ e <= Len(path)
  <2>1. e = start + Len(part) - 1
    OBVIOUS
  <2> HIDE DEF e, part, n
  <2> QED
    BY <1>1, <1>2, <1>3, <2>1
<1> HIDE DEF n
<1>5. Test(route, path, i, start) = 0 <=>
        SubSeq(path, e - Len(part) + 1, e) = part
  <2>1. Test(route, path, i, start) = 0 <=>
          /\ start + Len(part) - 1 <= Len(path)
          /\ SubSeq(path, start, start + Len(part) - 1) = part
    BY <1>1, PartIs DEF n
  <2> HIDE DEF e, part
  <2> QED
    BY <2>1, <1>4
<1>6. Test(route, path, i, start) = 0 => path[e] = Slash
  <2> HIDE DEF e, part
  <2>1. SubSeq(path, e - Len(part) + 1, e)[Len(part)] = path[e]
    <3>1. /\ e - Len(part) + 1 \in Nat \ {0} /\ e \in Nat /\ e - Len(part) + 1 <= e + 1
          /\ Len(part) \in 1 .. e - (e - Len(part) + 1) + 1
          /\ e - Len(part) + 1 + Len(part) - 1 = e
      BY <1>2, <1>3, <1>4
    <3> QED
      BY <3>1, <1>4, PieceIs
  <2> QED
    BY <2>1, <1>2, <1>5
\* The conjuncts about the parts after i, of the cut from i and of that from
\* i + 1.
<1> DEFINE Rest ==
             /\ \A j \in i + 1 .. n :
                  /\ end[j] >= Len(route[j])
                  /\ SubSeq(path, end[j] - Len(route[j]) + 1, end[j]) = route[j]
             /\ \A j \in i + 2 .. n :
                  IsName(SubSeq(path, end[j - 1] + 1, end[j] - Len(route[j])))
             /\ LET last == route[n]
                    rest == SubSeq(path, end[n] + 1, Len(path))
                IN  rest = <<>> \/ (last[Len(last)] = Slash /\ IsName(rest))
<1>7. CutFrom(route, path, i, start, end) <=>
        /\ SubSeq(path, e - Len(part) + 1, e) = part
        /\ IsName(SubSeq(path, e + 1, f - Len(next)))
        /\ Rest
  <2>1. i .. n = {i} \cup (i + 1 .. n) /\ i + 1 .. n = {i + 1} \cup (i + 2 .. n)
    BY <1>1
  <2>2. i + 1 - 1 = i
    BY <1>1
  <2>3. (\A j \in i .. n : /\ end[j] >= Len(route[j])
                           /\ SubSeq(path, end[j] - Len(route[j]) + 1, end[j]) = route[j])
        <=> /\ SubSeq(path, e - Len(part) + 1, e) = part
            /\ \A j \in i + 1 .. n :
                 /\ end[j] >= Len(route[j])
                 /\ SubSeq(path, end[j] - Len(route[j]) + 1, end[j]) = route[j]
    BY <2>1, <1>4
  <2>4. (\A j \in i + 1 .. n : IsName(SubSeq(path, end[j - 1] + 1, end[j] - Len(route[j]))))
        <=> /\ IsName(SubSeq(path, e + 1, f - Len(next)))
            /\ \A j \in i + 2 .. n :
                 IsName(SubSeq(path, end[j - 1] + 1, end[j] - Len(route[j])))
    <3> DEFINE Name(j) == IsName(SubSeq(path, end[j - 1] + 1, end[j] - Len(route[j])))
    <3>1. Name(i + 1) <=> IsName(SubSeq(path, e + 1, f - Len(next)))
      BY <2>2
    <3> HIDE DEF Name
    <3>2. (\A j \in i + 1 .. n : Name(j)) <=> Name(i + 1) /\ \A j \in i + 2 .. n : Name(j)
      BY <2>1
    <3> QED
      BY <3>1, <3>2 DEF Name
  <2> QED
    BY <2>3, <2>4 DEF CutFrom, n
<1>8. CutFrom(route, path, i + 1, NameEnd(path, e + 1), end) <=>
        f = NameEnd(path, e + 1) + Len(next) - 1 /\ Rest
  <2>1. i + 1 + 1 = i + 2
    BY <1>1
  <2> QED
    BY <2>1 DEF CutFrom, n
<1>9. Rest => f >= Len(next) /\ SubSeq(path, over, f) = next
  <2>1. i + 1 \in i + 1 .. n
    BY <1>1
  <2> QED
    BY <2>1
\* Where the next part begins, the name is over.
<1>10. ASSUME Rest, e < Len(path)
       PROVE  f = NameEnd(path, e + 1) + Len(next) - 1 <=>
                IsName(SubSeq(path, e + 1, f - Len(next)))
  <2>1. f >= Len(next) /\ SubSeq(path, over, f) = next
    BY <1>9, <1>10
  <2> HIDE DEF e, f, next, part, over, Rest
  <2> DEFINE a == e + 1
             end1 == NameEnd(path, a)
  <2>2. /\ a \in 1 .. Len(path) /\ a \in Nat \ {0} /\ over \in Nat \ {0}
        /\ over - 1 = f - Len(next) /\ over <= Len(path) /\ over <= f /\ f \in Nat
        /\ over <= f + 1 /\ f <= Len(path)
        /\ f - Len(next) \in Nat /\ f - Len(next) <= Len(path)
    BY <1>2, <1>3, <1>10, <2>1 DEF over
  <2> HIDE DEF a
  <2>3. path[over] = Slash
    <3>1. 1 \in 1 .. f - over + 1 /\ over + 1 - 1 = over
      BY <2>2
    <3>2. SubSeq(path, over, f)[1] = path[over]
      BY <2>2, <3>1, PieceIs
    <3> QED
      BY <3>2, <2>1, <1>2
  <2>4. end1 \in a + 1 .. Len(path) + 1
    BY <2>2, NameEndResult
  <2>5. end1 = over <=> f = end1 + Len(next) - 1
    <3> HIDE DEF end1
    <3>1. end1 \in Int
      BY <2>2, <2>4
    <3> QED
      BY <1>2, <1>3, <3>1 DEF over
  <2>6. IsName(SubSeq(path, a, f - Len(next))) => a <= f - Len(next)
    BY <2>2, NameHasText
  <2>7. CASE over \in a + 1 .. Len(path) + 1
    <3>1. NameEnd(path, a) = over <=>
           /\ IsName(SubSeq(path, a, over - 1))
           /\ over <= Len(path) => path[over] = Slash
      BY <2>2, <2>7, NameEndIs
    <3> QED
      BY <3>1, <2>2, <2>3, <2>5 DEF a
  <2>8. CASE ~ (over \in a + 1 .. Len(path) + 1)
    <3>1. ~ (end1 = over)
      BY <2>4, <2>8
    <3>2. ~ (a <= f - Len(next))
      <4>1. over = f - Len(next) + 1
        BY DEF over
      <4>2. f - Len(next) \in Nat
        BY <2>2
      <4> QED
        BY <2>2, <2>8, <4>1
    <3> QED
      BY <3>1, <3>2, <2>5, <2>6 DEF a
  <2> QED
    BY <2>7, <2>8
<1>11. Rest /\ IsName(SubSeq(path, e + 1, f - Len(next))) => e < Len(path)
  <2> SUFFICES ASSUME Rest, IsName(SubSeq(path, e + 1, f - Len(next))) PROVE e < Len(path)
    OBVIOUS
  <2>1. f >= Len(next)
    BY <1>9
  <2> HIDE DEF e, f, next, part, over, Rest
  <2>2. /\ e + 1 \in Nat \ {0} /\ f - Len(next) \in Nat /\ f - Len(next) <= Len(path)
    BY <2>1, <1>2, <1>3
  <2>3. e + 1 <= f - Len(next)
    <3> DEFINE a == e + 1
               b == f - Len(next)
    <3>1. IsName(SubSeq(path, a, b)) /\ a \in Nat \ {0} /\ b \in Nat /\ b <= Len(path)
      BY <2>2
    <3> HIDE DEF a, b
    <3>2. a <= b
      BY <3>1, NameHasText
    <3> QED
      BY <3>2 DEF a, b
  <2> QED
    BY <2>2, <2>3, <1>3
<1> HIDE DEF e, f, part, next, Rest
<1>12. CutFrom(route, path, i, start, end) <=>
         /\ Test(route, path, i, start) = 0
         /\ e < Len(path) /\ path[e] = Slash
         /\ CutFrom(route, path, i + 1, NameEnd(path, e + 1), end)
  BY <1>5, <1>6, <1>7, <1>8, <1>10, <1>11
<1> QED
  BY <1>12 DEF e

\* A cut from part i on does not depend on where the parts before i end.
LEMMA CutAgrees ==
  ASSUME NEW route, RouteOK(route), NEW path, NEW i \in 1 .. Len(route), NEW start,
         NEW f, NEW g, \A j \in i .. Len(route) : f[j] = g[j], CutFrom(route, path, i, start, f)
  PROVE  CutFrom(route, path, i, start, g)
<1> DEFINE n == Len(route)
<1>1. n \in Nat /\ i \in i .. n /\ n \in i .. n
  BY DEF RouteOK
<1>2. g[i] = f[i] /\ g[n] = f[n]
  BY <1>1
<1>3. \A j \in i + 1 .. n : j - 1 \in i .. n /\ j \in i .. n
  BY <1>1
<1>4. \A j \in i + 1 .. n : g[j - 1] = f[j - 1] /\ g[j] = f[j]
  BY <1>3
<1>5. \A j \in i .. n : g[j] = f[j]
  OBVIOUS
<1> HIDE DEF n
<1> QED
  BY <1>2, <1>4, <1>5 DEF CutFrom, n

\* When a step of the comparison is zero.
LEMMA ZeroStep ==
  ASSUME NEW route, RouteOK(route), NEW path \in Text,
         NEW i \in 1 .. Len(route), NEW start \in 1 .. Len(path) + 1, NEW e,
         e = start + Len(route[i]) - 1
  PROVE  /\ Test(route, path, i, start) = 0 => e \in 1 .. Len(path)
         /\ From(route, path)[i][start] = 0 <=>
              /\ Test(route, path, i, start) = 0
              /\ \/ e = Len(path) /\ i = Len(route)
                 \/ /\ e < Len(path) /\ path[e] = Slash
                    /\ From(route, path)[i + 1][NameEnd(path, e + 1)] = 0
<1> DEFINE n == Len(route[i])
           step == From(route, path)[i][start]
           next == From(route, path)[i + 1][NameEnd(path, e + 1)]
           test == Test(route, path, i, start)
<1>1. /\ n \in Nat \ {0} /\ Len(path) \in Nat /\ start \in Nat \ {0}
  BY DEF RouteOK, Text
<1>2. e = start + n - 1 /\ start + n = e + 1 /\ e \in Nat /\ e + 1 - 1 = e /\ e >= 1
  BY <1>1
<1>3. test = 0 => e <= Len(path)
  BY <1>2, PartIs
<1>4. StepIs(route, path, From(route, path), i, start, step)
  BY FromIs
<1>5. /\ test # 0 => step = test
      /\ test = 0 /\ e + 1 > Len(path) => step = IF i = Len(route) THEN 0 ELSE -1
      /\ test = 0 /\ e + 1 <= Len(path) /\ path[e] # Slash => step = 1
      /\ test = 0 /\ e + 1 <= Len(path) /\ path[e] = Slash => step = next
  <2> HIDE DEF step, test
  <2> QED
    BY <1>4, <1>2 DEF StepIs, test
<1> HIDE DEF step, next, test, n
<1>6. test = 0 => e \in 1 .. Len(path)
  BY <1>1, <1>2, <1>3
<1>7. /\ e + 1 <= Len(path) <=> e < Len(path)
      /\ ~ (e + 1 <= Len(path)) <=> e + 1 > Len(path)
      /\ e <= Len(path) /\ e + 1 > Len(path) => e = Len(path)
      /\ e = Len(path) => e + 1 > Len(path) /\ ~ (e < Len(path))
  BY <1>1, <1>2
<1>8. -1 # 0 /\ 1 # 0
  OBVIOUS
<1>9. step = 0 <=>
        /\ test = 0
        /\ \/ e = Len(path) /\ i = Len(route)
           \/ e < Len(path) /\ path[e] = Slash /\ next = 0
  <2>1. CASE test # 0
    BY <1>5, <2>1
  <2>2. CASE test = 0 /\ e = Len(path)
    BY <1>5, <1>7, <1>8, <2>2
  <2>3. CASE test = 0 /\ e < Len(path) /\ path[e] # Slash
    BY <1>5, <1>7, <1>8, <2>3
  <2>4. CASE test = 0 /\ e < Len(path) /\ path[e] = Slash
    BY <1>5, <1>7, <2>4
  <2> QED
    BY <1>3, <1>7, <2>1, <2>2, <2>3, <2>4
<1> QED
  BY <1>6, <1>9 DEF step, next, test

Ends(route, path) == [1 .. Len(route) -> 1 .. Len(path)]

\* The comparison of the parts from i on is zero if there is a cut from i on.
HasCut(route, path, i) ==
  \A start \in 1 .. Len(path) + 1 :
    From(route, path)[i][start] = 0 <=>
      \E end \in Ends(route, path) : CutFrom(route, path, i, start, end)

LEMMA HasCutLast ==
  ASSUME NEW route, RouteOK(route), NEW path \in Text
  PROVE  HasCut(route, path, Len(route))
<1> DEFINE n == Len(route)
<1>0. n \in 1 .. n /\ n \in Nat \ {0} /\ Len(path) \in Nat
  BY DEF RouteOK, Text
<1> SUFFICES ASSUME NEW start \in 1 .. Len(path) + 1
             PROVE  From(route, path)[n][start] = 0 <=>
                      \E end \in Ends(route, path) : CutFrom(route, path, n, start, end)
  BY DEF HasCut
<1> DEFINE e == start + Len(route[n]) - 1
           Zero == /\ Test(route, path, n, start) = 0
                   /\ \/ e = Len(path)
                      \/ path[e] = Slash /\ NameEnd(path, e + 1) = Len(path) + 1
<1>1. /\ Test(route, path, n, start) = 0 => e \in 1 .. Len(path)
      /\ From(route, path)[n][start] = 0 <=>
           /\ Test(route, path, n, start) = 0
           /\ \/ e = Len(path) /\ n = Len(route)
              \/ /\ e < Len(path) /\ path[e] = Slash
                 /\ From(route, path)[n + 1][NameEnd(path, e + 1)] = 0
  <2> HIDE DEF n, e
  <2>1. n \in 1 .. Len(route) /\ e = start + Len(route[n]) - 1
    BY <1>0 DEF n, e
  <2> QED
    BY <2>1, ZeroStep
<1>2. ASSUME Test(route, path, n, start) = 0, e < Len(path)
      PROVE  From(route, path)[n + 1][NameEnd(path, e + 1)] = 0 <=>
               NameEnd(path, e + 1) = Len(path) + 1
  <2>1. e \in 1 .. Len(path) /\ e + 1 \in 1 .. Len(path)
    <3> HIDE DEF e
    <3> QED
      BY <1>0, <1>1, <1>2
  <2> HIDE DEF e
  <2> DEFINE over == NameEnd(path, e + 1)
             zero == From(route, path)[n + 1][over]
  <2>2. over \in e + 1 + 1 .. Len(path) + 1
    BY <2>1, NameEndResult
  <2>3. over \in 1 .. Len(path) + 1
    BY <1>0, <2>1, <2>2
  <2>4. zero = over - 1 - Len(path)
    BY <2>3, FromIs
  <2> HIDE DEF over, zero, n
  <2>5. zero = 0 <=> over = Len(path) + 1
    BY <1>0, <2>3, <2>4
  <2> QED
    BY <2>5 DEF over, zero
<1> HIDE DEF n
<1>3. ASSUME NEW end \in Ends(route, path), end[n] = e
      PROVE  CutFrom(route, path, n, start, end) <=> Zero
  <2> HIDE DEF e
  <2>1. /\ end \in [1 .. Len(route) -> 1 .. Len(path)] /\ end[Len(route)] = e
        /\ e = start + Len(route[Len(route)]) - 1
    BY <1>3 DEF Ends, n, e
  <2>2. CutFrom(route, path, Len(route), start, end) <=>
          /\ Test(route, path, Len(route), start) = 0
          /\ \/ e = Len(path)
             \/ path[e] = Slash /\ NameEnd(path, e + 1) = Len(path) + 1
    BY <2>1, CutLast
  <2> QED
    BY <2>2 DEF n
<1>4. \A end : CutFrom(route, path, n, start, end) => end[n] = e
  BY DEF CutFrom
<1>5. Test(route, path, n, start) = 0 =>
        \E end \in Ends(route, path) : end[n] = e
  <2> SUFFICES ASSUME Test(route, path, n, start) = 0
               PROVE  \E end \in Ends(route, path) : end[n] = e
    OBVIOUS
  <2>1. e \in 1 .. Len(path)
    BY <1>1
  <2> HIDE DEF e
  <2> DEFINE end == [j \in 1 .. Len(route) |-> e]
  <2>2. end \in Ends(route, path) /\ end[n] = e
    BY <1>0, <2>1 DEF Ends, n
  <2> QED
    BY <2>2
<1>6. Test(route, path, n, start) = 0 => e = Len(path) \/ e < Len(path)
  <2> HIDE DEF e
  <2> QED
    BY <1>0, <1>1
<1>7. Zero /\ ~ (e < Len(path)) => e = Len(path)
  BY <1>6
<1>8. Zero <=> From(route, path)[n][start] = 0
  <2> HIDE DEF e
  <2>1. e < Len(path) => e # Len(path)
    BY <1>0
  <2> QED
    BY <1>1, <1>2, <1>6, <2>1 DEF n
<1>9. (\E end \in Ends(route, path) : CutFrom(route, path, n, start, end)) => Zero
  BY <1>3, <1>4
<1>10. Zero => \E end \in Ends(route, path) : CutFrom(route, path, n, start, end)
  BY <1>3, <1>5
<1> QED
  BY <1>8, <1>9, <1>10

LEMMA HasCutNext ==
  ASSUME NEW route, RouteOK(route), NEW path \in Text,
         NEW i \in 1 .. Len(route) - 1, HasCut(route, path, i + 1)
  PROVE  HasCut(route, path, i)
<1> DEFINE n == Len(route)
<1>0. /\ n \in Nat \ {0} /\ Len(path) \in Nat /\ i \in 1 .. n /\ i + 1 \in 1 .. n
      /\ i # n /\ i \in Nat
  BY DEF RouteOK, Text
<1> SUFFICES ASSUME NEW start \in 1 .. Len(path) + 1
             PROVE  From(route, path)[i][start] = 0 <=>
                      \E end \in Ends(route, path) : CutFrom(route, path, i, start, end)
  BY DEF HasCut
<1> DEFINE e == start + Len(route[i]) - 1
           over == NameEnd(path, e + 1)
           Here == /\ Test(route, path, i, start) = 0
                   /\ e < Len(path) /\ path[e] = Slash
<1> HIDE DEF n
<1>1. /\ Test(route, path, i, start) = 0 => e \in 1 .. Len(path)
      /\ From(route, path)[i][start] = 0 <=>
           Here /\ From(route, path)[i + 1][over] = 0
  <2> HIDE DEF e
  <2>1. i \in 1 .. Len(route) /\ e = start + Len(route[i]) - 1 /\ i # Len(route)
    BY <1>0 DEF n, e
  <2> QED
    BY <2>1, ZeroStep
<1>2. Here => over \in 1 .. Len(path) + 1
  <2> SUFFICES ASSUME Here PROVE over \in 1 .. Len(path) + 1
    OBVIOUS
  <2>1. e \in 1 .. Len(path)
    BY <1>1
  <2> HIDE DEF e
  <2>2. e + 1 \in 1 .. Len(path)
    BY <1>0, <2>1
  <2>3. NameEnd(path, e + 1) \in e + 1 + 1 .. Len(path) + 1
    BY <2>2, NameEndResult
  <2> QED
    BY <1>0, <2>1, <2>3
<1>3. Here => (From(route, path)[i + 1][over] = 0 <=>
               \E end \in Ends(route, path) : CutFrom(route, path, i + 1, over, end))
  <2> HIDE DEF over, e
  <2> QED
    BY <1>2 DEF HasCut
<1>4. ASSUME NEW end \in Ends(route, path), end[i] = e
      PROVE  CutFrom(route, path, i, start, end) <=>
               Here /\ CutFrom(route, path, i + 1, over, end)
  BY <1>4, CutNext DEF Ends
<1>5. \A end : CutFrom(route, path, i, start, end) => end[i] = e
  BY DEF CutFrom
\* The end of part i is set; the others stay.
<1>6. ASSUME Here, NEW f \in Ends(route, path), CutFrom(route, path, i + 1, over, f)
      PROVE  \E end \in Ends(route, path) :
               end[i] = e /\ CutFrom(route, path, i + 1, over, end)
  <2>1. e \in 1 .. Len(path)
    BY <1>1, <1>6
  <2> HIDE DEF e, over
  <2> DEFINE g == [f EXCEPT ![i] = e]
  <2>2. g \in Ends(route, path) /\ g[i] = e
    BY <1>0, <2>1 DEF Ends, n
  <2>3. \A j \in i + 1 .. n : j \in 1 .. n /\ j # i
    BY <1>0
  <2>4. \A j \in i + 1 .. n : f[j] = g[j]
    BY <2>3 DEF Ends, n
  <2> HIDE DEF g
  <2>5. CutFrom(route, path, i + 1, over, g)
    BY <1>0, <1>6, <2>4, CutAgrees DEF n
  <2> QED
    BY <2>2, <2>5
<1> HIDE DEF e, over, Here
<1>7. (\E end \in Ends(route, path) : CutFrom(route, path, i, start, end)) <=>
        Here /\ \E end \in Ends(route, path) : CutFrom(route, path, i + 1, over, end)
  BY <1>4, <1>5, <1>6
<1> QED
  BY <1>1, <1>3, <1>7

\* compare() is zero exactly for the paths that the route should match.
THEOREM CompareIsMatch ==
  ASSUME NEW route \in Routes, NEW path \in Path
  PROVE  Compare(route, path) = 0 <=> Matches(route, path)
<1> DEFINE n == Len(route)
           S == {i \in 1 .. n : HasCut(route, path, i)}
<1>0. RouteOK(route) /\ path \in Text
  BY RoutesOK, SitesAssumption DEF Text
<1>1. n \in Nat \ {0} /\ n \in 1 .. n /\ 1 \in 1 .. n /\ Len(path) \in Nat
  BY <1>0 DEF RouteOK, Text
<1>2. n \in S
  BY <1>0, <1>1, HasCutLast
<1>3. \A i \in 1 .. n - 1 : i + 1 \in S => i \in S
  <2>1. \A i \in 1 .. n - 1 : i \in 1 .. n
    BY <1>1
  <2> QED
    BY <1>0, <2>1, HasCutNext
<1>4. HasCut(route, path, 1)
  <2> HIDE DEF n, S
  <2>1. \A i \in 1 .. n : i \in S
    BY <1>1, <1>2, <1>3, Downward
  <2> QED
    BY <1>1, <2>1 DEF S
<1>5. 1 \in 1 .. Len(path) + 1
  BY <1>1
<1>6. From(route, path)[1][1] = 0 <=>
        \E end \in Ends(route, path) : CutFrom(route, path, 1, 1, end)
  BY <1>4, <1>5 DEF HasCut
<1> QED
  BY <1>0, <1>6, CompareIs, CutFromIs DEF Matches, Ends

-----------------------------------------------------------------------------
(* The comparison agrees with the order of routes that are apart.          *)

\* Where two routes differ first, the order of the parts is theirs.
LEMMA BeforeFirst ==
  ASSUME NEW r, RouteOK(r), NEW q, RouteOK(q), NEW i \in 1 .. Len(r), i <= Len(q),
         r[i] # q[i], \A j \in 1 .. i - 1 : r[j] = q[j]
  PROVE  Before(r, q) <=> CompareText(r[i], q[i]) < 0
<1> DEFINE differ == {j \in 1 .. Len(r) : j <= Len(q) /\ r[j] # q[j]}
<1>1. r \in Seq(Text) /\ q \in Seq(Text)
  BY DEF RouteOK
<1>2. differ # {} /\ Least(differ) = i
  BY <1>1, LeastDiff
<1> QED
  BY <1>2 DEF Before

\* The first characters that tell two texts apart.
LEMMA DifferAt ==
  ASSUME NEW s \in Text, NEW t \in Text, ~ Begins(s, t)
  PROVE  \E k \in 1 .. Len(s) : /\ k <= Len(t) /\ s[k] # t[k]
                                /\ \A j \in 1 .. k - 1 : s[j] = t[j]
BY DiffCases DEF Text, Begins

\* A text that is told apart from another by the other's characters is told
\* apart in the same way from what a path has in their place.
LEMMA SameOrder ==
  ASSUME NEW s \in Text, NEW t \in Text, ~ Begins(t, s), NEW path \in Text,
         NEW start \in 1 .. Len(path) + 1,
         start + Len(t) - 1 <= Len(path), SubSeq(path, start, start + Len(t) - 1) = t
  PROVE  /\ CompareText(s, Substr(path, start, Len(s))) = CompareText(s, t)
         /\ CompareText(s, t) # 0
<1> DEFINE to == start + Len(t) - 1
           part == Substr(path, start, Len(s))
<1>0. /\ Len(path) \in Nat /\ start \in Nat \ {0} /\ Len(s) \in Nat /\ Len(t) \in Nat
      /\ to \in Nat /\ start <= to + 1 /\ to <= Len(path) /\ to - start + 1 = Len(t)
  BY DEF Text
<1>1. PICK k \in 1 .. Len(t) : /\ k <= Len(s) /\ t[k] # s[k]
                               /\ \A j \in 1 .. k - 1 : t[j] = s[j]
  BY DifferAt
<1> HIDE DEF to
<1>2. k \in Nat /\ k \in 1 .. Len(s) /\ k <= Len(t)
  <2>1. k \in 1 .. Len(t) /\ k <= Len(s)
    BY <1>1
  <2> QED
    BY ONLY <1>0, <2>1
<1>3. \A j \in 1 .. Len(t) : t[j] = path[start + j - 1]
  <2>1. SubSeq(path, start, to) = t
    BY DEF to
  <2>2. \A j \in 1 .. to - start + 1 : SubSeq(path, start, to)[j] = path[start + j - 1]
    BY <1>0, PieceIs
  <2> QED
    BY <1>0, <2>1, <2>2
<1>4. /\ part \in Text
      /\ Len(part) = IF start + Len(s) - 1 < Len(path) THEN Len(s) ELSE Len(path) - start + 1
      /\ \A j \in 1 .. Len(part) : part[j] = path[start + j - 1]
  BY <1>0, SubstrResult DEF Text
<1> HIDE DEF part
<1>5. Len(part) \in Nat /\ k <= Len(part)
  <2>1. Len(part) \in Nat
    BY <1>4 DEF Text
  <2>2. Len(t) <= Len(path) - start + 1
    BY <1>0
  <2> QED
    BY <1>0, <1>2, <1>4, <2>1, <2>2
<1>6. \A j \in 1 .. k : /\ j \in 1 .. Len(t) /\ j \in 1 .. Len(part)
                        /\ part[j] = t[j]
  <2>1. \A j \in 1 .. k : j \in 1 .. Len(t) /\ j \in 1 .. Len(part)
    BY <1>0, <1>2, <1>5
  <2> QED
    BY <2>1, <1>3, <1>4
<1>7. \A j \in 1 .. k - 1 : j \in 1 .. k
  BY <1>2
<1>8. k \in 1 .. k
  BY <1>2
<1>9. CompareText(s, part) = s[k] - part[k]
  <2>1. s[k] # part[k] /\ \A j \in 1 .. k - 1 : s[j] = part[j]
    BY <1>1, <1>6, <1>7, <1>8
  <2> QED
    BY <1>2, <1>4, <1>5, <2>1, FirstDiff DEF Text
<1>10. CompareText(s, t) = s[k] - t[k]
  <2>1. s[k] # t[k] /\ \A j \in 1 .. k - 1 : s[j] = t[j]
    BY <1>1
  <2> QED
    BY <1>2, <2>1, FirstDiff DEF Text
<1>11. part[k] = t[k]
  BY <1>6, <1>8
<1>12. CompareText(s, t) # 0
  <2>1. s # t
    BY <1>1
  <2> QED
    BY <2>1, CompareTextZero DEF Text
<1> QED
  BY <1>9, <1>10, <1>11, <1>12 DEF part

\* As long as two routes have the same parts, and one of them matches, the
\* comparison with the other goes on at the same places of the path.
LEMMA SamePlace ==
  ASSUME NEW r, RouteOK(r), NEW q, RouteOK(q), NEW path \in Text,
         NEW i \in 1 .. Len(r), i <= Len(q), \A j \in 1 .. i - 1 : r[j] = q[j],
         Compare(r, path) = 0
  PROVE  \E start \in 1 .. Len(path) + 1 :
           /\ From(r, path)[i][start] = 0
           /\ From(q, path)[i][start] = Compare(q, path)
<1> DEFINE Same(j) == \E start \in 1 .. Len(path) + 1 :
                        /\ From(r, path)[j][start] = 0
                        /\ From(q, path)[j][start] = Compare(q, path)
           S == {n \in Nat : n + 1 <= i => Same(n + 1)}
<1>0. Len(path) \in Nat /\ Len(r) \in Nat /\ Len(q) \in Nat /\ i \in Nat \ {0}
  BY DEF RouteOK, Text
<1>1. Same(1)
  <2>1. 1 \in 1 .. Len(path) + 1
    BY <1>0
  <2> QED
    BY <2>1, CompareIs
<1>2. ASSUME NEW j \in 1 .. i - 1, Same(j) PROVE Same(j + 1)
  <2>1. PICK start \in 1 .. Len(path) + 1 :
          /\ From(r, path)[j][start] = 0
          /\ From(q, path)[j][start] = Compare(q, path)
    BY <1>2
  <2>2. /\ j \in 1 .. Len(r) /\ j \in 1 .. Len(q) /\ j # Len(r) /\ j # Len(q)
        /\ r[j] = q[j]
    BY <1>0
  <2> DEFINE e == start + Len(r[j]) - 1
             over == NameEnd(path, e + 1)
  <2>3. /\ Test(r, path, j, start) = 0 => e \in 1 .. Len(path)
        /\ From(r, path)[j][start] = 0 <=>
             /\ Test(r, path, j, start) = 0
             /\ \/ e = Len(path) /\ j = Len(r)
                \/ /\ e < Len(path) /\ path[e] = Slash
                   /\ From(r, path)[j + 1][over] = 0
    <3> HIDE DEF e
    <3>1. e = start + Len(r[j]) - 1
      BY DEF e
    <3>2. j \in 1 .. Len(r) /\ RouteOK(r)
      BY <2>2
    <3> QED
      BY <3>1, <3>2, ZeroStep, SMTT(30)
  <2>4. /\ Test(r, path, j, start) = 0 /\ e \in 1 .. Len(path)
        /\ e < Len(path) /\ path[e] = Slash /\ From(r, path)[j + 1][over] = 0
    <3> HIDE DEF e, over
    <3> QED
      BY <2>1, <2>2, <2>3
  <2>5. Test(q, path, j, start) = 0
    BY <2>2, <2>4 DEF Test
  <2>6. StepIs(q, path, From(q, path), j, start, From(q, path)[j][start])
    BY <2>2, FromIs
  <2>7. /\ start + Len(q[j]) = e + 1 /\ e + 1 <= Len(path) /\ e + 1 - 1 = e
    <3>1. Len(r[j]) \in Nat /\ start \in Nat
      BY <2>2, <1>0 DEF RouteOK
    <3>2. start + Len(q[j]) = e + 1
      <4>1. start + Len(r[j]) = e + 1
        BY <3>1
      <4> HIDE DEF e
      <4> QED
        BY <2>2, <4>1
    <3> HIDE DEF e
    <3> QED
      BY <1>0, <2>4, <3>2
  <2>8. From(q, path)[j][start] = From(q, path)[j + 1][over]
    <3> HIDE DEF e
    <3> QED
      BY <2>4, <2>5, <2>6, <2>7 DEF StepIs
  <2>9. over \in 1 .. Len(path) + 1
    <3> HIDE DEF e
    <3>1. e + 1 \in 1 .. Len(path)
      BY <1>0, <2>4, <2>7
    <3>2. NameEnd(path, e + 1) \in e + 1 + 1 .. Len(path) + 1
      BY <3>1, NameEndResult
    <3> QED
      BY <1>0, <2>4, <3>2
  <2> HIDE DEF e, over
  <2> QED
    BY <2>1, <2>4, <2>8, <2>9
<1> HIDE DEF Same
<1>3. 0 \in S
  BY <1>1
<1>4. \A n \in S : n + 1 \in S
  <2> SUFFICES ASSUME NEW n \in S, n + 1 + 1 <= i PROVE Same(n + 1 + 1)
    OBVIOUS
  <2>1. n + 1 <= i /\ n + 1 \in 1 .. i - 1
    BY <1>0
  <2> QED
    BY <2>1, <1>2
<1>5. S \in SUBSET Nat
  OBVIOUS
<1> HIDE DEF S
<1>6. S = Nat
  BY <1>3, <1>4, <1>5, Induction
<1>7. i - 1 \in Nat /\ i - 1 + 1 = i /\ i <= i
  BY <1>0
<1>8. Same(i)
  <2> DEFINE n == i - 1
  <2>1. n \in S /\ n + 1 = i
    BY <1>6, <1>7
  <2> HIDE DEF n
  <2>2. n + 1 <= i => Same(n + 1)
    BY <2>1 DEF S
  <2> QED
    BY <1>7, <2>1, <2>2
<1> QED
  BY <1>8 DEF Same

\* If one of two routes that are apart matches a path, the other is compared
\* with the path as it is with the one.
THEOREM ApartOrder ==
  ASSUME NEW r \in Routes, NEW q \in Routes, NEW path \in Path,
         Apart(r, q), Compare(r, path) = 0
  PROVE  /\ Compare(q, path) # 0
         /\ Before(q, r) <=> Compare(q, path) < 0
         /\ Before(r, q) <=> Compare(q, path) > 0
<1>0. RouteOK(r) /\ RouteOK(q) /\ path \in Text
  BY RoutesOK, SitesAssumption DEF Text
<1>1. PICK i \in 1 .. Len(r) : /\ i <= Len(q) /\ ~ Begins(r[i], q[i])
                               /\ \A j \in 1 .. i - 1 : r[j] = q[j]
  BY DEF Apart
<1>2. PICK start \in 1 .. Len(path) + 1 :
        /\ From(r, path)[i][start] = 0
        /\ From(q, path)[i][start] = Compare(q, path)
  BY <1>0, <1>1, SamePlace
<1>3. i \in 1 .. Len(q) /\ Len(r) \in Nat /\ Len(q) \in Nat
  BY <1>0, <1>1 DEF RouteOK
<1>4. r[i] \in Text /\ q[i] \in Text /\ r[i] # q[i]
  <2>1. r[i] \in Text /\ q[i] \in Text
    BY <1>0, <1>3 DEF RouteOK
  <2> QED
    BY <1>1, <2>1 DEF Begins
<1>5. Test(r, path, i, start) = 0
  <2> DEFINE e == start + Len(r[i]) - 1
  <2>1. e = start + Len(r[i]) - 1
    OBVIOUS
  <2> HIDE DEF e
  <2> QED
    BY <1>0, <1>2, <2>1, ZeroStep
<1>6. /\ start + Len(r[i]) - 1 <= Len(path)
      /\ SubSeq(path, start, start + Len(r[i]) - 1) = r[i]
  BY <1>0, <1>5, PartIs
<1>7. Test(q, path, i, start) = CompareText(q[i], r[i]) /\ CompareText(q[i], r[i]) # 0
  BY <1>0, <1>1, <1>4, <1>6, SameOrder DEF Test
<1>8. Compare(q, path) = CompareText(q[i], r[i])
  <2>1. StepIs(q, path, From(q, path), i, start, From(q, path)[i][start])
    BY <1>0, <1>3, FromIs
  <2> QED
    BY <1>2, <1>7, <2>1 DEF StepIs
<1>9. Before(q, r) <=> CompareText(q[i], r[i]) < 0
  BY <1>0, <1>1, <1>3, <1>4, BeforeFirst
<1>10. Before(r, q) <=> CompareText(r[i], q[i]) < 0
  BY <1>0, <1>1, <1>4, BeforeFirst
<1>11. CompareText(q[i], r[i]) > 0 <=> CompareText(r[i], q[i]) < 0
  BY <1>4, TextSign
<1> QED
  BY <1>7, <1>8, <1>9, <1>10, <1>11

-----------------------------------------------------------------------------
(* The order of a map.                                                     *)

\* What std::map asks of operator<: it is a strict order of the routes, and
\* no two routes are equivalent in it, so that emplace() refuses the same
\* route only.
THEOREM RouteOrder ==
  /\ \A r \in Routes : ~ Before(r, r)
  /\ \A r, q \in Routes : r = q \/ Before(r, q) \/ Before(q, r)
  /\ \A r, q, p \in Routes : Before(r, q) /\ Before(q, p) => Before(r, p)
<1>1. \A r \in Routes : r \in Seq(Text)
  BY RoutesOK DEF RouteOK
<1>2. \A r \in Routes : ~ Before(r, r)
  BY <1>1, BeforeIrreflexive
<1>3. \A r, q \in Routes : r = q \/ Before(r, q) \/ Before(q, r)
  BY <1>1, BeforeTotal
<1>4. \A r, q, p \in Routes : Before(r, q) /\ Before(q, p) => Before(r, p)
  BY <1>1, BeforeTransitive
<1> QED
  BY <1>2, <1>3, <1>4

=============================================================================
