--------------------------- MODULE TabStripProofs ---------------------------
(***************************************************************************)
(* The tab strip for any number of tabs.  Every change of m_stack and      *)
(* m_tabBar is a removal, an insertion and perhaps a selection at one      *)
(* index: the lemmas say what each of them leaves where, and the theorems  *)
(* follow an action at a time.                                             *)
(***************************************************************************)
EXTENDS TabStrip, SequenceTheorems, TLAPS

-----------------------------------------------------------------------------
(* Lists.                                                                   *)

LEMMA Removal ==
  ASSUME NEW S, NEW s \in Seq(S), NEW i \in 1..Len(s)
  PROVE  /\ RemoveAt(s, i) \in Seq(S) /\ Len(RemoveAt(s, i)) = Len(s) - 1
         /\ \A j \in 1..(Len(s) - 1) :
              RemoveAt(s, i)[j] = s[IF j < i THEN j ELSE j + 1]
<1>1. Len(s) \in Nat /\ i \in Int BY LenProperties
<1> DEFINE s1 == SubSeq(s, 1, i - 1)
           s2 == SubSeq(s, i + 1, Len(s))
<1>2. s1 \in Seq(S) /\ Len(s1) = i - 1 /\ \A j \in 1..(i - 1) : s1[j] = s[j]
  BY <1>1, SubSeqProperties
<1>3. /\ s2 \in Seq(S) /\ Len(s2) = Len(s) - i
      /\ \A j \in 1..(Len(s) - i) : s2[j] = s[i + j]
  BY <1>1, SubSeqProperties
<1> HIDE DEF s1, s2
<1>4. (i - 1) + (Len(s) - i) = Len(s) - 1 BY <1>1
<1>5. /\ s1 \o s2 \in Seq(S) /\ Len(s1 \o s2) = Len(s) - 1
      /\ \A j \in 1..(Len(s) - 1) :
           (s1 \o s2)[j] = IF j <= i - 1 THEN s1[j] ELSE s2[j - (i - 1)]
  <2>1. /\ s1 \o s2 \in Seq(S) /\ Len(s1 \o s2) = Len(s1) + Len(s2)
        /\ \A j \in 1..(Len(s1) + Len(s2)) :
             (s1 \o s2)[j] = IF j <= Len(s1) THEN s1[j] ELSE s2[j - Len(s1)]
    BY <1>2, <1>3, ConcatProperties
  <2> QED BY <1>2, <1>3, <1>4, <2>1
<1>6. ASSUME NEW j \in 1..(Len(s) - 1)
      PROVE  (s1 \o s2)[j] = s[IF j < i THEN j ELSE j + 1]
  <2>1. CASE j < i
    <3>1. j <= i - 1 /\ j \in 1..(i - 1) BY <1>1, <2>1
    <3> QED BY <1>2, <1>5, <2>1, <3>1
  <2>2. CASE ~(j < i)
    <3>1. ~(j <= i - 1) /\ j - (i - 1) \in 1..(Len(s) - i) /\ i + (j - (i - 1)) = j + 1
      BY <1>1, <2>2
    <3>2. (s1 \o s2)[j] = s2[j - (i - 1)] BY <1>5, <3>1
    <3>3. s2[j - (i - 1)] = s[i + (j - (i - 1))] BY <1>3, <3>1
    <3> QED BY <2>2, <3>1, <3>2, <3>3
  <2> QED BY <2>1, <2>2
<1>7. RemoveAt(s, i) = s1 \o s2 BY DEF RemoveAt, s1, s2
<1> QED BY <1>5, <1>6, <1>7

LEMMA Insertion ==
  ASSUME NEW S, NEW s \in Seq(S), NEW i \in 1..(Len(s) + 1), NEW e \in S
  PROVE  /\ InsertAt(s, i, e) \in Seq(S) /\ Len(InsertAt(s, i, e)) = Len(s) + 1
         /\ \A j \in 1..(Len(s) + 1) :
              InsertAt(s, i, e)[j] = IF j < i THEN s[j] ELSE IF j = i THEN e ELSE s[j - 1]
<1>1. Len(s) \in Nat /\ i \in Int BY LenProperties
<1> DEFINE s1 == SubSeq(s, 1, i - 1)
           s2 == SubSeq(s, i, Len(s))
<1>2. s1 \in Seq(S) /\ Len(s1) = i - 1 /\ \A j \in 1..(i - 1) : s1[j] = s[j]
  BY <1>1, SubSeqProperties
<1>3. /\ s2 \in Seq(S) /\ Len(s2) = Len(s) - i + 1
      /\ \A j \in 1..(Len(s) - i + 1) : s2[j] = s[i + j - 1]
  BY <1>1, SubSeqProperties
<1>4. <<e>> \in Seq(S) /\ Len(<<e>>) = 1 /\ <<e>>[1] = e
  OBVIOUS
<1> DEFINE h == s1 \o <<e>>
<1>5. h \in Seq(S) /\ Len(h) = i /\ h[i] = e /\ \A j \in 1..(i - 1) : h[j] = s[j]
  <2>1. /\ h \in Seq(S) /\ Len(h) = Len(s1) + Len(<<e>>)
        /\ \A j \in 1..(Len(s1) + Len(<<e>>)) :
             h[j] = IF j <= Len(s1) THEN s1[j] ELSE <<e>>[j - Len(s1)]
    BY <1>2, <1>4, ConcatProperties
  <2>2. Len(s1) + Len(<<e>>) = i /\ i \in 1..i /\ i - (i - 1) = 1 /\ ~(i <= i - 1)
    BY <1>1, <1>2, <1>4
  <2> HIDE DEF h, s1
  <2>3. h[i] = <<e>>[1] BY <1>2, <2>1, <2>2
  <2>4. \A j \in 1..(i - 1) : h[j] = s[j] BY <1>1, <1>2, <2>1, <2>2
  <2> QED BY <1>4, <2>1, <2>2, <2>3, <2>4
<1> HIDE DEF h, s1, s2
<1>6. /\ h \o s2 \in Seq(S) /\ Len(h \o s2) = Len(s) + 1
      /\ \A j \in 1..(Len(s) + 1) : (h \o s2)[j] = IF j <= i THEN h[j] ELSE s2[j - i]
  <2>1. /\ h \o s2 \in Seq(S) /\ Len(h \o s2) = Len(h) + Len(s2)
        /\ \A j \in 1..(Len(h) + Len(s2)) :
             (h \o s2)[j] = IF j <= Len(h) THEN h[j] ELSE s2[j - Len(h)]
    BY <1>3, <1>5, ConcatProperties
  <2>2. Len(h) + Len(s2) = Len(s) + 1 BY <1>1, <1>3, <1>5
  <2> QED BY <1>5, <2>1, <2>2
<1>7. ASSUME NEW j \in 1..(Len(s) + 1)
      PROVE  (h \o s2)[j] = IF j < i THEN s[j] ELSE IF j = i THEN e ELSE s[j - 1]
  <2>1. CASE j < i
    <3>1. j <= i /\ j \in 1..(i - 1) BY <1>1, <2>1
    <3> QED BY <1>5, <1>6, <2>1, <3>1
  <2>2. CASE j = i
    <3>1. j <= i /\ ~(j < i) BY <1>1, <2>2
    <3> QED BY <1>5, <1>6, <2>2, <3>1
  <2>3. CASE i < j
    <3>1. ~(j <= i) /\ ~(j < i) /\ j # i /\ j - i \in 1..(Len(s) - i + 1)
          /\ i + (j - i) - 1 = j - 1
      BY <1>1, <2>3
    <3>2. (h \o s2)[j] = s2[j - i] BY <1>6, <3>1
    <3>3. s2[j - i] = s[i + (j - i) - 1] BY <1>3, <3>1
    <3> QED BY <3>1, <3>2, <3>3
  <2>4. j < i \/ j = i \/ i < j BY <1>1
  <2> QED BY <2>1, <2>2, <2>3, <2>4
<1>8. InsertAt(s, i, e) = h \o s2 BY DEF InsertAt, h, s1, s2
<1> QED BY <1>6, <1>7, <1>8

LEMMA InsertionSeq ==
  ASSUME NEW S, NEW s \in Seq(S), NEW i \in 1..(Len(s) + 1), NEW e \in S
  PROVE  InsertAt(s, i, e) \in Seq(S) /\ Len(InsertAt(s, i, e)) = Len(s) + 1
BY Insertion, Z3

LEMMA InsertionAt ==
  ASSUME NEW S, NEW s \in Seq(S), NEW i \in 1..(Len(s) + 1), NEW e \in S,
         NEW j \in 1..(Len(s) + 1)
  PROVE  InsertAt(s, i, e)[j] = IF j < i THEN s[j] ELSE IF j = i THEN e ELSE s[j - 1]
BY Insertion, Z3

(* What a removal and an insertion at the same place do.                    *)
LEMMA Replacement ==
  ASSUME NEW S, NEW s \in Seq(S), NEW i \in 1..Len(s), NEW e \in S
  PROVE  /\ InsertAt(RemoveAt(s, i), i, e) \in Seq(S)
         /\ Len(InsertAt(RemoveAt(s, i), i, e)) = Len(s)
         /\ \A j \in 1..Len(s) :
              InsertAt(RemoveAt(s, i), i, e)[j] = IF j = i THEN e ELSE s[j]
<1>1. Len(s) \in Nat /\ i \in Int BY LenProperties
<1> DEFINE r == RemoveAt(s, i)
<1>2. /\ r \in Seq(S) /\ Len(r) = Len(s) - 1
      /\ \A j \in 1..(Len(s) - 1) : r[j] = s[IF j < i THEN j ELSE j + 1]
  BY Removal
<1> HIDE DEF r
<1>3. i \in 1..(Len(r) + 1) /\ Len(r) + 1 = Len(s) BY <1>1, <1>2
<1>4. /\ InsertAt(r, i, e) \in Seq(S) /\ Len(InsertAt(r, i, e)) = Len(s)
      /\ \A j \in 1..Len(s) :
           InsertAt(r, i, e)[j] = IF j < i THEN r[j] ELSE IF j = i THEN e ELSE r[j - 1]
  BY <1>2, <1>3, Insertion
<1>5. ASSUME NEW j \in 1..Len(s)
      PROVE  InsertAt(r, i, e)[j] = IF j = i THEN e ELSE s[j]
  <2>1. CASE j < i
    <3>1. j \in 1..(Len(s) - 1) /\ j # i BY <1>1, <2>1
    <3>2. r[j] = s[j] BY <1>2, <2>1, <3>1
    <3> QED BY <1>4, <2>1, <3>1, <3>2
  <2>2. CASE j = i
    BY <1>1, <1>4, <2>2
  <2>3. CASE i < j
    <3>1. j - 1 \in 1..(Len(s) - 1) /\ ~(j < i) /\ j # i /\ ~(j - 1 < i) /\ (j - 1) + 1 = j
      BY <1>1, <2>3
    <3>2. r[j - 1] = s[j] BY <1>2, <3>1
    <3> QED BY <1>4, <3>1, <3>2
  <2>4. j < i \/ j = i \/ i < j BY <1>1
  <2> QED BY <2>1, <2>2, <2>3, <2>4
<1> QED BY <1>4, <1>5 DEF r

LEMMA ReplacementSeq ==
  ASSUME NEW S, NEW s \in Seq(S), NEW i \in 1..Len(s), NEW e \in S
  PROVE  /\ InsertAt(RemoveAt(s, i), i, e) \in Seq(S)
         /\ Len(InsertAt(RemoveAt(s, i), i, e)) = Len(s)
BY Replacement, Z3

(* A list that loses a cell has no other elements than before.              *)
LEMMA RemovalElements ==
  ASSUME NEW S, NEW s \in Seq(S), NEW i \in 1..Len(s)
  PROVE  ToSet(s) \subseteq ToSet(RemoveAt(s, i)) \cup {s[i]}
<1>1. Len(s) \in Nat /\ i \in Int /\ DOMAIN s = 1..Len(s) BY LenProperties
<1> DEFINE r == RemoveAt(s, i)
<1>2. /\ r \in Seq(S) /\ Len(r) = Len(s) - 1
      /\ \A j \in 1..(Len(s) - 1) : r[j] = s[IF j < i THEN j ELSE j + 1]
  BY Removal
<1>3. DOMAIN r = 1..(Len(s) - 1) BY <1>2, LenProperties
<1> HIDE DEF r
<1>4. ASSUME NEW k \in 1..Len(s), k # i
      PROVE  \E j \in DOMAIN r : r[j] = s[k]
  <2>1. CASE k < i
    <3>1. k \in 1..(Len(s) - 1) BY <1>1, <2>1
    <3> QED BY <1>2, <1>3, <2>1, <3>1
  <2>2. CASE i < k
    <3>1. k - 1 \in 1..(Len(s) - 1) /\ ~(k - 1 < i) /\ (k - 1) + 1 = k BY <1>1, <2>2
    <3> QED BY <1>2, <1>3, <3>1
  <2>3. k < i \/ i < k BY <1>1, <1>4
  <2> QED BY <2>1, <2>2, <2>3
<1> QED BY <1>1, <1>4 DEF ToSet, r

LEMMA InsertionElements ==
  ASSUME NEW S, NEW s \in Seq(S), NEW i \in 1..(Len(s) + 1), NEW e \in S
  PROVE  ToSet(s) \cup {e} \subseteq ToSet(InsertAt(s, i, e))
<1>1. Len(s) \in Nat /\ i \in Int /\ DOMAIN s = 1..Len(s) BY LenProperties
<1> DEFINE r == InsertAt(s, i, e)
<1>2. /\ r \in Seq(S) /\ Len(r) = Len(s) + 1
      /\ \A j \in 1..(Len(s) + 1) :
           r[j] = IF j < i THEN s[j] ELSE IF j = i THEN e ELSE s[j - 1]
  <2> HIDE DEF r
  <2>1. /\ InsertAt(s, i, e) \in Seq(S) /\ Len(InsertAt(s, i, e)) = Len(s) + 1
        /\ \A j \in 1..(Len(s) + 1) :
             InsertAt(s, i, e)[j] = IF j < i THEN s[j] ELSE IF j = i THEN e ELSE s[j - 1]
    BY Insertion, Z3
  <2> QED BY <2>1 DEF r
<1>3. DOMAIN r = 1..(Len(s) + 1) BY <1>2, LenProperties
<1> HIDE DEF r
<1>4. i \in DOMAIN r /\ r[i] = e BY <1>1, <1>2, <1>3
<1>5. ASSUME NEW k \in 1..Len(s)
      PROVE  \E j \in DOMAIN r : r[j] = s[k]
  <2>1. CASE k < i
    <3>1. k \in 1..(Len(s) + 1) BY <1>1
    <3> QED BY <1>2, <1>3, <2>1, <3>1
  <2>2. CASE ~(k < i)
    <3>1. /\ k + 1 \in 1..(Len(s) + 1) /\ ~(k + 1 < i) /\ k + 1 # i /\ (k + 1) - 1 = k
      BY <1>1, <2>2
    <3>2. r[k + 1] = s[(k + 1) - 1] BY <1>2, <3>1
    <3> QED BY <1>3, <3>1, <3>2
  <2> QED BY <2>1, <2>2
<1> QED BY <1>1, <1>4, <1>5 DEF ToSet, r

-----------------------------------------------------------------------------
(* m_stack and m_tabBar stay what they are, and neither index points past   *)
(* its end, whatever is removed and inserted.                               *)

StripOK(s) ==
  /\ s \in [stack : Seq(Widget), shown : Nat, tabs : Nat, current : Nat]
  /\ s.shown <= Len(s.stack) /\ s.current <= s.tabs /\ Len(s.stack) <= s.tabs

LEMMA AfterRemovalBounds ==
  ASSUME NEW cur \in Nat, NEW n \in Nat, NEW i \in 1..n, cur <= n
  PROVE  AfterRemoval(cur, i, n) \in Nat /\ AfterRemoval(cur, i, n) <= n - 1
BY DEF AfterRemoval

LEMMA AfterInsertionBounds ==
  ASSUME NEW cur \in Nat, NEW n \in Nat, NEW i \in 1..(n + 1), cur <= n
  PROVE  AfterInsertion(cur, i) \in Nat /\ AfterInsertion(cur, i) <= n + 1
BY DEF AfterInsertion

LEMMA StackChange ==
  ASSUME NEW s \in [stack : Seq(Widget), shown : Nat, tabs : Nat, current : Nat],
         NEW a \in Seq(Widget), NEW b \in Nat
  PROVE  [s EXCEPT !.stack = a, !.shown = b] =
           [stack |-> a, shown |-> b, tabs |-> s.tabs, current |-> s.current]
<1> DEFINE R == [stack : Seq(Widget), shown : Nat, tabs : Nat, current : Nat]
           u == [s EXCEPT !.stack = a, !.shown = b]
           v == [stack |-> a, shown |-> b, tabs |-> s.tabs, current |-> s.current]
<1>1. /\ u \in R
      /\ u.stack = a /\ u.shown = b /\ u.tabs = s.tabs /\ u.current = s.current
  OBVIOUS
<1>2. /\ v \in R
      /\ v.stack = a /\ v.shown = b /\ v.tabs = s.tabs /\ v.current = s.current
  OBVIOUS
<1>3. \A x, y \in R : /\ x.stack = y.stack /\ x.shown = y.shown
                     /\ x.tabs = y.tabs /\ x.current = y.current
                     => x = y
  BY SMTT(30)
<1> HIDE DEF R, u, v
<1>4. u = v BY <1>1, <1>2, <1>3
<1> QED BY <1>4 DEF u, v

LEMMA TabsChange ==
  ASSUME NEW s \in [stack : Seq(Widget), shown : Nat, tabs : Nat, current : Nat],
         NEW n \in Nat, NEW c \in Nat
  PROVE  [s EXCEPT !.tabs = n, !.current = c] =
           [stack |-> s.stack, shown |-> s.shown, tabs |-> n, current |-> c]
<1> DEFINE R == [stack : Seq(Widget), shown : Nat, tabs : Nat, current : Nat]
           u == [s EXCEPT !.tabs = n, !.current = c]
           v == [stack |-> s.stack, shown |-> s.shown, tabs |-> n, current |-> c]
<1>1. /\ u \in R
      /\ u.stack = s.stack /\ u.shown = s.shown /\ u.tabs = n /\ u.current = c
  OBVIOUS
<1>2. /\ v \in R
      /\ v.stack = s.stack /\ v.shown = s.shown /\ v.tabs = n /\ v.current = c
  OBVIOUS
<1>3. \A x, y \in R : /\ x.stack = y.stack /\ x.shown = y.shown
                     /\ x.tabs = y.tabs /\ x.current = y.current
                     => x = y
  BY SMTT(30)
<1> HIDE DEF R, u, v
<1>4. u = v BY <1>1, <1>2, <1>3
<1> QED BY <1>4 DEF u, v

(* The cells of a stack with a widget less and one with a widget more.      *)
LEMMA StackRemovedIs ==
  ASSUME NEW s, StripOK(s), NEW i \in 1..Len(s.stack)
  PROVE  StackRemoved(s, i) =
           [stack |-> RemoveAt(s.stack, i),
            shown |-> AfterRemoval(s.shown, i, Len(s.stack)),
            tabs |-> s.tabs, current |-> s.current]
<1>1. Len(s.stack) \in Nat /\ s.stack \in Seq(Widget) BY LenProperties DEF StripOK
<1>2. /\ RemoveAt(s.stack, i) \in Seq(Widget)
      /\ AfterRemoval(s.shown, i, Len(s.stack)) \in Nat
  BY <1>1, Removal, AfterRemovalBounds DEF StripOK
<1> QED BY <1>2, StackChange DEF StripOK, StackRemoved

LEMMA StackInsertedIs ==
  ASSUME NEW s, StripOK(s), NEW i \in Nat \ {0}, NEW w \in Widget
  PROVE  StackInserted(s, i, w) =
           [stack |-> InsertAt(s.stack, AtMost(i, Len(s.stack) + 1), w),
            shown |-> AfterInsertion(s.shown, AtMost(i, Len(s.stack) + 1)),
            tabs |-> s.tabs, current |-> s.current]
<1>1. Len(s.stack) \in Nat /\ s.stack \in Seq(Widget) BY LenProperties DEF StripOK
<1> DEFINE at == AtMost(i, Len(s.stack) + 1)
<1>2. at \in 1..(Len(s.stack) + 1) BY <1>1 DEF AtMost
<1>3. InsertAt(s.stack, at, w) \in Seq(Widget) /\ AfterInsertion(s.shown, at) \in Nat
  BY <1>1, <1>2, Insertion, AfterInsertionBounds DEF StripOK
<1> QED BY <1>3, StackChange DEF StripOK, StackInserted

LEMMA StackRemovedOK ==
  ASSUME NEW s, StripOK(s), NEW i \in 1..Len(s.stack)
  PROVE  /\ StripOK(StackRemoved(s, i))
         /\ StackRemoved(s, i).tabs = s.tabs /\ StackRemoved(s, i).current = s.current
         /\ Len(StackRemoved(s, i).stack) = Len(s.stack) - 1
<1>1. Len(s.stack) \in Nat /\ s.stack \in Seq(Widget) BY LenProperties DEF StripOK
<1>2. /\ RemoveAt(s.stack, i) \in Seq(Widget)
      /\ Len(RemoveAt(s.stack, i)) = Len(s.stack) - 1
  BY <1>1, Removal
<1>3. /\ AfterRemoval(s.shown, i, Len(s.stack)) \in Nat
      /\ AfterRemoval(s.shown, i, Len(s.stack)) <= Len(s.stack) - 1
  BY <1>1, AfterRemovalBounds DEF StripOK
<1> QED BY <1>1, <1>2, <1>3, StackRemovedIs DEF StripOK

LEMMA StackInsertedOK ==
  ASSUME NEW s, StripOK(s), NEW i \in Nat \ {0}, NEW w \in Widget,
         Len(s.stack) < s.tabs
  PROVE  /\ StripOK(StackInserted(s, i, w))
         /\ StackInserted(s, i, w).tabs = s.tabs
         /\ StackInserted(s, i, w).current = s.current
<1>1. Len(s.stack) \in Nat /\ s.stack \in Seq(Widget) BY LenProperties DEF StripOK
<1> DEFINE at == AtMost(i, Len(s.stack) + 1)
<1>2. at \in 1..(Len(s.stack) + 1) BY <1>1 DEF AtMost
<1>3. /\ InsertAt(s.stack, at, w) \in Seq(Widget)
      /\ Len(InsertAt(s.stack, at, w)) = Len(s.stack) + 1
  BY <1>1, <1>2, Insertion
<1>4. AfterInsertion(s.shown, at) \in Nat /\ AfterInsertion(s.shown, at) <= Len(s.stack) + 1
  BY <1>1, <1>2, AfterInsertionBounds DEF StripOK
<1>5. StackInserted(s, i, w) =
        [stack |-> InsertAt(s.stack, at, w), shown |-> AfterInsertion(s.shown, at),
         tabs |-> s.tabs, current |-> s.current]
  BY StackInsertedIs
<1> HIDE DEF at
<1> QED BY <1>1, <1>3, <1>4, <1>5 DEF StripOK

LEMMA DeletedOK ==
  ASSUME NEW s, StripOK(s), NEW w
  PROVE  StripOK(Deleted(s, w)) /\ Deleted(s, w).tabs = s.tabs
<1>1. CASE \E i \in DOMAIN s.stack : s.stack[i] = w
  <2> DEFINE i == CHOOSE i \in DOMAIN s.stack : s.stack[i] = w
  <2>1. i \in DOMAIN s.stack BY <1>1
  <2>2. i \in 1..Len(s.stack) BY <2>1, LenProperties DEF StripOK
  <2>3. Deleted(s, w) = StackRemoved(s, i) BY <1>1 DEF Deleted
  <2> HIDE DEF i
  <2> QED BY <2>2, <2>3, StackRemovedOK
<1>2. CASE ~\E i \in DOMAIN s.stack : s.stack[i] = w
  BY <1>2 DEF Deleted
<1> QED BY <1>1, <1>2

(* m_stack and m_tabBar together.                                           *)
LEMMA PageTabRemovedIs ==
  ASSUME NEW s, StripOK(s), NEW i \in 1..Len(s.stack)
  PROVE  PageTabRemoved(s, i) =
           [stack |-> RemoveAt(s.stack, i),
            shown |-> AfterRemoval(s.shown, i, Len(s.stack)),
            tabs |-> s.tabs - 1, current |-> AfterRemoval(s.current, i, s.tabs)]
<1> DEFINE r == StackRemoved(s, i)
           c == AfterRemoval(s.current, i, s.tabs)
<1>1. Len(s.stack) \in Nat /\ s.tabs \in Nat /\ i \in 1..s.tabs /\ ~(i > Len(s.stack))
      /\ s.tabs - 1 \in Nat
  BY LenProperties DEF StripOK
<1>2. r = [stack |-> RemoveAt(s.stack, i),
           shown |-> AfterRemoval(s.shown, i, Len(s.stack)),
           tabs |-> s.tabs, current |-> s.current]
  BY StackRemovedIs
<1>3. StripOK(r) BY StackRemovedOK
<1>4. c \in Nat BY <1>1, AfterRemovalBounds DEF StripOK
<1>5. PageTabRemoved(s, i) = [r EXCEPT !.tabs = r.tabs - 1,
                                       !.current = AfterRemoval(r.current, i, s.tabs)]
  BY <1>1 DEF PageTabRemoved
<1> HIDE DEF r
<1>6. r.tabs = s.tabs /\ r.current = s.current BY <1>2
<1>7. PageTabRemoved(s, i) = [r EXCEPT !.tabs = s.tabs - 1, !.current = c]
  BY <1>5, <1>6
<1> HIDE DEF c
<1>8. PageTabRemoved(s, i) =
        [stack |-> r.stack, shown |-> r.shown, tabs |-> s.tabs - 1, current |-> c]
  BY <1>1, <1>3, <1>4, <1>7, TabsChange DEF StripOK
<1> QED BY <1>2, <1>8 DEF c

LEMMA PageTabRemovedOK ==
  ASSUME NEW s, StripOK(s), NEW i \in Nat \ {0}
  PROVE  /\ StripOK(PageTabRemoved(s, i))
         /\ s.tabs - 1 <= PageTabRemoved(s, i).tabs
<1>1. Len(s.stack) \in Nat /\ s.tabs \in Nat /\ s.stack \in Seq(Widget)
  BY LenProperties DEF StripOK
<1>2. CASE i > Len(s.stack)
  BY <1>1, <1>2 DEF PageTabRemoved
<1>3. CASE ~(i > Len(s.stack))
  <2> DEFINE a == RemoveAt(s.stack, i)
             b == AfterRemoval(s.shown, i, Len(s.stack))
             c == AfterRemoval(s.current, i, s.tabs)
  <2>1. i \in 1..Len(s.stack) /\ i \in 1..s.tabs /\ s.tabs - 1 \in Nat
    BY <1>1, <1>3 DEF StripOK
  <2>2. a \in Seq(Widget) /\ Len(a) = Len(s.stack) - 1 BY <1>1, <2>1, Removal
  <2>3. b \in Nat /\ b <= Len(s.stack) - 1
    BY <1>1, <2>1, AfterRemovalBounds DEF StripOK
  <2>4. c \in Nat /\ c <= s.tabs - 1
    BY <1>1, <2>1, AfterRemovalBounds DEF StripOK
  <2>5. PageTabRemoved(s, i) = [stack |-> a, shown |-> b, tabs |-> s.tabs - 1, current |-> c]
    BY <2>1, PageTabRemovedIs
  <2> HIDE DEF a, b, c
  <2>6. Len(a) <= s.tabs - 1 BY <1>1, <2>2 DEF StripOK
  <2> QED BY <1>1, <2>1, <2>2, <2>3, <2>4, <2>5, <2>6 DEF StripOK
<1> QED BY <1>2, <1>3

LEMMA PageTabInsertedIs ==
  ASSUME NEW s, StripOK(s), NEW i \in Nat \ {0}, NEW w \in Widget
  PROVE  PageTabInserted(s, i, w) =
           [stack |-> InsertAt(s.stack, AtMost(i, Len(s.stack) + 1), w),
            shown |-> AfterInsertion(s.shown, AtMost(i, Len(s.stack) + 1)),
            tabs |-> s.tabs + 1,
            current |-> AfterInsertion(s.current, AtMost(i, s.tabs + 1))]
<1>1. Len(s.stack) \in Nat /\ s.tabs \in Nat /\ s.stack \in Seq(Widget)
  BY LenProperties DEF StripOK
<1> DEFINE at == AtMost(i, Len(s.stack) + 1)
           k == AtMost(i, s.tabs + 1)
           a == InsertAt(s.stack, at, w)
           b == AfterInsertion(s.shown, at)
           c == AfterInsertion(s.current, k)
           r == StackInserted(s, i, w)
<1>2. at \in 1..(Len(s.stack) + 1) /\ k \in 1..(s.tabs + 1) BY <1>1 DEF AtMost
<1>3. a \in Seq(Widget) BY <1>1, <1>2, Insertion
<1>4. b \in Nat BY <1>1, <1>2, AfterInsertionBounds DEF StripOK
<1>5. c \in Nat BY <1>1, <1>2, AfterInsertionBounds DEF StripOK
<1>6. r = [stack |-> a, shown |-> b, tabs |-> s.tabs, current |-> s.current]
  BY StackInsertedIs
<1>7. PageTabInserted(s, i, w) =
        [r EXCEPT !.tabs = r.tabs + 1, !.current = AfterInsertion(r.current, k)]
  BY DEF PageTabInserted
<1> HIDE DEF at, a, b, k, r
<1>8. /\ r.tabs = s.tabs /\ r.current = s.current /\ r.stack = a /\ r.shown = b
      /\ r \in [stack : Seq(Widget), shown : Nat, tabs : Nat, current : Nat]
  BY <1>3, <1>4, <1>6 DEF StripOK
<1>9. PageTabInserted(s, i, w) = [r EXCEPT !.tabs = s.tabs + 1, !.current = c]
  BY <1>7, <1>8
<1> HIDE DEF c
<1>10. PageTabInserted(s, i, w) =
         [stack |-> r.stack, shown |-> r.shown, tabs |-> s.tabs + 1, current |-> c]
  BY <1>1, <1>5, <1>8, <1>9, TabsChange
<1> QED BY <1>8, <1>10 DEF at, a, b, c, k

LEMMA PageTabInsertedOK ==
  ASSUME NEW s, StripOK(s), NEW i \in Nat \ {0}, NEW w \in Widget
  PROVE  /\ StripOK(PageTabInserted(s, i, w))
         /\ PageTabInserted(s, i, w).tabs = s.tabs + 1
<1>1. Len(s.stack) \in Nat /\ s.tabs \in Nat /\ s.stack \in Seq(Widget)
  BY LenProperties DEF StripOK
<1> DEFINE at == AtMost(i, Len(s.stack) + 1)
           k == AtMost(i, s.tabs + 1)
           a == InsertAt(s.stack, at, w)
           b == AfterInsertion(s.shown, at)
           c == AfterInsertion(s.current, k)
<1>2. at \in 1..(Len(s.stack) + 1) /\ k \in 1..(s.tabs + 1) BY <1>1 DEF AtMost
<1>3. a \in Seq(Widget) /\ Len(a) = Len(s.stack) + 1 BY <1>1, <1>2, Insertion
<1>4. b \in Nat /\ b <= Len(s.stack) + 1 BY <1>1, <1>2, AfterInsertionBounds DEF StripOK
<1>5. c \in Nat /\ c <= s.tabs + 1 BY <1>1, <1>2, AfterInsertionBounds DEF StripOK
<1>6. PageTabInserted(s, i, w) = [stack |-> a, shown |-> b, tabs |-> s.tabs + 1, current |-> c]
  BY PageTabInsertedIs
<1> HIDE DEF at, a, b, c, k
<1>7. Len(a) <= s.tabs + 1 BY <1>1, <1>3 DEF StripOK
<1> QED BY <1>1, <1>3, <1>4, <1>5, <1>6, <1>7 DEF StripOK

LEMMA ShownAtOK ==
  ASSUME NEW s, StripOK(s), NEW i \in Nat
  PROVE  StripOK(ShownAt(s, i)) /\ ShownAt(s, i).tabs = s.tabs
BY DEF StripOK, ShownAt

LEMMA PageTabSelectedOK ==
  ASSUME NEW s, StripOK(s), NEW i \in Nat
  PROVE  StripOK(PageTabSelected(s, i)) /\ PageTabSelected(s, i).tabs = s.tabs
<1> DEFINE r == [s EXCEPT !.current = IF i <= s.tabs THEN i ELSE @]
<1>1. StripOK(r) /\ r.tabs = s.tabs BY DEF StripOK
<1> HIDE DEF r
<1>2. PageTabSelected(s, i) = ShownAt(r, i) BY DEF PageTabSelected, r
<1> QED BY <1>1, <1>2, ShownAtOK

LEMMA ReplacedOK ==
  ASSUME NEW s, StripOK(s), NEW i \in Nat \ {0}, NEW w \in Widget, NEW b \in BOOLEAN
  PROVE  StripOK(Replaced(s, i, w, b)) /\ s.tabs <= Replaced(s, i, w, b).tabs
<1> DEFINE r == PageTabRemoved(s, i)
           u == PageTabInserted(r, i, w)
<1>1. StripOK(r) /\ s.tabs - 1 <= r.tabs BY PageTabRemovedOK
<1> HIDE DEF r
<1>2. StripOK(u) /\ u.tabs = r.tabs + 1 BY <1>1, PageTabInsertedOK
<1> HIDE DEF u
<1>3. s.tabs <= u.tabs BY <1>1, <1>2 DEF StripOK
<1>4. StripOK(PageTabSelected(u, i)) /\ PageTabSelected(u, i).tabs = u.tabs
  BY <1>2, PageTabSelectedOK
<1>5. Replaced(s, i, w, b) = IF b THEN PageTabSelected(u, i) ELSE u
  BY DEF Replaced, r, u
<1> QED BY <1>2, <1>3, <1>4, <1>5

LEMMA Widgets ==
  ASSUME NEW t \in Tab
  PROVE  /\ View(t) \in Widget /\ Recovery(t) \in Widget
         /\ Crashed(t) \in Widget /\ Tombstone(t) \in Widget
BY DEF View, Recovery, Crashed, Tombstone, Widget

LEMMA ResumedStripOK ==
  ASSUME NEW s, StripOK(s), NEW t \in Tab, NEW i \in Nat \ {0}
  PROVE  StripOK(ResumedStrip(s, t, i)) /\ s.tabs <= ResumedStrip(s, t, i).tabs
<1> DEFINE r == PageTabRemoved(s, i)
           d == Deleted(r, Tombstone(t))
           u == PageTabInserted(d, i, View(t))
<1>1. StripOK(r) /\ s.tabs - 1 <= r.tabs BY PageTabRemovedOK
<1> HIDE DEF r
<1>2. StripOK(d) /\ d.tabs = r.tabs BY <1>1, DeletedOK
<1> HIDE DEF d
<1>3. StripOK(u) /\ u.tabs = d.tabs + 1 BY <1>2, Widgets, PageTabInsertedOK
<1> HIDE DEF u
<1>4. StripOK(PageTabSelected(u, i)) /\ PageTabSelected(u, i).tabs = u.tabs
  BY <1>3, PageTabSelectedOK, SMTT(30)
<1>5. s.tabs <= u.tabs
  <2>1. s.tabs \in Nat /\ r.tabs \in Nat BY <1>1 DEF StripOK
  <2> QED BY <1>1, <1>2, <1>3, <2>1
<1>6. ResumedStrip(s, t, i) = PageTabSelected(u, i)
  BY DEF ResumedStrip, r, d, u
<1> QED BY <1>4, <1>5, <1>6

LEMMA ActivatedOK ==
  ASSUME NEW s, StripOK(s), NEW ps \in Seq(Tab), NEW i \in Nat
  PROVE  StripOK(Activated(s, ps, i)) /\ s.tabs <= Activated(s, ps, i).tabs
<1>1. StripOK(ShownAt(s, i)) /\ ShownAt(s, i).tabs = s.tabs BY ShownAtOK
<1>2. CASE Asleep(ps, i)
  <2>1. i \in 1..Len(ps) /\ Len(ps) \in Nat BY <1>2, LenProperties DEF Asleep
  <2>2. i \in Nat \ {0} /\ ps[i] \in Tab BY <2>1, ElementOfSeq
  <2>3. Activated(s, ps, i) = ResumedStrip(ShownAt(s, i), ps[i], i)
    BY <1>2 DEF Activated
  <2> QED BY <1>1, <2>2, <2>3, ResumedStripOK
<1>3. CASE ~Asleep(ps, i)
  <2>1. Activated(s, ps, i) = ShownAt(s, i) BY <1>3 DEF Activated
  <2>2. s.tabs \in Nat BY DEF StripOK
  <2> QED BY <1>1, <2>1, <2>2
<1> QED BY <1>2, <1>3

LEMMA TabAppendedOK ==
  ASSUME NEW s, StripOK(s), NEW ps \in Seq(Tab), NEW t \in Tab
  PROVE  StripOK(TabAppended(s, ps, t)) /\ TabAppended(s, ps, t).tabs = s.tabs + 1
<1>1. Len(s.stack) + 1 \in Nat \ {0} /\ Len(ps) + 1 \in Nat /\ View(t) \in Widget
  BY LenProperties, Widgets DEF StripOK
<1> DEFINE u == PageTabInserted(s, Len(s.stack) + 1, View(t))
<1>2. StripOK(u) /\ u.tabs = s.tabs + 1 BY <1>1, PageTabInsertedOK
<1>3. TabAppended(s, ps, t) = PageTabSelected(u, Len(ps) + 1)
  BY DEF TabAppended
<1> HIDE DEF u
<1> QED BY <1>1, <1>2, <1>3, PageTabSelectedOK

-----------------------------------------------------------------------------
(* Type correctness.  Every open tab has a tab in m_tabBar, while m_stack   *)
(* may have lost a cell of it.                                              *)

TypeInv ==
  /\ pages \in Seq(Tab) /\ 1 <= Len(pages) /\ Len(pages) <= strip.tabs
  /\ StripOK(strip)
  /\ page \in [Tab -> TabPage]
  /\ autoRetries \in [Tab -> Nat] /\ derailed \in BOOLEAN

LEMMA IndexOfProperties ==
  ASSUME pages \in Seq(Tab), NEW t \in ToSet(pages)
  PROVE  /\ t \in Tab /\ IndexOf(t) \in 1..Len(pages) /\ pages[IndexOf(t)] = t
         /\ IndexOf(t) \in Nat \ {0}
<1>1. DOMAIN pages = 1..Len(pages) /\ Len(pages) \in Nat BY LenProperties
<1>2. \E i \in DOMAIN pages : pages[i] = t BY DEF ToSet
<1>3. IndexOf(t) \in DOMAIN pages /\ pages[IndexOf(t)] = t BY <1>2 DEF IndexOf
<1>4. t \in Tab BY <1>1, <1>3, ElementOfSeq
<1> QED BY <1>1, <1>3, <1>4

LEMMA NewPageType == NewPage \in TabPage
BY DEF NewPage, TabPage, Render, Cover, CrashCount

LEMMA PagesActivatedType ==
  ASSUME page \in [Tab -> TabPage], NEW ps \in Seq(Tab), NEW i \in Nat
  PROVE  PagesActivated(ps, i) \in [Tab -> TabPage]
<1>1. \A p \in TabPage : Resumed(p) \in TabPage
  BY DEF Resumed, TabPage, Render, Cover
<1>2. ASSUME Asleep(ps, i) PROVE ps[i] \in Tab
  BY <1>2, LenProperties, ElementOfSeq DEF Asleep
<1> QED BY <1>1, <1>2 DEF PagesActivated

LEMMA AddTabType == ASSUME TypeInv, AddTab PROVE TypeInv'
<1> PICK t \in Tab \ ToSet(pages) :
      /\ page' = [page EXCEPT ![t] = NewPage]
      /\ strip' = TabAppended(strip, pages, t)
      /\ pages' = Append(pages, t)
      /\ UNCHANGED <<autoRetries, derailed>>
  BY DEF AddTab
<1>1. pages' \in Seq(Tab) /\ Len(pages') = Len(pages) + 1
  BY AppendProperties DEF TypeInv
<1>2. StripOK(strip)' /\ strip'.tabs = strip.tabs + 1
  BY TabAppendedOK DEF TypeInv, StripOK
<1>3. page' \in [Tab -> TabPage] BY NewPageType DEF TypeInv
<1>4. Len(pages) \in Nat /\ strip.tabs \in Nat BY LenProperties DEF TypeInv, StripOK
<1> QED BY <1>1, <1>2, <1>3, <1>4 DEF TypeInv

LEMMA CoverDeletedOK ==
  ASSUME NEW s, StripOK(s), NEW t \in Tab
  PROVE  StripOK(CoverDeleted(s, t)) /\ CoverDeleted(s, t).tabs = s.tabs
BY DeletedOK DEF CoverDeleted

LEMMA CloseTabType ==
  ASSUME TypeInv, NEW i \in DOMAIN pages, CloseTab(i)
  PROVE  TypeInv'
<1> DEFINE t         == pages[i]
           rest      == RemoveAt(pages, i)
           s         == PageTabRemoved(strip, i)
           signalled == i <= strip.current /\ i <= Len(strip.stack)
           r         == IF signalled THEN Activated(s, rest, s.current) ELSE s
           d         == IF page[t].suspended THEN Deleted(r, Tombstone(t))
                                             ELSE CoverDeleted(r, t)
<1>1. /\ pages \in Seq(Tab) /\ Len(pages) \in Nat /\ i \in 1..Len(pages) /\ t \in Tab
      /\ i \in Nat \ {0} /\ StripOK(strip) /\ strip.tabs \in Nat
  BY LenProperties, ElementOfSeq DEF TypeInv, StripOK
<1>2. rest \in Seq(Tab) /\ Len(rest) = Len(pages) - 1 BY <1>1, Removal
<1>3. StripOK(s) /\ strip.tabs - 1 <= s.tabs /\ s.current \in Nat /\ s.tabs \in Nat
  BY <1>1, PageTabRemovedOK DEF StripOK
<1>4. /\ strip' = d /\ pages' = rest
      /\ page' = [IF signalled THEN PagesActivated(rest, s.current) ELSE page
                  EXCEPT ![t] = NewPage]
      /\ autoRetries' = [autoRetries EXCEPT ![t] = 0] /\ derailed' = derailed
      /\ Len(pages) > 1
  BY DEF CloseTab, Closed
<1> HIDE DEF t, rest, s
<1>5. StripOK(r) /\ s.tabs <= r.tabs /\ r.tabs \in Nat
  <2> DEFINE q == Activated(s, rest, s.current)
  <2>1. StripOK(q) /\ s.tabs <= q.tabs BY <1>2, <1>3, ActivatedOK
  <2>2. r = q \/ r = s OBVIOUS
  <2> HIDE DEF q, r
  <2>3. StripOK(r) /\ s.tabs <= r.tabs BY <1>3, <2>1, <2>2
  <2> QED BY <2>3 DEF StripOK
<1> HIDE DEF r
<1>6. StripOK(d) /\ d.tabs = r.tabs BY <1>1, <1>5, DeletedOK, CoverDeletedOK
<1> HIDE DEF d
<1>7. Len(pages') <= strip'.tabs /\ 1 <= Len(pages')
  <2>1. Len(pages) <= strip.tabs /\ 1 < Len(pages) BY <1>4 DEF TypeInv
  <2>2. strip'.tabs = r.tabs BY <1>4, <1>6
  <2>3. Len(pages') = Len(pages) - 1 BY <1>2, <1>4
  <2> QED BY <1>1, <1>3, <1>5, <2>1, <2>2, <2>3
<1>8. page' \in [Tab -> TabPage]
  BY <1>2, <1>3, <1>4, PagesActivatedType, NewPageType DEF TypeInv
<1>9. autoRetries' \in [Tab -> Nat] BY <1>4 DEF TypeInv
<1>10. StripOK(strip') BY <1>4, <1>6
<1> QED BY <1>2, <1>4, <1>7, <1>8, <1>9, <1>10 DEF TypeInv, StripOK

LEMMA CloseLastTabType == ASSUME TypeInv, CloseLastTab PROVE TypeInv'
<1> PICK t \in Tab :
      /\ page' = [page EXCEPT ![t] = NewPage]
      /\ strip' = TabAppended(PageTabRemoved(strip, 1), <<>>, t)
      /\ pages' = <<t>>
  BY DEF CloseLastTab
<1>1. StripOK(PageTabRemoved(strip, 1)) BY PageTabRemovedOK DEF TypeInv
<1>2. /\ StripOK(strip')
      /\ strip'.tabs = PageTabRemoved(strip, 1).tabs + 1
  BY <1>1, EmptySeq, TabAppendedOK
<1>3. PageTabRemoved(strip, 1).tabs \in Nat BY <1>1 DEF StripOK
<1>4. page' \in [Tab -> TabPage] BY NewPageType DEF TypeInv
<1>5. autoRetries' \in [Tab -> Nat] /\ derailed' \in BOOLEAN
  BY DEF TypeInv, CloseLastTab
<1>6. pages' \in Seq(Tab) /\ Len(pages') = 1 OBVIOUS
<1>7. 1 <= strip'.tabs BY <1>2, <1>3
<1> QED BY <1>2, <1>4, <1>5, <1>6, <1>7 DEF TypeInv, StripOK

LEMMA SelectTabType ==
  ASSUME TypeInv, NEW i \in 1..strip.tabs, SelectTab(i)
  PROVE  TypeInv'
<1> DEFINE r == [strip EXCEPT !.current = i]
<1>1. StripOK(r) /\ r.tabs = strip.tabs /\ i \in Nat
  <2>1. StripOK(strip) /\ strip.tabs \in Nat /\ i \in Nat /\ i <= strip.tabs
    BY DEF TypeInv, StripOK
  <2> QED BY <2>1 DEF StripOK
<1>2. strip' = Activated(r, pages, i) /\ page' = PagesActivated(pages, i)
  BY DEF SelectTab
<1> HIDE DEF r
<1>3. StripOK(strip') /\ strip.tabs <= strip'.tabs
  BY <1>1, <1>2, ActivatedOK DEF TypeInv
<1>4. page' \in [Tab -> TabPage] BY <1>1, <1>2, PagesActivatedType DEF TypeInv
<1>5. UNCHANGED <<pages, autoRetries, derailed>> BY DEF SelectTab
<1>6. Len(pages) \in Nat /\ strip.tabs \in Nat /\ strip'.tabs \in Nat
  BY <1>3, LenProperties DEF TypeInv, StripOK
<1> QED BY <1>3, <1>4, <1>5, <1>6 DEF TypeInv, StripOK

(* Moving a cell of the stack.                                              *)
LEMMA StackMovedOK ==
  ASSUME NEW s, StripOK(s), NEW i \in 1..Len(s.stack), NEW j \in Nat \ {0}
  PROVE  /\ StripOK(StackInserted(StackRemoved(s, i), j, s.stack[i]))
         /\ StackInserted(StackRemoved(s, i), j, s.stack[i]).tabs = s.tabs
<1> DEFINE r == StackRemoved(s, i)
<1>1. s.stack[i] \in Widget /\ Len(s.stack) \in Nat
  BY LenProperties, ElementOfSeq DEF StripOK
<1>2. StripOK(r) /\ r.tabs = s.tabs /\ Len(r.stack) = Len(s.stack) - 1
  BY StackRemovedOK
<1> HIDE DEF r
<1>3. Len(r.stack) < r.tabs BY <1>1, <1>2 DEF StripOK
<1>4. StripOK(StackInserted(r, j, s.stack[i])) /\ StackInserted(r, j, s.stack[i]).tabs = r.tabs
  BY <1>1, <1>2, <1>3, StackInsertedOK
<1> QED BY <1>2, <1>4 DEF r

(* The index of the selected tab after the tab at i moved to j.             *)
CurrentMoved(c, i, j) ==
  CASE c = i -> j
    [] i < c /\ c <= j -> c - 1
    [] j <= c /\ c < i -> c + 1
    [] OTHER -> c

LEMMA CurrentMovedBounds ==
  ASSUME NEW n \in Nat, NEW c \in 0..n, NEW i \in 1..n, NEW j \in 1..n
  PROVE  CurrentMoved(c, i, j) \in 0..n
BY DEF CurrentMoved

LEMMA MoveTabType ==
  ASSUME TypeInv, NEW i \in DOMAIN pages, NEW j \in DOMAIN pages, MoveTab(i, j)
  PROVE  TypeInv'
<1> DEFINE e   == pages[i]
           ps  == InsertAt(RemoveAt(pages, i), j, e)
           cur == CurrentMoved(strip.current, i, j)
           m   == StackInserted(StackRemoved(strip, i), j, strip.stack[i])
           s   == IF i > Len(strip.stack) THEN strip ELSE m
           r   == [s EXCEPT !.current = cur]
<1>1. /\ pages \in Seq(Tab) /\ Len(pages) \in Nat /\ e \in Tab
      /\ i \in 1..Len(pages) /\ j \in 1..Len(pages)
      /\ StripOK(strip) /\ strip.tabs \in Nat /\ Len(pages) <= strip.tabs
      /\ strip.current \in 0..strip.tabs /\ Len(strip.stack) \in Nat
      /\ i \in 1..strip.tabs /\ j \in 1..strip.tabs /\ j \in Nat \ {0}
  BY LenProperties, ElementOfSeq DEF TypeInv, StripOK
<1>2. /\ pages' = ps
      /\ strip' = IF cur # strip.current THEN Activated(r, ps, cur) ELSE r
      /\ page' = IF cur # strip.current THEN PagesActivated(ps, cur) ELSE page
      /\ UNCHANGED <<autoRetries, derailed>>
  BY DEF MoveTab, CurrentMoved
<1>3. ps \in Seq(Tab) /\ Len(ps) = Len(pages)
  <2> DEFINE q == RemoveAt(pages, i)
  <2>1. q \in Seq(Tab) /\ Len(q) = Len(pages) - 1 BY <1>1, Removal
  <2> HIDE DEF q, e
  <2>2. j \in 1..(Len(q) + 1) /\ Len(q) + 1 = Len(pages) BY <1>1, <2>1
  <2>3. InsertAt(q, j, e) \in Seq(Tab) /\ Len(InsertAt(q, j, e)) = Len(q) + 1
    BY <1>1, <2>1, <2>2, Insertion
  <2> QED BY <2>2, <2>3 DEF q
<1>4. cur \in 0..strip.tabs BY <1>1, CurrentMovedBounds
<1>5. StripOK(s) /\ s.tabs = strip.tabs
  <2>1. CASE i > Len(strip.stack) BY <1>1, <2>1
  <2>2. CASE ~(i > Len(strip.stack))
    <3>1. i \in 1..Len(strip.stack) BY <1>1, <2>2
    <3> QED BY <1>1, <2>2, <3>1, StackMovedOK
  <2> QED BY <2>1, <2>2
<1> HIDE DEF ps, cur, s
<1>6. StripOK(r) /\ r.tabs = strip.tabs /\ cur \in Nat
  <2>1. cur \in Nat /\ cur <= s.tabs BY <1>1, <1>4, <1>5
  <2> QED BY <1>5, <2>1 DEF StripOK
<1> HIDE DEF r
<1>7. StripOK(strip') /\ strip.tabs <= strip'.tabs /\ strip'.tabs \in Nat
  <2> DEFINE q == Activated(r, ps, cur)
  <2>1. StripOK(q) /\ r.tabs <= q.tabs BY <1>3, <1>6, ActivatedOK
  <2>2. strip' = q \/ strip' = r BY <1>2
  <2> HIDE DEF q
  <2>3. StripOK(strip') /\ strip.tabs <= strip'.tabs BY <1>1, <1>6, <2>1, <2>2
  <2> QED BY <2>3 DEF StripOK
<1>8. page' \in [Tab -> TabPage]
  BY <1>2, <1>3, <1>6, PagesActivatedType DEF TypeInv
<1>9. Len(pages') <= strip'.tabs /\ 1 <= Len(pages')
  BY <1>1, <1>2, <1>3, <1>7
<1> QED BY <1>2, <1>3, <1>7, <1>8, <1>9 DEF TypeInv, StripOK

(* The step replaced a cell, or left m_stack alone.                         *)
LEMMA ReplacedType ==
  ASSUME TypeInv, NEW s, StripOK(s), s.tabs = strip.tabs,
         NEW i \in Nat \ {0}, NEW w \in Widget, NEW b \in BOOLEAN,
         strip' = Replaced(s, i, w, b), UNCHANGED pages
  PROVE  StripOK(strip') /\ Len(pages') <= strip'.tabs
<1>1. StripOK(strip') /\ s.tabs <= strip'.tabs BY ReplacedOK
<1>2. s.tabs \in Nat /\ strip'.tabs \in Nat /\ Len(pages) \in Nat
      /\ Len(pages) <= strip.tabs
  BY <1>1, LenProperties DEF TypeInv, StripOK
<1> QED BY <1>1, <1>2

(* The cells of a list whose old view is no longer its page's.              *)
Stale(st, t) ==
  [i \in DOMAIN st |-> IF st[i] = View(t) THEN [st[i] EXCEPT !.kind = "stale"] ELSE st[i]]

LEMMA StaleType ==
  ASSUME NEW st \in Seq(Widget), NEW t \in Tab
  PROVE  Stale(st, t) \in Seq(Widget) /\ Len(Stale(st, t)) = Len(st)
<1>1. Len(st) \in Nat /\ DOMAIN st = 1..Len(st) /\ st \in [1..Len(st) -> Widget]
  BY LenProperties
<1>2. \A w \in Widget : [w EXCEPT !.kind = "stale"] \in Widget BY DEF Widget
<1>3. Stale(st, t) \in [1..Len(st) -> Widget] BY <1>1, <1>2 DEF Stale
<1>4. Stale(st, t) \in Seq(Widget) BY <1>1, <1>3, SeqDef
<1>5. DOMAIN Stale(st, t) = 1..Len(st) BY <1>1 DEF Stale
<1>6. Len(Stale(st, t)) \in Nat /\ 1..Len(Stale(st, t)) = 1..Len(st)
  BY <1>4, <1>5, LenProperties
<1> QED BY <1>1, <1>4, <1>6

LEMMA NavigateDeadType == ASSUME TypeInv, NavigateDead PROVE TypeInv'
<1> PICK t \in ToSet(pages) :
      /\ IsCurrent(t) /\ ~Alive(t)
      /\ IF page[t].suspended
         THEN /\ page' = [page EXCEPT ![t] = Resumed(@)]
              /\ strip' = ResumedStrip(strip, t, strip.current)
         ELSE /\ page' = [page EXCEPT ![t].render = "running"]
              /\ strip' = [strip EXCEPT !.stack = Stale(@, t)]
      /\ UNCHANGED <<pages, autoRetries, derailed>>
  BY DEF NavigateDead, Stale
<1>1. /\ t \in Tab /\ pages \in Seq(Tab) /\ StripOK(strip)
      /\ Len(pages) \in Nat /\ strip.tabs \in Nat /\ Len(pages) <= strip.tabs
  BY IndexOfProperties, LenProperties DEF TypeInv, StripOK
<1>2. strip.current \in Nat \ {0}
  BY LenProperties DEF IsCurrent, TypeInv
<1>3. page' \in [Tab -> TabPage]
  <2>1. page[t] \in TabPage BY <1>1 DEF TypeInv
  <2>2. Resumed(page[t]) \in TabPage /\ [page[t] EXCEPT !.render = "running"] \in TabPage
    BY <2>1 DEF Resumed, TabPage, Render, Cover
  <2> QED BY <2>2 DEF TypeInv
<1>4. StripOK(strip') /\ strip.tabs <= strip'.tabs /\ strip'.tabs \in Nat
  <2>1. CASE page[t].suspended
    <3>1. StripOK(strip') /\ strip.tabs <= strip'.tabs
      BY <1>1, <1>2, <2>1, ResumedStripOK
    <3> QED BY <3>1 DEF StripOK
  <2>2. CASE ~page[t].suspended
    <3> DEFINE st == Stale(strip.stack, t)
    <3>1. strip' = [strip EXCEPT !.stack = st] BY <2>2
    <3>2. st \in Seq(Widget) /\ Len(st) = Len(strip.stack) BY <1>1, StaleType DEF StripOK
    <3> HIDE DEF st
    <3> QED BY <1>1, <3>1, <3>2 DEF StripOK
  <2> QED BY <2>1, <2>2
<1> QED BY <1>1, <1>3, <1>4 DEF TypeInv, StripOK

LEMMA RetryType == ASSUME TypeInv, Retry PROVE TypeInv'
<1> PICK t \in ToSet(pages) :
      /\ page' = [page EXCEPT ![t] =
           [page[t] EXCEPT !.cover = "recovery", !.render = "running",
                           !.jsDisabled = FALSE,
                           !.crashes = IF page[t].crashes < 2 THEN 2 ELSE page[t].crashes]]
      /\ strip' = Replaced(strip, IndexOf(t), Recovery(t), TRUE)
      /\ UNCHANGED <<pages, autoRetries, derailed>>
  BY DEF Retry
<1>1. t \in Tab /\ IndexOf(t) \in Nat \ {0} BY IndexOfProperties DEF TypeInv
<1>2. StripOK(strip') /\ Len(pages') <= strip'.tabs
  BY <1>1, Widgets, ReplacedType DEF TypeInv
<1>3. page' \in [Tab -> TabPage]
  <2> DEFINE p == page[t]
             k == IF p.crashes < 2 THEN 2 ELSE p.crashes
             q == [p EXCEPT !.cover = "recovery", !.render = "running",
                            !.jsDisabled = FALSE, !.crashes = k]
  <2>1. p \in TabPage BY <1>1 DEF TypeInv
  <2> HIDE DEF p
  <2>2. k \in CrashCount BY <2>1 DEF TabPage, CrashCount
  <2>3. page' = [page EXCEPT ![t] = q] BY DEF p
  <2> HIDE DEF k
  <2>4. q \in TabPage BY <2>1, <2>2 DEF TabPage, Render, Cover
  <2> HIDE DEF q
  <2> QED BY <2>3, <2>4 DEF TypeInv
<1> QED BY <1>2, <1>3 DEF TypeInv, StripOK

LEMMA FirstFrameType ==
  ASSUME TypeInv, NEW t \in Tab, FirstFrame(t)
  PROVE  TypeInv'
<1> USE DEF FirstFrame
<1>1. IndexOf(t) \in Nat \ {0} /\ View(t) \in Widget /\ IsCurrent(t) \in BOOLEAN
  BY IndexOfProperties, Widgets DEF TypeInv, IsCurrent
<1>2. StripOK(strip') /\ Len(pages') <= strip'.tabs
  <2>1. CASE Recovering(t) BY <1>1, <2>1, ReplacedType DEF TypeInv
  <2>2. CASE ~Recovering(t) BY <2>2 DEF TypeInv
  <2> QED BY <2>1, <2>2
<1>3. page' \in [Tab -> TabPage]
  <2> DEFINE p == page[t]
             c == IF Recovering(t) THEN "none" ELSE p.cover
             q == [p EXCEPT !.render = "painted", !.cover = c]
  <2>1. p \in TabPage BY DEF TypeInv
  <2> HIDE DEF p
  <2>2. c \in Cover BY <2>1 DEF TabPage, Cover
  <2>3. page' = [page EXCEPT ![t] = q] BY DEF p
  <2> HIDE DEF c
  <2>4. q \in TabPage BY <2>1, <2>2 DEF TabPage, Render
  <2> HIDE DEF q
  <2> QED BY <2>3, <2>4 DEF TypeInv
<1>4. UNCHANGED <<pages, autoRetries, derailed>> OBVIOUS
<1> QED BY <1>2, <1>3, <1>4 DEF TypeInv, StripOK

LEMMA SilentExitType ==
  ASSUME TypeInv, NEW t \in Tab, SilentExit(t)
  PROVE  TypeInv'
<1>1. \A p \in TabPage : [p EXCEPT !.render = "gone"] \in TabPage
  BY DEF TabPage, Render
<1>2. page' \in [Tab -> TabPage] BY <1>1 DEF SilentExit, TypeInv
<1> QED BY <1>2 DEF TypeInv, StripOK, SilentExit

LEMMA CrashType ==
  ASSUME TypeInv, NEW t \in Tab, Crash(t)
  PROVE  TypeInv'
<1> DEFINE p == page[t]
           auto == Restarts(p)
           w == IF auto THEN Recovery(t) ELSE Crashed(t)
           k == AtMost(p.crashes + 1, 3)
           q == [p EXCEPT !.crashes = k,
                          !.render = IF auto THEN "running" ELSE "none",
                          !.cover = IF auto THEN "recovery" ELSE "crash",
                          !.jsDisabled = IF auto THEN p.crashes = 0 ELSE @,
                          !.cacheCleared = @ \/ (auto /\ p.crashes = 1)]
<1>1. /\ page' = [page EXCEPT ![t] = q]
      /\ strip' = Replaced(strip, IndexOf(t), w, IsCurrent(t))
      /\ autoRetries' = IF auto THEN [autoRetries EXCEPT ![t] = @ + 1] ELSE autoRetries
      /\ UNCHANGED <<pages, derailed>> /\ t \in ToSet(pages)
  BY DEF Crash
<1>2. IndexOf(t) \in Nat \ {0} /\ w \in Widget /\ IsCurrent(t) \in BOOLEAN
  BY <1>1, IndexOfProperties, Widgets DEF TypeInv, IsCurrent
<1>3. p \in TabPage BY DEF TypeInv
<1>4. StripOK(strip') /\ Len(pages') <= strip'.tabs
  BY <1>1, <1>2, ReplacedType DEF TypeInv
<1> HIDE DEF p
<1>5. k \in CrashCount BY <1>3 DEF TabPage, CrashCount, AtMost
<1> HIDE DEF k
<1>6. q \in TabPage BY <1>3, <1>5 DEF TabPage, Render, Cover, Restarts
<1> HIDE DEF q, auto
<1>7. page' \in [Tab -> TabPage] BY <1>1, <1>6 DEF TypeInv
<1>8. autoRetries' \in [Tab -> Nat] BY <1>1 DEF TypeInv
<1> QED BY <1>1, <1>4, <1>7, <1>8 DEF TypeInv, StripOK

LEMMA SuspendType ==
  ASSUME TypeInv, NEW t \in Tab, Suspend(t)
  PROVE  TypeInv'
<1> USE DEF Suspend
<1>1. IndexOf(t) \in Nat \ {0} /\ Tombstone(t) \in Widget
  BY IndexOfProperties, Widgets DEF TypeInv, Evictable
<1>2. StripOK(CoverDeleted(strip, t)) /\ CoverDeleted(strip, t).tabs = strip.tabs
  BY CoverDeletedOK DEF TypeInv
<1>3. StripOK(strip') /\ Len(pages') <= strip'.tabs
  BY <1>1, <1>2, ReplacedType
<1>4. \A p \in TabPage : [p EXCEPT !.suspended = TRUE, !.render = "none",
                                   !.cover = "none"] \in TabPage
  BY DEF TabPage, Render, Cover
<1>5. page' \in [Tab -> TabPage] BY <1>4 DEF TypeInv
<1>6. derailed' \in BOOLEAN BY DEF TypeInv
<1>7. UNCHANGED <<pages, autoRetries>> OBVIOUS
<1> QED BY <1>3, <1>5, <1>6, <1>7 DEF TypeInv, StripOK

LEMMA InitType == ASSUME Init PROVE TypeInv
<1> PICK t \in Tab :
      /\ pages = <<t>>
      /\ strip = [stack |-> <<View(t)>>, shown |-> 1, tabs |-> 1, current |-> 1]
      /\ page = [u \in Tab |-> NewPage]
      /\ autoRetries = [u \in Tab |-> 0]
      /\ derailed = FALSE
  BY DEF Init
<1>1. pages \in Seq(Tab) /\ Len(pages) = 1 OBVIOUS
<1>2. View(t) \in Widget BY Widgets
<1>3. <<View(t)>> \in Seq(Widget) /\ Len(<<View(t)>>) = 1 BY <1>2
<1>4. StripOK(strip) BY <1>3 DEF StripOK
<1>5. strip.tabs = 1 OBVIOUS
<1>6. page \in [Tab -> TabPage] BY NewPageType
<1>7. autoRetries \in [Tab -> Nat] /\ derailed \in BOOLEAN OBVIOUS
<1> QED BY <1>1, <1>4, <1>5, <1>6, <1>7 DEF TypeInv

LEMMA NextType == ASSUME TypeInv, [Next]_vars PROVE TypeInv'
<1>1. CASE AddTab BY <1>1, AddTabType
<1>2. CASE CloseLastTab BY <1>2, CloseLastTabType
<1>3. CASE NavigateDead BY <1>3, NavigateDeadType
<1>4. CASE Retry BY <1>4, RetryType
<1>5. CASE \E i \in DOMAIN pages : CloseTab(i) BY <1>5, CloseTabType
<1>6. CASE \E i \in 1..strip.tabs : SelectTab(i) BY <1>6, SelectTabType
<1>7. CASE \E i, j \in DOMAIN pages : MoveTab(i, j) BY <1>7, MoveTabType
<1>8. CASE \E t \in Tab : FirstFrame(t) BY <1>8, FirstFrameType
<1>9. CASE \E t \in Tab : SilentExit(t) BY <1>9, SilentExitType
<1>10. CASE \E t \in Tab : Crash(t) BY <1>10, CrashType
<1>11. CASE \E t \in Tab : Suspend(t) BY <1>11, SuspendType
<1>12. CASE UNCHANGED vars BY <1>12 DEF vars, TypeInv, StripOK
<1> QED
  BY <1>1, <1>2, <1>3, <1>4, <1>5, <1>6, <1>7, <1>8, <1>9, <1>10, <1>11, <1>12 DEF Next

LEMMA TypeInvariant == Spec => []TypeInv
BY InitType, NextType, PTL DEF Spec

(* m_stack and m_tabBar never hold an index past their end, whatever was    *)
(* removed from under them: closeTab(), suspendTab(), finishRecovery() and  *)
(* the crash handler.                                                       *)
THEOREM TypeCorrect == Spec => []TypeOK
<1>1. TypeInv => TypeOK BY DEF TypeInv, TypeOK, StripOK
<1> QED BY <1>1, TypeInvariant, PTL

-----------------------------------------------------------------------------
(* No restart loop.  An unattended restart is one of the crashes its page   *)
(* counts; the count only starts again with another page, which finds the   *)
(* history of its identity empty.                                           *)

RetriesInv ==
  \A t \in Tab :
    /\ autoRetries[t] <= page[t].crashes /\ autoRetries[t] <= 2
    /\ t \notin ToSet(pages) => autoRetries[t] = 0

(* A step without a crash: the count of an open page does not go down.      *)
LEMMA RetriesKept ==
  ASSUME TypeInv, TypeInv', RetriesInv, UNCHANGED autoRetries,
         ToSet(pages) \subseteq ToSet(pages'),
         \A u \in ToSet(pages) : page[u].crashes <= page'[u].crashes
  PROVE  RetriesInv'
<1> SUFFICES ASSUME NEW u \in Tab
             PROVE  /\ autoRetries'[u] <= page'[u].crashes /\ autoRetries'[u] <= 2
                    /\ u \notin ToSet(pages') => autoRetries'[u] = 0
  BY DEF RetriesInv
<1>1. page[u] \in TabPage /\ page'[u] \in TabPage /\ autoRetries[u] \in Nat BY DEF TypeInv
<1>2. page[u].crashes \in Nat /\ page'[u].crashes \in Nat
  BY <1>1 DEF TabPage, CrashCount
<1>3. /\ autoRetries[u] <= page[u].crashes /\ autoRetries[u] <= 2
      /\ u \notin ToSet(pages) => autoRetries[u] = 0
  BY DEF RetriesInv
<1>4. CASE u \in ToSet(pages)
  <2>1. page[u].crashes <= page'[u].crashes BY <1>4
  <2> QED BY <1>1, <1>2, <1>3, <1>4, <2>1
<1>5. CASE u \notin ToSet(pages) BY <1>2, <1>3, <1>5
<1> QED BY <1>4, <1>5

LEMMA CrashesOfActivated ==
  ASSUME page \in [Tab -> TabPage], NEW ps \in Seq(Tab), NEW i \in Nat, NEW u \in Tab
  PROVE  PagesActivated(ps, i)[u].crashes = page[u].crashes
<1>1. \A p \in TabPage : Resumed(p).crashes = p.crashes BY DEF Resumed, TabPage
<1> QED BY <1>1 DEF PagesActivated

LEMMA CrashesAreNumbers ==
  ASSUME TypeInv
  PROVE  \A u \in Tab : page[u] \in TabPage /\ page[u].crashes \in Nat
BY DEF TypeInv, TabPage, CrashCount

LEMMA OpenTabs == ASSUME TypeInv PROVE ToSet(pages) \subseteq Tab
BY IndexOfProperties DEF TypeInv

LEMMA AddTabRetries == ASSUME TypeInv, TypeInv', RetriesInv, AddTab PROVE RetriesInv'
<1> PICK t \in Tab \ ToSet(pages) :
      /\ page' = [page EXCEPT ![t] = NewPage]
      /\ pages' = Append(pages, t) /\ UNCHANGED autoRetries
  BY DEF AddTab
<1>1. ToSet(pages) \subseteq ToSet(pages')
  <2>1. pages \in Seq(Tab) /\ DOMAIN pages = 1..Len(pages) /\ Len(pages) \in Nat
    BY LenProperties DEF TypeInv
  <2>2. pages' \in Seq(Tab) /\ Len(pages') = Len(pages) + 1
        /\ \A j \in 1..Len(pages) : pages'[j] = pages[j]
    BY <2>1, AppendProperties
  <2>3. DOMAIN pages' = 1..(Len(pages) + 1) BY <2>2, LenProperties
  <2>4. \A j \in DOMAIN pages : j \in DOMAIN pages' /\ pages'[j] = pages[j]
    BY <2>1, <2>2, <2>3
  <2> QED BY <2>4 DEF ToSet
<1>2. \A u \in ToSet(pages) : page[u].crashes <= page'[u].crashes
  BY OpenTabs, CrashesAreNumbers DEF TypeInv
<1> QED BY <1>1, <1>2, RetriesKept

LEMMA CloseTabRetries ==
  ASSUME TypeInv, TypeInv', RetriesInv, NEW i \in DOMAIN pages, CloseTab(i)
  PROVE  RetriesInv'
<1> DEFINE t == pages[i]
           s == PageTabRemoved(strip, i)
           rest == RemoveAt(pages, i)
           signalled == i <= strip.current /\ i <= Len(strip.stack)
           pg == IF signalled THEN PagesActivated(rest, s.current) ELSE page
<1>1. /\ pages \in Seq(Tab) /\ i \in 1..Len(pages) /\ t \in Tab /\ i \in Nat \ {0}
      /\ page \in [Tab -> TabPage] /\ StripOK(strip) /\ autoRetries \in [Tab -> Nat]
  BY LenProperties, ElementOfSeq DEF TypeInv
<1>2. /\ pages' = rest /\ page' = [pg EXCEPT ![t] = NewPage]
      /\ autoRetries' = [autoRetries EXCEPT ![t] = 0]
  BY DEF CloseTab, Closed
<1>3. rest \in Seq(Tab) /\ ToSet(pages) \subseteq ToSet(rest) \cup {t}
  BY <1>1, Removal, RemovalElements
<1>4. s.current \in Nat BY <1>1, PageTabRemovedOK DEF StripOK
<1>5. pg \in [Tab -> TabPage] /\ \A u \in Tab : pg[u].crashes = page[u].crashes
  BY <1>1, <1>3, <1>4, PagesActivatedType, CrashesOfActivated
<1> HIDE DEF t, pg, rest
<1>6. ASSUME NEW u \in Tab
      PROVE  /\ autoRetries'[u] <= page'[u].crashes /\ autoRetries'[u] <= 2
             /\ u \notin ToSet(pages') => autoRetries'[u] = 0
  <2>1. page'[u].crashes \in Nat
    BY CrashesAreNumbers, <1>2, <1>5, NewPageType DEF TabPage, CrashCount
  <2>2. CASE u = t BY <1>1, <1>2, <2>1, <2>2
  <2>3. CASE u # t
    <3>1. autoRetries'[u] = autoRetries[u] /\ page'[u].crashes = page[u].crashes
      BY <1>1, <1>2, <1>5, <2>3
    <3>2. u \notin ToSet(pages') => u \notin ToSet(pages) BY <1>2, <1>3, <2>3
    <3> QED BY <3>1, <3>2 DEF RetriesInv
  <2> QED BY <2>2, <2>3
<1> QED BY <1>6 DEF RetriesInv

LEMMA CloseLastTabRetries ==
  ASSUME TypeInv, TypeInv', RetriesInv, CloseLastTab
  PROVE  RetriesInv'
<1> PICK t \in Tab : page' = [page EXCEPT ![t] = NewPage]
  BY DEF CloseLastTab
<1> DEFINE old == pages[1]
<1>1. /\ autoRetries' = [autoRetries EXCEPT ![old] = 0]
      /\ autoRetries \in [Tab -> Nat] /\ page \in [Tab -> TabPage]
  BY DEF CloseLastTab, TypeInv
<1>2. ToSet(pages) \subseteq {old}
  <2>1. DOMAIN pages = 1..1 BY LenProperties DEF TypeInv, CloseLastTab
  <2> QED BY <2>1 DEF ToSet
<1> HIDE DEF old
<1>3. ASSUME NEW u \in Tab
      PROVE  /\ autoRetries'[u] <= page'[u].crashes /\ autoRetries'[u] <= 2
             /\ u \notin ToSet(pages') => autoRetries'[u] = 0
  <2>1. page'[u].crashes \in Nat BY <1>1, CrashesAreNumbers, NewPageType DEF TabPage, CrashCount
  <2>2. autoRetries'[u] = 0 BY <1>1, <1>2 DEF RetriesInv
  <2> QED BY <2>1, <2>2
<1> QED BY <1>3 DEF RetriesInv

LEMMA SelectTabRetries ==
  ASSUME TypeInv, TypeInv', RetriesInv, NEW i \in 1..strip.tabs, SelectTab(i)
  PROVE  RetriesInv'
<1>1. page' = PagesActivated(pages, i) /\ UNCHANGED <<pages, autoRetries>> /\ i \in Nat
  BY DEF SelectTab, TypeInv, StripOK
<1>2. \A u \in ToSet(pages) : page[u].crashes <= page'[u].crashes
  BY <1>1, OpenTabs, CrashesOfActivated, CrashesAreNumbers DEF TypeInv
<1> QED BY <1>1, <1>2, RetriesKept

LEMMA MoveTabRetries ==
  ASSUME TypeInv, TypeInv', RetriesInv,
         NEW i \in DOMAIN pages, NEW j \in DOMAIN pages, MoveTab(i, j)
  PROVE  RetriesInv'
<1> DEFINE e   == pages[i]
           q   == RemoveAt(pages, i)
           ps  == InsertAt(q, j, e)
           cur == CurrentMoved(strip.current, i, j)
<1>1. /\ pages \in Seq(Tab) /\ Len(pages) \in Nat /\ e \in Tab
      /\ i \in 1..Len(pages) /\ j \in 1..Len(pages)
  BY LenProperties, ElementOfSeq DEF TypeInv
<1>2. /\ pages' = ps /\ autoRetries' = autoRetries
      /\ page' = IF cur # strip.current THEN PagesActivated(ps, cur) ELSE page
  BY DEF MoveTab, CurrentMoved
<1>3. q \in Seq(Tab) /\ Len(q) = Len(pages) - 1 /\ ToSet(pages) \subseteq ToSet(q) \cup {e}
  BY <1>1, Removal, RemovalElements
<1> HIDE DEF q, e
<1>4. ps \in Seq(Tab) /\ ToSet(q) \cup {e} \subseteq ToSet(ps)
  <2>1. j \in 1..(Len(q) + 1) BY <1>1, <1>3
  <2> QED BY <1>1, <1>3, <2>1, Insertion, InsertionElements
<1>5. cur \in Nat
  <2>1. /\ strip.tabs \in Nat /\ Len(pages) <= strip.tabs
        /\ strip.current \in Nat /\ strip.current <= strip.tabs
    BY DEF TypeInv, StripOK
  <2>2. i \in 1..strip.tabs /\ j \in 1..strip.tabs /\ strip.current \in 0..strip.tabs
    BY <1>1, <2>1
  <2>3. cur \in 0..strip.tabs BY <2>1, <2>2, CurrentMovedBounds
  <2> HIDE DEF cur
  <2> QED BY <2>1, <2>3
<1> HIDE DEF ps, cur
<1>6. \A u \in ToSet(pages) : page[u].crashes <= page'[u].crashes
  <2> TAKE u \in ToSet(pages)
  <2>1. u \in Tab /\ page[u].crashes \in Nat /\ page \in [Tab -> TabPage]
    BY OpenTabs, CrashesAreNumbers DEF TypeInv
  <2>2. PagesActivated(ps, cur)[u].crashes = page[u].crashes
    BY <1>4, <1>5, <2>1, CrashesOfActivated
  <2>3. page' = PagesActivated(ps, cur) \/ page' = page BY <1>2
  <2> QED BY <2>1, <2>2, <2>3
<1> QED BY <1>2, <1>3, <1>4, <1>6, RetriesKept

LEMMA CrashRetries ==
  ASSUME TypeInv, TypeInv', RetriesInv, NEW t \in Tab, Crash(t)
  PROVE  RetriesInv'
<1> DEFINE p == page[t]
           auto == Restarts(p)
<1>1. /\ autoRetries' = IF auto THEN [autoRetries EXCEPT ![t] = @ + 1] ELSE autoRetries
      /\ pages' = pages /\ t \in ToSet(pages)
      /\ page \in [Tab -> TabPage] /\ autoRetries \in [Tab -> Nat]
  BY DEF Crash, TypeInv
<1>2. page'[t].crashes = AtMost(p.crashes + 1, 3) /\ \A u \in Tab \ {t} : page'[u] = page[u]
  BY <1>1 DEF Crash, TabPage
<1>3. p.crashes \in 0..3 BY <1>1 DEF TabPage, CrashCount
<1>4. auto => p.crashes <= 1 BY <1>3 DEF Restarts
<1> HIDE DEF auto, p
<1>5. ASSUME NEW u \in Tab
      PROVE  /\ autoRetries'[u] <= page'[u].crashes /\ autoRetries'[u] <= 2
             /\ u \notin ToSet(pages') => autoRetries'[u] = 0
  <2>1. CASE u = t
    <3>1. autoRetries[t] \in Nat /\ autoRetries[t] <= p.crashes /\ autoRetries[t] <= 2
      BY <1>1 DEF RetriesInv, p
    <3>2. autoRetries'[t] = IF auto THEN autoRetries[t] + 1 ELSE autoRetries[t] BY <1>1
    <3> QED BY <1>1, <1>2, <1>3, <1>4, <2>1, <3>1, <3>2 DEF AtMost
  <2>2. CASE u # t
    <3>1. autoRetries'[u] = autoRetries[u] /\ page'[u] = page[u] BY <1>1, <1>2, <2>2
    <3> QED BY <1>1, <3>1 DEF RetriesInv
  <2> QED BY <2>1, <2>2
<1> QED BY <1>5 DEF RetriesInv

(* The other steps leave the list of pages and the history alone.           *)
LEMMA OnePageRetries ==
  ASSUME TypeInv, TypeInv', RetriesInv, UNCHANGED <<pages, autoRetries>>,
         NEW t \in Tab, NEW q, page[t].crashes <= q.crashes,
         page' = [page EXCEPT ![t] = q]
  PROVE  RetriesInv'
<1>1. page \in [Tab -> TabPage] BY DEF TypeInv
<1>2. ASSUME NEW u \in ToSet(pages)
      PROVE  page[u].crashes <= page'[u].crashes
  <2>1. u \in Tab /\ page[u].crashes \in Nat BY OpenTabs, CrashesAreNumbers
  <2>2. CASE u = t
    <3>1. page'[u] = q BY <1>1, <2>1, <2>2
    <3> QED BY <2>2, <3>1
  <2>3. CASE u # t
    <3>1. page'[u] = page[u] BY <1>1, <2>1, <2>3
    <3> QED BY <2>1, <3>1
  <2> QED BY <2>2, <2>3
<1> QED BY <1>2, RetriesKept

LEMMA NavigateDeadRetries ==
  ASSUME TypeInv, TypeInv', RetriesInv, NavigateDead
  PROVE  RetriesInv'
<1> PICK t \in ToSet(pages) :
      /\ \/ page' = [page EXCEPT ![t] = Resumed(page[t])]
         \/ page' = [page EXCEPT ![t] = [page[t] EXCEPT !.render = "running"]]
      /\ UNCHANGED <<pages, autoRetries>>
  BY DEF NavigateDead
<1>1. t \in Tab /\ page[t] \in TabPage /\ page[t].crashes \in Nat
  BY OpenTabs, CrashesAreNumbers
<1>2. \A p \in TabPage : /\ Resumed(p).crashes = p.crashes
                         /\ [p EXCEPT !.render = "running"].crashes = p.crashes
  BY DEF Resumed, TabPage
<1>3. /\ page[t].crashes <= Resumed(page[t]).crashes
      /\ page[t].crashes <= [page[t] EXCEPT !.render = "running"].crashes
  BY <1>1, <1>2
<1> QED BY <1>1, <1>3, OnePageRetries

LEMMA RetryRetries ==
  ASSUME TypeInv, TypeInv', RetriesInv, Retry
  PROVE  RetriesInv'
<1> PICK t \in ToSet(pages) :
      /\ page' = [page EXCEPT ![t] =
           [page[t] EXCEPT !.cover = "recovery", !.render = "running",
                           !.jsDisabled = FALSE,
                           !.crashes = IF page[t].crashes < 2 THEN 2 ELSE page[t].crashes]]
      /\ UNCHANGED <<pages, autoRetries>>
  BY DEF Retry
<1> DEFINE k == IF page[t].crashes < 2 THEN 2 ELSE page[t].crashes
           q == [page[t] EXCEPT !.cover = "recovery", !.render = "running",
                                !.jsDisabled = FALSE, !.crashes = k]
<1>1. t \in Tab /\ page[t] \in TabPage /\ page[t].crashes \in Nat
  BY OpenTabs, CrashesAreNumbers
<1>2. page[t].crashes <= k BY <1>1
<1> HIDE DEF k
<1>3. q.crashes = k BY <1>1 DEF TabPage
<1>4. page' = [page EXCEPT ![t] = q] BY DEF k
<1> HIDE DEF q
<1>5. page[t].crashes <= q.crashes BY <1>2, <1>3
<1> QED BY <1>1, <1>4, <1>5, OnePageRetries

LEMMA FirstFrameRetries ==
  ASSUME TypeInv, TypeInv', RetriesInv, NEW t \in Tab, FirstFrame(t)
  PROVE  RetriesInv'
<1> DEFINE c == IF Recovering(t) THEN "none" ELSE page[t].cover
           q == [page[t] EXCEPT !.render = "painted", !.cover = c]
<1>1. page[t] \in TabPage /\ page[t].crashes \in Nat BY CrashesAreNumbers
<1>2. page' = [page EXCEPT ![t] = q] /\ UNCHANGED <<pages, autoRetries>> BY DEF FirstFrame
<1> HIDE DEF c
<1>3. q.crashes = page[t].crashes BY <1>1 DEF TabPage
<1> HIDE DEF q
<1>4. page[t].crashes <= q.crashes BY <1>1, <1>3
<1> QED BY <1>2, <1>4, OnePageRetries

LEMMA SilentExitRetries ==
  ASSUME TypeInv, TypeInv', RetriesInv, NEW t \in Tab, SilentExit(t)
  PROVE  RetriesInv'
<1> DEFINE q == [page[t] EXCEPT !.render = "gone"]
<1>1. page[t] \in TabPage /\ page[t].crashes \in Nat BY CrashesAreNumbers
<1>2. page' = [page EXCEPT ![t] = q] /\ UNCHANGED <<pages, autoRetries>> BY DEF SilentExit
<1>3. q.crashes = page[t].crashes BY <1>1 DEF TabPage
<1> HIDE DEF q
<1>4. page[t].crashes <= q.crashes BY <1>1, <1>3
<1> QED BY <1>2, <1>4, OnePageRetries

LEMMA SuspendRetries ==
  ASSUME TypeInv, TypeInv', RetriesInv, NEW t \in Tab, Suspend(t)
  PROVE  RetriesInv'
<1> DEFINE q == [page[t] EXCEPT !.suspended = TRUE, !.render = "none", !.cover = "none"]
<1>1. page[t] \in TabPage /\ page[t].crashes \in Nat BY CrashesAreNumbers
<1>2. page' = [page EXCEPT ![t] = q] /\ UNCHANGED <<pages, autoRetries>> BY DEF Suspend
<1>3. q.crashes = page[t].crashes BY <1>1 DEF TabPage
<1> HIDE DEF q
<1>4. page[t].crashes <= q.crashes BY <1>1, <1>3
<1> QED BY <1>2, <1>4, OnePageRetries

LEMMA InitRetries == ASSUME Init PROVE RetriesInv
<1>1. NewPage.crashes = 0 BY DEF NewPage
<1> QED BY <1>1 DEF Init, RetriesInv

LEMMA NextRetries == ASSUME TypeInv, TypeInv', RetriesInv, [Next]_vars PROVE RetriesInv'
<1>1. CASE AddTab BY <1>1, AddTabRetries
<1>2. CASE CloseLastTab BY <1>2, CloseLastTabRetries
<1>3. CASE \E i \in DOMAIN pages : CloseTab(i) BY <1>3, CloseTabRetries
<1>4. CASE \E i \in 1..strip.tabs : SelectTab(i) BY <1>4, SelectTabRetries
<1>5. CASE \E i, j \in DOMAIN pages : MoveTab(i, j) BY <1>5, MoveTabRetries
<1>6. CASE \E t \in Tab : Crash(t) BY <1>6, CrashRetries
<1>7. CASE NavigateDead BY <1>7, NavigateDeadRetries
<1>8. CASE Retry BY <1>8, RetryRetries
<1>9. CASE \E t \in Tab : FirstFrame(t) BY <1>9, FirstFrameRetries
<1>10. CASE \E t \in Tab : SilentExit(t) BY <1>10, SilentExitRetries
<1>11. CASE \E t \in Tab : Suspend(t) BY <1>11, SuspendRetries
<1>12. CASE UNCHANGED vars BY <1>12 DEF vars, RetriesInv
<1> QED
  BY <1>1, <1>2, <1>3, <1>4, <1>5, <1>6, <1>7, <1>8, <1>9, <1>10, <1>11, <1>12 DEF Next

(* However often a page is recovered, suspended, resumed and retried, its   *)
(* crash handler restarts it on its own at most twice.                      *)
THEOREM RetriesStayBounded == Spec => []AutoRetriesBounded
<1>1. RetriesInv => AutoRetriesBounded BY DEF RetriesInv, AutoRetriesBounded
<1> QED BY <1>1, TypeInvariant, InitRetries, NextRetries, PTL DEF Spec

-----------------------------------------------------------------------------
(* The cells of m_stack against the list of pages.                          *)

Distinct(ps) == \A j, k \in 1..Len(ps) : ps[j] = ps[k] => j = k

Fits(p, kind) ==
  IF p.suspended THEN kind = "tombstone"
  ELSE IF p.cover # "none" THEN kind = p.cover
  ELSE kind \in {"view", "stale"}

Cells(st, ps, pg) ==
  /\ Len(st) = Len(ps)
  /\ \A j \in 1..Len(ps) : st[j].tab = ps[j] /\ Fits(pg[ps[j]], st[j].kind)

Good(s, ps, pg) ==
  /\ Cells(s.stack, ps, pg) /\ s.tabs = Len(ps)
  /\ s.current \in 1..Len(ps) /\ s.shown = s.current
  /\ ~pg[ps[s.current]].suspended

LEMMA PageTabSelectedIs ==
  ASSUME NEW s, StripOK(s), NEW i \in Nat, i <= s.tabs, i <= Len(s.stack)
  PROVE  PageTabSelected(s, i) =
           [stack |-> s.stack, shown |-> i, tabs |-> s.tabs, current |-> i]
<1> DEFINE R == [stack : Seq(Widget), shown : Nat, tabs : Nat, current : Nat]
           r == [s EXCEPT !.current = i]
           u == [r EXCEPT !.shown = i]
           v == [stack |-> s.stack, shown |-> i, tabs |-> s.tabs, current |-> i]
<1>1. s \in R BY DEF StripOK
<1>2. r \in R /\ r.stack = s.stack /\ r.tabs = s.tabs /\ r.current = i BY <1>1
<1>3. PageTabSelected(s, i) = ShownAt(r, i) BY DEF PageTabSelected
<1> HIDE DEF r
<1>4. ShownAt(r, i) = u BY <1>2 DEF ShownAt
<1>5. u \in R /\ u.stack = s.stack /\ u.shown = i /\ u.tabs = s.tabs /\ u.current = i
  BY <1>2
<1>6. v \in R /\ v.stack = s.stack /\ v.shown = i /\ v.tabs = s.tabs /\ v.current = i
  BY <1>1
<1>7. \A x, y \in R : /\ x.stack = y.stack /\ x.shown = y.shown
                     /\ x.tabs = y.tabs /\ x.current = y.current
                     => x = y
  BY SMTT(30)
<1> HIDE DEF R, u, v
<1>8. u = v BY <1>5, <1>6, <1>7
<1> QED BY <1>3, <1>4, <1>8 DEF v

(* The two moves of an index cancel, but for the index of the cell itself.  *)
LEMMA IndexReturns ==
  ASSUME NEW n \in Nat, NEW c \in 1..n, NEW i \in 1..n
  PROVE  /\ AfterInsertion(AfterRemoval(c, i, n), i) \in Nat
         /\ i # c => AfterInsertion(AfterRemoval(c, i, n), i) = c
BY DEF AfterInsertion, AfterRemoval

(* A replaced cell: nothing else in m_stack or m_tabBar moves, as long as   *)
(* the selected tab, and only it, is selected again.                        *)
LEMMA ReplacedIs ==
  ASSUME NEW s, StripOK(s), Len(s.stack) = s.tabs, s.shown = s.current,
         s.current \in 1..s.tabs, NEW i \in 1..s.tabs, NEW w \in Widget,
         NEW b \in BOOLEAN, b <=> (i = s.current)
  PROVE  Replaced(s, i, w, b) =
           [stack |-> InsertAt(RemoveAt(s.stack, i), i, w), shown |-> s.current,
            tabs |-> s.tabs, current |-> s.current]
<1> DEFINE n == s.tabs
           c == s.current
           a == RemoveAt(s.stack, i)
           f == InsertAt(a, i, w)
           m == AfterRemoval(c, i, n)
           d == AfterInsertion(m, i)
           r == PageTabRemoved(s, i)
           u == PageTabInserted(r, i, w)
<1>1. /\ n \in Nat /\ c \in 1..n /\ i \in Nat \ {0} /\ i \in 1..Len(s.stack)
      /\ s.stack \in Seq(Widget) /\ i \in 1..n /\ Len(s.stack) = n
  BY DEF StripOK
<1>2. a \in Seq(Widget) /\ Len(a) = n - 1 BY <1>1, Removal
<1>3. f \in Seq(Widget) /\ Len(f) = n
  <2>1. ASSUME NEW q \in Seq(Widget), NEW k \in 1..Len(q)
        PROVE  /\ InsertAt(RemoveAt(q, k), k, w) \in Seq(Widget)
               /\ Len(InsertAt(RemoveAt(q, k), k, w)) = Len(q)
    BY ReplacementSeq
  <2> QED BY <1>1, <2>1
<1>4. d \in Nat /\ (i # c => d = c) BY <1>1, IndexReturns
<1>5. r = [stack |-> a, shown |-> m, tabs |-> n - 1, current |-> m]
  BY <1>1, PageTabRemovedIs
<1>6. StripOK(r) BY <1>1, PageTabRemovedOK
<1>7. StripOK(u) BY <1>1, <1>6, PageTabInsertedOK
<1>8. u = [stack |-> InsertAt(r.stack, AtMost(i, Len(r.stack) + 1), w),
           shown |-> AfterInsertion(r.shown, AtMost(i, Len(r.stack) + 1)),
           tabs |-> r.tabs + 1,
           current |-> AfterInsertion(r.current, AtMost(i, r.tabs + 1))]
  BY <1>1, <1>6, PageTabInsertedIs
<1>9. Replaced(s, i, w, b) = IF b THEN PageTabSelected(u, i) ELSE u
  BY DEF Replaced
<1> HIDE DEF n, c, a, f, m, d, r, u
<1>10. r.stack = a /\ r.shown = m /\ r.tabs = n - 1 /\ r.current = m BY <1>5
<1>11. AtMost(i, Len(r.stack) + 1) = i /\ AtMost(i, r.tabs + 1) = i /\ r.tabs + 1 = n
  BY <1>1, <1>2, <1>10 DEF AtMost
<1>12. u = [stack |-> f, shown |-> d, tabs |-> n, current |-> d]
  BY <1>8, <1>10, <1>11 DEF f, d
<1>13. CASE b
  <2>1. u.stack = f /\ u.tabs = n BY <1>12
  <2>2. i \in Nat /\ i <= u.tabs /\ i <= Len(u.stack) BY <1>1, <1>3, <2>1
  <2>3. PageTabSelected(u, i) = [stack |-> u.stack, shown |-> i, tabs |-> u.tabs, current |-> i]
    BY <1>7, <2>2, PageTabSelectedIs
  <2>4. i = c BY <1>13 DEF c
  <2> QED BY <1>9, <1>13, <2>1, <2>3, <2>4 DEF n, c, f, a
<1>14. CASE ~b
  <2>1. d = c BY <1>4, <1>14 DEF c
  <2> QED BY <1>9, <1>12, <1>14, <2>1 DEF n, c, f, a
<1> QED BY <1>13, <1>14

LEMMA CellsReplaced ==
  ASSUME NEW st \in Seq(Widget), NEW ps \in Seq(Tab), Distinct(ps),
         NEW pg, NEW pg2, Cells(st, ps, pg), NEW i \in 1..Len(ps), NEW w \in Widget,
         w.tab = ps[i], Fits(pg2[ps[i]], w.kind),
         \A u \in Tab \ {ps[i]} : pg2[u] = pg[u]
  PROVE  Cells(InsertAt(RemoveAt(st, i), i, w), ps, pg2)
<1> DEFINE f == InsertAt(RemoveAt(st, i), i, w)
<1>1. Len(st) = Len(ps) /\ i \in 1..Len(st) BY DEF Cells
<1>2. Len(f) = Len(st) /\ \A j \in 1..Len(st) : f[j] = IF j = i THEN w ELSE st[j]
  BY <1>1, Replacement
<1> HIDE DEF f
<1>3. ASSUME NEW j \in 1..Len(ps)
      PROVE  f[j].tab = ps[j] /\ Fits(pg2[ps[j]], f[j].kind)
  <2>1. CASE j = i BY <1>1, <1>2, <2>1
  <2>2. CASE j # i
    <3>1. f[j] = st[j] BY <1>1, <1>2, <2>2
    <3>2. ps[j] # ps[i] BY <2>2 DEF Distinct
    <3>3. ps[j] \in Tab BY ElementOfSeq
    <3>4. pg2[ps[j]] = pg[ps[j]] BY <3>2, <3>3
    <3> QED BY <3>1, <3>4 DEF Cells
  <2> QED BY <2>1, <2>2
<1> QED BY <1>1, <1>2, <1>3 DEF Cells, f

LEMMA ReplacedGood ==
  ASSUME NEW s, StripOK(s), NEW ps \in Seq(Tab), Distinct(ps), NEW pg, NEW pg2,
         Good(s, ps, pg), NEW i \in 1..Len(ps), NEW w \in Widget, NEW b \in BOOLEAN,
         b <=> (i = s.current),
         w.tab = ps[i], Fits(pg2[ps[i]], w.kind), b => ~pg2[ps[i]].suspended,
         \A u \in Tab \ {ps[i]} : pg2[u] = pg[u]
  PROVE  /\ Good(Replaced(s, i, w, b), ps, pg2)
         /\ Replaced(s, i, w, b).current = s.current
         /\ Replaced(s, i, w, b).shown = s.shown
<1>1. /\ Cells(s.stack, ps, pg) /\ s.tabs = Len(ps) /\ s.current \in 1..Len(ps)
      /\ s.shown = s.current /\ s.stack \in Seq(Widget) /\ Len(s.stack) = s.tabs
      /\ s.current \in 1..s.tabs /\ i \in 1..s.tabs
  BY DEF Good, Cells, StripOK
<1> DEFINE f == InsertAt(RemoveAt(s.stack, i), i, w)
           r == Replaced(s, i, w, b)
<1>2. Cells(f, ps, pg2) BY <1>1, CellsReplaced
<1>3. r = [stack |-> f, shown |-> s.current, tabs |-> s.tabs, current |-> s.current]
  BY <1>1, ReplacedIs
<1> HIDE DEF f, r
<1>4. r.stack = f /\ r.shown = s.current /\ r.tabs = s.tabs /\ r.current = s.current
  BY <1>3
<1>5. ~pg2[ps[s.current]].suspended
  <2>1. CASE b BY <2>1
  <2>2. CASE ~b
    <3>1. ps[s.current] \in Tab /\ ps[s.current] # ps[i]
      BY <1>1, <2>2, ElementOfSeq DEF Distinct
    <3> QED BY <3>1 DEF Good
  <2> QED BY <2>1, <2>2
<1>6. Good(r, ps, pg2) BY <1>1, <1>2, <1>4, <1>5 DEF Good
<1> QED BY <1>1, <1>4, <1>6 DEF r

(* delete of a widget m_stack does not hold.                                *)
LEMMA DeletedNothing ==
  ASSUME NEW s, NEW w, \A j \in DOMAIN s.stack : s.stack[j].tab # w.tab
  PROVE  Deleted(s, w) = s
BY DEF Deleted

LEMMA CellsRemoved ==
  ASSUME NEW st \in Seq(Widget), NEW ps \in Seq(Tab), Distinct(ps), NEW pg,
         Cells(st, ps, pg), NEW i \in 1..Len(ps)
  PROVE  /\ Cells(RemoveAt(st, i), RemoveAt(ps, i), pg)
         /\ Distinct(RemoveAt(ps, i))
         /\ \A j \in DOMAIN RemoveAt(st, i) : RemoveAt(st, i)[j].tab # ps[i]
         /\ \A j \in DOMAIN RemoveAt(ps, i) : RemoveAt(ps, i)[j] # ps[i]
<1> DEFINE n == Len(ps)
           rt == RemoveAt(st, i)
           rp == RemoveAt(ps, i)
           k(j) == IF j < i THEN j ELSE j + 1
<1>1. n \in Nat /\ Len(st) = n /\ i \in 1..Len(st) /\ i \in Int BY LenProperties DEF Cells
<1>2. rt \in Seq(Widget) /\ Len(rt) = n - 1 /\ \A j \in 1..(n - 1) : rt[j] = st[k(j)]
  BY <1>1, Removal
<1>3. rp \in Seq(Tab) /\ Len(rp) = n - 1 /\ \A j \in 1..(n - 1) : rp[j] = ps[k(j)]
  BY <1>1, Removal
<1>4. DOMAIN rt = 1..(n - 1) /\ DOMAIN rp = 1..(n - 1) BY <1>2, <1>3, LenProperties
<1>5. \A j \in 1..(n - 1) : k(j) \in 1..n /\ k(j) # i BY <1>1
<1>6. \A j, l \in 1..(n - 1) : k(j) = k(l) => j = l BY <1>1
<1>7. \A j \in 1..n : st[j].tab = ps[j] /\ Fits(pg[ps[j]], st[j].kind) BY DEF Cells
<1>8. \A j \in 1..n : j # i => ps[j] # ps[i] BY DEF Distinct
<1>9. \A j, l \in 1..n : ps[j] = ps[l] => j = l BY DEF Distinct
<1> HIDE DEF n, rt, rp, k
<1>10. Cells(rt, rp, pg) BY <1>2, <1>3, <1>5, <1>7 DEF Cells
<1>11. Distinct(rp) BY <1>3, <1>5, <1>6, <1>9 DEF Distinct
<1>12. \A j \in DOMAIN rt : rt[j].tab # ps[i] BY <1>2, <1>4, <1>5, <1>7, <1>8
<1>13. \A j \in DOMAIN rp : rp[j] # ps[i] BY <1>3, <1>4, <1>5, <1>8
<1> QED BY <1>10, <1>11, <1>12, <1>13 DEF rt, rp

(* A tombstone gives way like any other cell.                               *)
LEMMA ResumedStripIs ==
  ASSUME NEW s, StripOK(s), NEW ps \in Seq(Tab), Distinct(ps), NEW pg,
         Cells(s.stack, ps, pg), NEW i \in 1..Len(ps)
  PROVE  ResumedStrip(s, ps[i], i) = Replaced(s, i, View(ps[i]), TRUE)
<1> DEFINE r == PageTabRemoved(s, i)
           w == Tombstone(ps[i])
<1>1. s.stack \in Seq(Widget) /\ i \in 1..Len(s.stack) BY DEF StripOK, Cells
<1>2. r = [stack |-> RemoveAt(s.stack, i),
           shown |-> AfterRemoval(s.shown, i, Len(s.stack)),
           tabs |-> s.tabs - 1, current |-> AfterRemoval(s.current, i, s.tabs)]
  BY <1>1, PageTabRemovedIs
<1> HIDE DEF r
<1>3. r.stack = RemoveAt(s.stack, i) BY <1>2
<1>4. \A j \in DOMAIN r.stack : r.stack[j].tab # ps[i] BY <1>1, <1>3, CellsRemoved
<1>5. w.tab = ps[i] BY DEF Tombstone
<1> HIDE DEF w
<1>6. Deleted(r, w) = r BY <1>4, <1>5, DeletedNothing
<1> QED BY <1>6 DEF ResumedStrip, Replaced, r, w

(* The currentChanged handler: whatever it finds at the index, the tab is   *)
(* then shown and awake.                                                    *)
LEMMA ActivatedGood ==
  ASSUME NEW s, StripOK(s), NEW ps \in Seq(Tab), Distinct(ps),
         page \in [Tab -> TabPage], Cells(s.stack, ps, page), s.tabs = Len(ps),
         NEW i \in 1..Len(ps), s.current = i
  PROVE  /\ Good(Activated(s, ps, i), ps, PagesActivated(ps, i))
         /\ Activated(s, ps, i).current = i
<1> DEFINE v == ShownAt(s, i)
           t == ps[i]
<1>1. i \in Nat /\ i <= Len(s.stack) /\ DOMAIN ps = 1..Len(ps) /\ t \in Tab
  BY LenProperties, ElementOfSeq DEF Cells
<1>2. StripOK(v) BY <1>1, ShownAtOK
<1>3. v.stack = s.stack /\ v.tabs = s.tabs /\ v.current = i /\ v.shown = i
  BY <1>1 DEF ShownAt, StripOK
<1>4. Activated(s, ps, i) = IF Asleep(ps, i) THEN ResumedStrip(v, t, i) ELSE v
  BY DEF Activated
<1> HIDE DEF v
<1>5. CASE Asleep(ps, i)
  <2> DEFINE pg2 == [page EXCEPT ![t] = Resumed(@)]
             f == InsertAt(RemoveAt(v.stack, i), i, View(t))
             r == Replaced(v, i, View(t), TRUE)
  <2>1. PagesActivated(ps, i) = pg2 BY <1>5 DEF PagesActivated
  <2>2. ResumedStrip(v, t, i) = r BY <1>2, <1>3, ResumedStripIs
  <2>3. pg2[t] = Resumed(page[t]) /\ \A u \in Tab \ {t} : pg2[u] = page[u]
    BY <1>1
  <2>4. \A p \in TabPage : ~Resumed(p).suspended /\ Resumed(p).cover = "none"
    BY DEF Resumed, TabPage
  <2>5. ~pg2[t].suspended /\ pg2[t].cover = "none" BY <1>1, <2>3, <2>4
  <2>6. View(t) \in Widget /\ View(t).tab = t /\ View(t).kind = "view"
    BY <1>1, Widgets DEF View
  <2> HIDE DEF pg2
  <2>7. Fits(pg2[t], View(t).kind) BY <2>5, <2>6 DEF Fits
  <2>8. v.stack \in Seq(Widget) BY <1>2 DEF StripOK
  <2>9. Cells(f, ps, pg2) BY <1>3, <2>3, <2>6, <2>7, <2>8, CellsReplaced
  <2>10. Len(v.stack) = v.tabs /\ v.current \in 1..v.tabs /\ v.shown = v.current
         /\ i \in 1..v.tabs
    BY <1>3 DEF Cells
  <2>11. r = [stack |-> f, shown |-> v.current, tabs |-> v.tabs, current |-> v.current]
    BY <1>2, <1>3, <2>6, <2>10, ReplacedIs
  <2> HIDE DEF r, f
  <2>12. r.stack = f /\ r.shown = i /\ r.tabs = Len(ps) /\ r.current = i
    BY <1>3, <2>11
  <2>13. Good(r, ps, pg2) BY <2>5, <2>9, <2>12 DEF Good
  <2> QED BY <1>4, <1>5, <2>1, <2>2, <2>12, <2>13
<1>6. CASE ~Asleep(ps, i)
  <2>1. PagesActivated(ps, i) = page BY <1>6 DEF PagesActivated
  <2>2. ~page[t].suspended BY <1>1, <1>6 DEF Asleep
  <2>3. Good(v, ps, page) BY <1>3, <2>2 DEF Good
  <2> QED BY <1>3, <1>4, <1>6, <2>1, <2>3
<1> QED BY <1>5, <1>6

(* The handler wakes the tab it shows, and no other.                        *)
LEMMA ActivatedWakes ==
  ASSUME page \in [Tab -> TabPage], NEW ps \in Seq(Tab), NEW i \in 1..Len(ps), NEW u \in Tab
  PROVE  PagesActivated(ps, i)[u].suspended <=> page[u].suspended /\ u # ps[i]
<1>1. DOMAIN ps = 1..Len(ps) /\ ps[i] \in Tab BY LenProperties, ElementOfSeq
<1>2. \A p \in TabPage : ~Resumed(p).suspended BY DEF Resumed, TabPage
<1>3. CASE Asleep(ps, i)
  <2>1. PagesActivated(ps, i) = [page EXCEPT ![ps[i]] = Resumed(@)]
    BY <1>3 DEF PagesActivated
  <2> QED BY <1>1, <1>2, <2>1
<1>4. CASE ~Asleep(ps, i)
  BY <1>1, <1>4 DEF PagesActivated, Asleep
<1> QED BY <1>3, <1>4

LEMMA GoodAgrees ==
  ASSUME NEW s, NEW ps \in Seq(Tab), NEW pg, NEW pg2, Good(s, ps, pg),
         \A j \in 1..Len(ps) : /\ pg2[ps[j]].suspended = pg[ps[j]].suspended
                               /\ pg2[ps[j]].cover = pg[ps[j]].cover
  PROVE  Good(s, ps, pg2)
<1>1. \A j \in 1..Len(ps) : Fits(pg[ps[j]], s.stack[j].kind) => Fits(pg2[ps[j]], s.stack[j].kind)
  BY DEF Fits
<1> QED BY <1>1 DEF Good, Cells

(* A page whose new tab is the last one.                                    *)
LEMMA TabAppendedIs ==
  ASSUME NEW s, StripOK(s), NEW ps \in Seq(Tab), NEW t \in Tab,
         Len(s.stack) = Len(ps), s.tabs = Len(ps)
  PROVE  TabAppended(s, ps, t) =
           [stack |-> InsertAt(s.stack, Len(ps) + 1, View(t)), shown |-> Len(ps) + 1,
            tabs |-> Len(ps) + 1, current |-> Len(ps) + 1]
<1> DEFINE k == Len(ps) + 1
           u == PageTabInserted(s, k, View(t))
           f == InsertAt(s.stack, k, View(t))
<1>1. /\ k \in Nat \ {0} /\ View(t) \in Widget /\ s.stack \in Seq(Widget)
      /\ Len(s.stack) + 1 = k /\ s.tabs + 1 = k /\ AtMost(k, k) = k
      /\ k \in 1..(Len(s.stack) + 1)
  BY LenProperties, Widgets DEF StripOK, AtMost
<1>2. Len(f) = k BY <1>1, Insertion
<1>3. StripOK(u) BY <1>1, PageTabInsertedOK
<1>4. u = [stack |-> InsertAt(s.stack, AtMost(k, Len(s.stack) + 1), View(t)),
           shown |-> AfterInsertion(s.shown, AtMost(k, Len(s.stack) + 1)),
           tabs |-> s.tabs + 1,
           current |-> AfterInsertion(s.current, AtMost(k, s.tabs + 1))]
  BY <1>1, PageTabInsertedIs
<1>5. TabAppended(s, ps, t) = PageTabSelected(u, k)
  BY <1>1 DEF TabAppended
<1> HIDE DEF u, k
<1>6. u.stack = f /\ u.tabs = k BY <1>1, <1>4
<1> HIDE DEF f
<1>7. k \in Nat /\ k <= u.tabs /\ k <= Len(u.stack) BY <1>1, <1>2, <1>6
<1>8. PageTabSelected(u, k) = [stack |-> u.stack, shown |-> k, tabs |-> u.tabs, current |-> k]
  BY <1>3, <1>7, PageTabSelectedIs
<1> QED BY <1>5, <1>6, <1>8 DEF f, k

LEMMA CellsAppended ==
  ASSUME NEW st \in Seq(Widget), NEW ps \in Seq(Tab), Distinct(ps), NEW pg, NEW pg2,
         Cells(st, ps, pg), NEW t \in Tab, \A j \in 1..Len(ps) : ps[j] # t,
         \A u \in Tab \ {t} : pg2[u] = pg[u], Fits(pg2[t], "view")
  PROVE  /\ Cells(InsertAt(st, Len(ps) + 1, View(t)), Append(ps, t), pg2)
         /\ Distinct(Append(ps, t))
<1> DEFINE n == Len(ps)
           f == InsertAt(st, n + 1, View(t))
           a == Append(ps, t)
<1>1. n \in Nat /\ Len(st) = n /\ View(t) \in Widget /\ n + 1 \in 1..(Len(st) + 1)
  BY LenProperties, Widgets DEF Cells
<1>2. /\ Len(f) = n + 1 /\ f[n + 1] = View(t) /\ \A j \in 1..n : f[j] = st[j]
  <2>1. Len(f) = Len(st) + 1 BY <1>1, InsertionSeq
  <2>2. \A j \in 1..(Len(st) + 1) :
          f[j] = IF j < n + 1 THEN st[j] ELSE IF j = n + 1 THEN View(t) ELSE st[j - 1]
    BY <1>1, InsertionAt
  <2> HIDE DEF f
  <2> QED BY <1>1, <2>1, <2>2
<1>3. a \in Seq(Tab) /\ Len(a) = n + 1 /\ a[n + 1] = t /\ \A j \in 1..n : a[j] = ps[j]
  BY AppendProperties
<1>4. \A j \in 1..n : /\ st[j].tab = ps[j] /\ Fits(pg[ps[j]], st[j].kind)
                      /\ ps[j] \in Tab /\ ps[j] # t
  BY ElementOfSeq DEF Cells
<1>5. View(t).tab = t /\ View(t).kind = "view" BY DEF View
<1>6. \A j, l \in 1..n : ps[j] = ps[l] => j = l BY DEF Distinct
<1> HIDE DEF n, f, a
<1>7. \A j \in 1..(n + 1) : j = n + 1 \/ j \in 1..n BY <1>1
<1>8. ASSUME NEW j \in 1..(n + 1)
      PROVE  f[j].tab = a[j] /\ Fits(pg2[a[j]], f[j].kind)
  <2>1. CASE j = n + 1 BY <1>2, <1>3, <1>5, <2>1
  <2>2. CASE j \in 1..n
    <3>1. pg2[ps[j]] = pg[ps[j]] BY <1>4, <2>2
    <3> QED BY <1>2, <1>3, <1>4, <2>2, <3>1
  <2> QED BY <1>7, <2>1, <2>2
<1>9. ASSUME NEW j \in 1..(n + 1), NEW l \in 1..(n + 1), a[j] = a[l]
      PROVE  j = l
  BY <1>3, <1>4, <1>6, <1>7, <1>9
<1> QED BY <1>1, <1>2, <1>3, <1>8, <1>9 DEF Cells, Distinct, n, f, a

(* A moved element.                                                         *)
FromIndex(k, i, j) ==
  IF k < j THEN IF k < i THEN k ELSE k + 1
  ELSE IF k = j THEN i
  ELSE IF k - 1 < i THEN k - 1 ELSE k

LEMMA Moved ==
  ASSUME NEW S, NEW s \in Seq(S), NEW i \in 1..Len(s), NEW j \in 1..Len(s)
  PROVE  LET m == InsertAt(RemoveAt(s, i), j, s[i])
         IN /\ m \in Seq(S) /\ Len(m) = Len(s)
            /\ \A k \in 1..Len(s) : m[k] = s[FromIndex(k, i, j)]
<1> DEFINE n == Len(s)
           e == s[i]
           q == RemoveAt(s, i)
           m == InsertAt(q, j, e)
<1>1. n \in Nat /\ e \in S /\ i \in Int /\ j \in Int /\ i \in 1..n /\ j \in 1..n
  BY LenProperties, ElementOfSeq
<1>2. q \in Seq(S) /\ Len(q) = n - 1
      /\ \A k \in 1..(n - 1) : q[k] = s[IF k < i THEN k ELSE k + 1]
  BY Removal
<1> HIDE DEF q, e, n
<1>3. j \in 1..(Len(q) + 1) /\ Len(q) + 1 = n BY <1>1, <1>2
<1>4. m \in Seq(S) /\ Len(m) = Len(q) + 1
      /\ \A k \in 1..(Len(q) + 1) :
           m[k] = IF k < j THEN q[k] ELSE IF k = j THEN e ELSE q[k - 1]
  <2>1. q \in Seq(S) /\ e \in S /\ j \in 1..(Len(q) + 1) BY <1>1, <1>2, <1>3
  <2>2. m \in Seq(S) /\ Len(m) = Len(q) + 1 BY <2>1, InsertionSeq, SMTT(30)
  <2>3. ASSUME NEW k \in 1..(Len(q) + 1)
        PROVE  InsertAt(q, j, e)[k] = IF k < j THEN q[k] ELSE IF k = j THEN e ELSE q[k - 1]
    BY <2>1, InsertionAt
  <2> HIDE DEF m
  <2>4. \A k \in 1..(Len(q) + 1) :
           m[k] = IF k < j THEN q[k] ELSE IF k = j THEN e ELSE q[k - 1]
    BY <2>3 DEF m
  <2> QED BY <2>2, <2>4
<1> HIDE DEF m
<1>5. ASSUME NEW k \in 1..n
      PROVE  m[k] = s[FromIndex(k, i, j)]
  <2>1. CASE k < j
    <3>1. k \in 1..(n - 1) BY <1>1, <2>1
    <3>2. m[k] = q[k] BY <1>3, <1>4, <2>1
    <3>3. q[k] = s[IF k < i THEN k ELSE k + 1] BY <1>2, <3>1
    <3> QED BY <2>1, <3>2, <3>3 DEF FromIndex
  <2>2. CASE k = j
    <3>1. m[k] = e BY <1>1, <1>3, <1>4, <2>2
    <3> QED BY <1>1, <2>2, <3>1 DEF FromIndex, e
  <2>3. CASE j < k
    <3>1. k - 1 \in 1..(n - 1) /\ ~(k < j) /\ k # j /\ (k - 1) + 1 = k BY <1>1, <2>3
    <3>2. m[k] = q[k - 1] BY <1>3, <1>4, <3>1
    <3>3. q[k - 1] = s[IF k - 1 < i THEN k - 1 ELSE k] BY <1>2, <3>1
    <3> QED BY <3>1, <3>2, <3>3 DEF FromIndex
  <2>4. k < j \/ k = j \/ j < k BY <1>1
  <2> QED BY <2>1, <2>2, <2>3, <2>4
<1> QED BY <1>3, <1>4, <1>5 DEF m, q, e, n

LEMMA MovedSeq ==
  ASSUME NEW S, NEW s \in Seq(S), NEW i \in 1..Len(s), NEW j \in 1..Len(s)
  PROVE  /\ InsertAt(RemoveAt(s, i), j, s[i]) \in Seq(S)
         /\ Len(InsertAt(RemoveAt(s, i), j, s[i])) = Len(s)
BY Moved, Z3

LEMMA MovedAt ==
  ASSUME NEW S, NEW s \in Seq(S), NEW i \in 1..Len(s), NEW j \in 1..Len(s),
         NEW k \in 1..Len(s)
  PROVE  InsertAt(RemoveAt(s, i), j, s[i])[k] = s[FromIndex(k, i, j)]
BY Moved, Z3

LEMMA FromIndexProperties ==
  ASSUME NEW n \in Nat, NEW i \in 1..n, NEW j \in 1..n
  PROVE  /\ \A k \in 1..n : FromIndex(k, i, j) \in 1..n
         /\ \A k, l \in 1..n : FromIndex(k, i, j) = FromIndex(l, i, j) => k = l
         /\ \A k \in 1..n : (k < i /\ k < j) \/ (i < k /\ j < k) => FromIndex(k, i, j) = k
BY DEF FromIndex

LEMMA CellsMoved ==
  ASSUME NEW st \in Seq(Widget), NEW ps \in Seq(Tab), Distinct(ps), NEW pg,
         Cells(st, ps, pg), NEW i \in 1..Len(ps), NEW j \in 1..Len(ps)
  PROVE  LET mt == InsertAt(RemoveAt(st, i), j, st[i])
             mp == InsertAt(RemoveAt(ps, i), j, ps[i])
         IN /\ Cells(mt, mp, pg) /\ Distinct(mp) /\ mp \in Seq(Tab) /\ mt \in Seq(Widget)
            /\ Len(mp) = Len(ps) /\ Len(mt) = Len(ps)
            /\ \A k \in 1..Len(ps) :
                 (k < i /\ k < j) \/ (i < k /\ j < k) => mp[k] = ps[k]
<1> DEFINE n == Len(ps)
           mt == InsertAt(RemoveAt(st, i), j, st[i])
           mp == InsertAt(RemoveAt(ps, i), j, ps[i])
           h(k) == FromIndex(k, i, j)
<1>1. n \in Nat /\ Len(st) = n /\ i \in 1..n /\ j \in 1..n BY LenProperties DEF Cells
<1>2. mt \in Seq(Widget) /\ Len(mt) = n /\ \A k \in 1..n : mt[k] = st[h(k)]
  <2>1. i \in 1..Len(st) /\ j \in 1..Len(st) /\ 1..n = 1..Len(st) BY <1>1
  <2>2. mt \in Seq(Widget) /\ Len(mt) = Len(st) BY <2>1, MovedSeq
  <2>3. \A k \in 1..Len(st) : mt[k] = st[h(k)] BY <2>1, MovedAt
  <2> HIDE DEF n, mt, h
  <2> QED BY <1>1, <2>1, <2>2, <2>3
<1>3. mp \in Seq(Tab) /\ Len(mp) = n /\ \A k \in 1..n : mp[k] = ps[h(k)]
  <2>1. mp \in Seq(Tab) /\ Len(mp) = Len(ps) BY MovedSeq
  <2>2. \A k \in 1..Len(ps) : mp[k] = ps[h(k)] BY MovedAt
  <2> QED BY <2>1, <2>2
<1>4. /\ \A k \in 1..n : h(k) \in 1..n
      /\ \A k, l \in 1..n : h(k) = h(l) => k = l
      /\ \A k \in 1..n : (k < i /\ k < j) \/ (i < k /\ j < k) => h(k) = k
  BY <1>1, FromIndexProperties
<1>5. \A k \in 1..n : st[k].tab = ps[k] /\ Fits(pg[ps[k]], st[k].kind) BY DEF Cells
<1>6. \A k, l \in 1..n : ps[k] = ps[l] => k = l BY DEF Distinct
<1> HIDE DEF n, mt, mp, h
<1>7. Cells(mt, mp, pg) BY <1>2, <1>3, <1>4, <1>5 DEF Cells
<1>8. Distinct(mp)
  <2>1. ASSUME NEW k \in 1..n, NEW l \in 1..n, mp[k] = mp[l]
        PROVE  k = l
    <3>1. h(k) \in 1..n /\ h(l) \in 1..n /\ ps[h(k)] = ps[h(l)] BY <1>3, <1>4, <2>1
    <3>2. h(k) = h(l) BY <1>6, <3>1
    <3> QED BY <1>4, <3>2
  <2> QED BY <1>3, <2>1 DEF Distinct
<1>9. \A k \in 1..n : (k < i /\ k < j) \/ (i < k /\ j < k) => mp[k] = ps[k]
  BY <1>3, <1>4
<1> QED BY <1>2, <1>3, <1>7, <1>8, <1>9 DEF n, mt, mp

LEMMA CellsStale ==
  ASSUME NEW st \in Seq(Widget), NEW ps \in Seq(Tab), NEW pg \in [Tab -> TabPage],
         Cells(st, ps, pg), NEW t \in Tab
  PROVE  Cells(Stale(st, t), ps, pg)
<1>1. Len(Stale(st, t)) = Len(st) /\ DOMAIN st = 1..Len(st) /\ Len(st) = Len(ps)
  BY StaleType, LenProperties DEF Cells
<1>2. ASSUME NEW j \in 1..Len(ps)
      PROVE  Stale(st, t)[j].tab = ps[j] /\ Fits(pg[ps[j]], Stale(st, t)[j].kind)
  <2>1. st[j] \in Widget /\ st[j].tab = ps[j] /\ Fits(pg[ps[j]], st[j].kind)
    BY <1>1, ElementOfSeq DEF Cells
  <2>2. CASE st[j] = View(t)
    <3>1. Stale(st, t)[j] = [st[j] EXCEPT !.kind = "stale"] BY <1>1, <2>2 DEF Stale
    <3>2. /\ [st[j] EXCEPT !.kind = "stale"].tab = st[j].tab
          /\ [st[j] EXCEPT !.kind = "stale"].kind = "stale"
      BY <2>1 DEF Widget
    <3>3. st[j].kind = "view" BY <2>2 DEF View
    <3>4. pg[ps[j]].cover \in Cover BY ElementOfSeq DEF TabPage
    <3>5. Fits(pg[ps[j]], "view") => Fits(pg[ps[j]], "stale") BY <3>4 DEF Fits, Cover
    <3> QED BY <2>1, <3>1, <3>2, <3>3, <3>5
  <2>3. CASE st[j] # View(t)
    <3>1. Stale(st, t)[j] = st[j] BY <1>1, <2>3 DEF Stale
    <3> QED BY <2>1, <3>1
  <2> QED BY <2>2, <2>3
<1> QED BY <1>1, <1>2 DEF Cells

-----------------------------------------------------------------------------
(* One cell per tab, and an awake tab in front.                             *)

PagesInv ==
  /\ Distinct(pages)
  /\ \A t \in Tab : page[t].suspended => page[t].render = "none"

GoodInv == ~derailed => Good(strip, pages, page)

StripInv == TypeInv /\ PagesInv /\ GoodInv

LEMMA IndexOfUnique ==
  ASSUME StripInv, NEW t \in ToSet(pages)
  PROVE  IsCurrent(t) <=> (IndexOf(t) = strip.current)
<1>1. IndexOf(t) \in 1..Len(pages) /\ pages[IndexOf(t)] = t /\ DOMAIN pages = 1..Len(pages)
  BY IndexOfProperties, LenProperties DEF StripInv, TypeInv
<1> QED BY <1>1 DEF IsCurrent, StripInv, PagesInv, Distinct

LEMMA AwakeAfterActivation ==
  ASSUME StripInv, NEW ps \in Seq(Tab), NEW i \in Nat, NEW u \in Tab
  PROVE  PagesActivated(ps, i)[u].suspended => PagesActivated(ps, i)[u].render = "none"
<1>1. page \in [Tab -> TabPage] /\ (page[u].suspended => page[u].render = "none")
  BY DEF StripInv, TypeInv, PagesInv
<1>2. \A p \in TabPage : ~Resumed(p).suspended BY DEF Resumed, TabPage
<1> QED BY <1>1, <1>2 DEF PagesActivated

LEMMA NewPageAwake == ~NewPage.suspended /\ NewPage.cover = "none"
BY DEF NewPage

(* The tab that is selected next.                                           *)
Selects(i) == ~derailed => strip'.current = i

LEMMA AddTabGood ==
  ASSUME StripInv, AddTab
  PROVE  PagesInv' /\ GoodInv' /\ Selects(Len(pages) + 1)
<1> PICK t \in Tab \ ToSet(pages) :
      /\ page' = [page EXCEPT ![t] = NewPage]
      /\ strip' = TabAppended(strip, pages, t)
      /\ pages' = Append(pages, t) /\ derailed' = derailed
  BY DEF AddTab
<1>1. /\ pages \in Seq(Tab) /\ StripOK(strip) /\ page \in [Tab -> TabPage]
      /\ Distinct(pages) /\ strip.stack \in Seq(Widget)
  BY DEF StripInv, TypeInv, PagesInv, StripOK
<1>2. \A j \in 1..Len(pages) : pages[j] # t BY <1>1, LenProperties DEF ToSet
<1>3. /\ page'[t] = NewPage /\ \A u \in Tab \ {t} : page'[u] = page[u] BY <1>1
<1>4. Fits(page'[t], "view") BY <1>3, NewPageAwake DEF Fits
<1>5. Distinct(pages')
  <2>1. pages' \in Seq(Tab) /\ Len(pages') = Len(pages) + 1 /\ pages'[Len(pages) + 1] = t
        /\ \A j \in 1..Len(pages) : pages'[j] = pages[j]
    BY <1>1, AppendProperties
  <2>2. Len(pages) \in Nat BY <1>1, LenProperties
  <2>3. \A j \in 1..(Len(pages) + 1) : j = Len(pages) + 1 \/ j \in 1..Len(pages) BY <2>2
  <2> QED BY <1>1, <1>2, <2>1, <2>3 DEF Distinct
<1>6. PagesInv' BY <1>3, <1>5, NewPageAwake DEF PagesInv, StripInv
<1>7. ASSUME ~derailed PROVE Good(strip', pages', page') /\ strip'.current = Len(pages) + 1
  <2> DEFINE f == InsertAt(strip.stack, Len(pages) + 1, View(t))
  <2>1. Cells(strip.stack, pages, page) /\ strip.tabs = Len(pages)
        /\ Len(strip.stack) = Len(pages)
    BY <1>7 DEF StripInv, GoodInv, Good, Cells
  <2>2. strip' = [stack |-> f, shown |-> Len(pages) + 1,
                  tabs |-> Len(pages) + 1, current |-> Len(pages) + 1]
    BY <1>1, <2>1, TabAppendedIs
  <2>3. Cells(f, pages', page') BY <1>1, <1>2, <1>3, <1>4, <2>1, CellsAppended
  <2> HIDE DEF f
  <2>4. /\ strip'.stack = f /\ strip'.shown = Len(pages) + 1
        /\ strip'.tabs = Len(pages) + 1 /\ strip'.current = Len(pages) + 1
    BY <2>2
  <2>5. Len(pages') = Len(pages) + 1 /\ pages'[Len(pages) + 1] = t /\ Len(pages) \in Nat
    BY <1>1, AppendProperties, LenProperties
  <2>6. ~page'[t].suspended BY <1>3, NewPageAwake
  <2> QED BY <2>3, <2>4, <2>5, <2>6 DEF Good
<1> QED BY <1>6, <1>7 DEF GoodInv, Selects

LEMMA AfterRemovalInside ==
  ASSUME NEW n \in Nat, 1 < n, NEW c \in 1..n, NEW i \in 1..n
  PROVE  AfterRemoval(c, i, n) \in 1..(n - 1) /\ (c < i => AfterRemoval(c, i, n) = c)
BY DEF AfterRemoval

LEMMA CloseTabGood ==
  ASSUME StripInv, NEW i \in DOMAIN pages, CloseTab(i)
  PROVE  /\ PagesInv' /\ GoodInv'
         /\ Selects(AfterRemoval(strip.current, i, Len(pages)))
<1> DEFINE t         == pages[i]
           n         == Len(pages)
           rest      == RemoveAt(pages, i)
           s         == PageTabRemoved(strip, i)
           c         == s.current
           signalled == i <= strip.current /\ i <= Len(strip.stack)
           r         == IF signalled THEN Activated(s, rest, c) ELSE s
           pg        == IF signalled THEN PagesActivated(rest, c) ELSE page
           d         == IF page[t].suspended THEN Deleted(r, Tombstone(t))
                                             ELSE CoverDeleted(r, t)
<1>1. /\ pages \in Seq(Tab) /\ n \in Nat /\ i \in 1..n /\ t \in Tab /\ i \in Nat \ {0}
      /\ StripOK(strip) /\ page \in [Tab -> TabPage] /\ Distinct(pages)
      /\ 1 < n /\ strip.stack \in Seq(Widget)
  BY LenProperties, ElementOfSeq DEF StripInv, TypeInv, PagesInv, CloseTab, StripOK
<1>2. /\ strip' = d /\ pages' = rest /\ page' = [pg EXCEPT ![t] = NewPage]
      /\ derailed' = derailed
  BY DEF CloseTab, Closed
<1>3. rest \in Seq(Tab) /\ Len(rest) = n - 1
      /\ \A j \in 1..(n - 1) : rest[j] = pages[IF j < i THEN j ELSE j + 1]
  BY <1>1, Removal
<1>4. Distinct(rest) /\ \A j \in 1..(n - 1) : rest[j] # t
  <2> DEFINE k(j) == IF j < i THEN j ELSE j + 1
  <2>1. /\ \A j \in 1..(n - 1) : k(j) \in 1..n /\ k(j) # i
        /\ \A j, l \in 1..(n - 1) : k(j) = k(l) => j = l
    BY <1>1
  <2>2. \A j \in 1..(n - 1) : rest[j] = pages[k(j)] BY <1>3
  <2>3. \A j, l \in 1..n : pages[j] = pages[l] => j = l BY <1>1 DEF Distinct
  <2> HIDE DEF k, rest, n
  <2>4. Distinct(rest) BY <1>3, <2>1, <2>2, <2>3 DEF Distinct
  <2> QED BY <1>1, <2>1, <2>2, <2>3, <2>4
<1>5. StripOK(s) /\ c \in Nat BY <1>1, PageTabRemovedOK DEF StripOK
<1>6. pg \in [Tab -> TabPage] /\ \A u \in Tab : pg[u].suspended => pg[u].render = "none"
  <2>1. \A u \in Tab : page[u].suspended => page[u].render = "none" BY DEF StripInv, PagesInv
  <2> QED BY <1>1, <1>3, <1>5, <2>1, PagesActivatedType, AwakeAfterActivation
<1> HIDE DEF t, rest, s, pg, n
<1>7. PagesInv'
  <2>1. \A u \in Tab : page'[u].suspended => page'[u].render = "none"
    BY <1>2, <1>6, NewPageAwake
  <2> QED BY <1>2, <1>4, <2>1 DEF PagesInv
<1>8. ASSUME ~derailed
      PROVE  /\ Good(strip', pages', page')
             /\ strip'.current = AfterRemoval(strip.current, i, n)
  <2>1. /\ Good(strip, pages, page) /\ Cells(strip.stack, pages, page)
        /\ strip.tabs = n /\ strip.current \in 1..n /\ strip.shown = strip.current
        /\ Len(strip.stack) = n
    BY <1>8 DEF StripInv, GoodInv, Good, Cells, n
  <2>2. Cells(RemoveAt(strip.stack, i), rest, page)
    BY <1>1, <2>1, CellsRemoved DEF rest, n
  <2>3. s = [stack |-> RemoveAt(strip.stack, i),
             shown |-> AfterRemoval(strip.shown, i, Len(strip.stack)),
             tabs |-> strip.tabs - 1,
             current |-> AfterRemoval(strip.current, i, strip.tabs)]
    BY <1>1, <2>1, PageTabRemovedIs DEF s
  <2>4. /\ s.stack = RemoveAt(strip.stack, i) /\ s.tabs = n - 1 /\ s.shown = c
        /\ c = AfterRemoval(strip.current, i, n)
    BY <2>1, <2>3
  <2>5. c \in 1..(n - 1) /\ (strip.current < i => c = strip.current)
    <3> DEFINE k == strip.current
    <3>1. k \in 1..n /\ n \in Nat /\ 1 < n /\ i \in 1..n BY <1>1, <2>1
    <3>2. c = AfterRemoval(k, i, n) BY <2>4
    <3> HIDE DEF k, c
    <3>3. AfterRemoval(k, i, n) \in 1..(n - 1) /\ (k < i => AfterRemoval(k, i, n) = k)
      BY <3>1, AfterRemovalInside
    <3> QED BY <3>2, <3>3 DEF k
  <2>6. Good(r, rest, pg) /\ r.current = c
    <3>1. CASE signalled
      <4>1. /\ Good(Activated(s, rest, c), rest, PagesActivated(rest, c))
            /\ Activated(s, rest, c).current = c
        BY <1>1, <1>3, <1>4, <1>5, <2>2, <2>4, <2>5, ActivatedGood
      <4> QED BY <3>1, <4>1 DEF pg
    <3>2. CASE ~signalled
      <4>1. strip.current < i /\ c = strip.current BY <1>1, <2>1, <2>5, <3>2
      <4>2. rest[c] = pages[strip.current] BY <1>3, <2>5, <4>1
      <4>3. ~page[rest[c]].suspended BY <2>1, <4>2 DEF Good
      <4>4. Good(s, rest, page) BY <1>3, <2>2, <2>4, <2>5, <4>3 DEF Good
      <4> QED BY <3>2, <4>4 DEF pg
    <3> QED BY <3>1, <3>2
  <2> HIDE DEF r
  <2>7. d = r
    <3>1. StripOK(r)
      <4>1. StripOK(Activated(s, rest, c)) BY <1>3, <1>5, ActivatedOK
      <4> QED BY <1>5, <4>1 DEF r
    <3>2. DOMAIN r.stack = 1..(n - 1)
      BY <1>3, <2>6, <3>1, LenProperties DEF Good, Cells, StripOK
    <3>3. \A j \in DOMAIN r.stack : r.stack[j].tab # t
      BY <1>3, <1>4, <2>6, <3>2 DEF Good, Cells
    <3>4. Tombstone(t).tab = t /\ \A k : [tab |-> t, kind |-> k].tab = t
      BY DEF Tombstone
    <3>5. Deleted(r, Tombstone(t)) = r /\ \A k : Deleted(r, [tab |-> t, kind |-> k]) = r
      BY <3>3, <3>4, DeletedNothing
    <3> QED BY <3>5 DEF CoverDeleted
  <2>8. \A j \in 1..Len(rest) : page'[rest[j]] = pg[rest[j]]
    <3>1. \A j \in 1..Len(rest) : rest[j] \in Tab /\ rest[j] # t
      BY <1>3, <1>4, ElementOfSeq
    <3> QED BY <1>2, <1>6, <3>1
  <2>9. Good(r, rest, page') BY <1>3, <2>6, <2>8, GoodAgrees
  <2> QED BY <1>2, <2>4, <2>6, <2>7, <2>9
<1> QED BY <1>2, <1>7, <1>8 DEF GoodInv, Selects, n

LEMMA CloseLastTabGood == ASSUME StripInv, CloseLastTab PROVE PagesInv' /\ GoodInv'
<1> PICK t \in Tab :
      /\ page' = [page EXCEPT ![t] = NewPage]
      /\ strip' = TabAppended(PageTabRemoved(strip, 1), <<>>, t)
      /\ pages' = <<t>> /\ derailed' = derailed /\ Len(pages) = 1
  BY DEF CloseLastTab
<1> DEFINE s == PageTabRemoved(strip, 1)
           f == InsertAt(s.stack, Len(<<>>) + 1, View(t))
<1>1. /\ StripOK(strip) /\ page \in [Tab -> TabPage] /\ strip.stack \in Seq(Widget)
      /\ \A u \in Tab : page[u].suspended => page[u].render = "none"
  BY DEF StripInv, TypeInv, PagesInv, StripOK
<1>2. page'[t] = NewPage /\ \A u \in Tab \ {t} : page'[u] = page[u] BY <1>1
<1>3. pages' \in Seq(Tab) /\ Len(pages') = 1 /\ pages'[1] = t OBVIOUS
<1>4. PagesInv' BY <1>1, <1>2, <1>3, NewPageAwake DEF PagesInv, Distinct
<1>5. ASSUME ~derailed PROVE Good(strip', pages', page')
  <2>1. strip.tabs = 1 /\ Len(strip.stack) = 1
    BY <1>5 DEF StripInv, GoodInv, Good, Cells
  <2>0. 1 \in 1..Len(strip.stack) BY <2>1
  <2>2. s = [stack |-> RemoveAt(strip.stack, 1),
             shown |-> AfterRemoval(strip.shown, 1, Len(strip.stack)),
             tabs |-> strip.tabs - 1,
             current |-> AfterRemoval(strip.current, 1, strip.tabs)]
    BY <1>1, <2>0, PageTabRemovedIs
  <2>3. StripOK(s) BY <1>1, PageTabRemovedOK
  <2>4. RemoveAt(strip.stack, 1) \in Seq(Widget) /\ Len(RemoveAt(strip.stack, 1)) = 0
    <3>1. /\ RemoveAt(strip.stack, 1) \in Seq(Widget)
          /\ Len(RemoveAt(strip.stack, 1)) = Len(strip.stack) - 1
      BY <1>1, <2>0, Removal
    <3> QED BY <2>1, <3>1
  <2>5. /\ s.stack \in Seq(Widget) /\ Len(s.stack) = 0 /\ s.tabs = 0
        /\ Len(<<>>) = 0 /\ <<>> \in Seq(Tab)
    BY <2>1, <2>2, <2>4
  <2> HIDE DEF s
  <2>6. strip' = [stack |-> f, shown |-> Len(<<>>) + 1, tabs |-> Len(<<>>) + 1,
                  current |-> Len(<<>>) + 1]
    BY <2>3, <2>5, TabAppendedIs DEF s
  <2>7. View(t) \in Widget /\ View(t).tab = t /\ View(t).kind = "view"
    BY Widgets DEF View
  <2>8. Len(f) = 1 /\ f[1] = View(t)
    <3>1. 1 \in 1..(Len(s.stack) + 1) /\ Len(<<>>) + 1 = 1 BY <2>5
    <3>2. Len(InsertAt(s.stack, 1, View(t))) = Len(s.stack) + 1
      BY <2>5, <2>7, <3>1, InsertionSeq
    <3>3. InsertAt(s.stack, 1, View(t))[1] =
            IF 1 < 1 THEN s.stack[1] ELSE IF 1 = 1 THEN View(t) ELSE s.stack[1 - 1]
      BY <2>5, <2>7, <3>1, InsertionAt
    <3> QED BY <2>5, <3>2, <3>3
  <2> HIDE DEF f
  <2>9. strip'.stack = f /\ strip'.shown = 1 /\ strip'.tabs = 1 /\ strip'.current = 1
    BY <2>5, <2>6
  <2>10. Fits(page'[t], "view") /\ ~page'[t].suspended
    BY <1>2, NewPageAwake DEF Fits
  <2>11. Cells(f, pages', page') BY <1>3, <2>7, <2>8, <2>10 DEF Cells
  <2> QED BY <1>3, <2>9, <2>10, <2>11 DEF Good
<1> QED BY <1>4, <1>5 DEF GoodInv

LEMMA SelectTabGood ==
  ASSUME StripInv, NEW i \in 1..strip.tabs, SelectTab(i)
  PROVE  PagesInv' /\ GoodInv' /\ Selects(i)
<1> DEFINE r == [strip EXCEPT !.current = i]
<1>1. /\ pages \in Seq(Tab) /\ page \in [Tab -> TabPage] /\ Distinct(pages)
      /\ strip.tabs \in Nat /\ i \in Nat /\ i <= strip.tabs /\ StripOK(strip)
  BY DEF StripInv, TypeInv, StripOK, PagesInv
<1>2. StripOK(r) /\ r.stack = strip.stack /\ r.tabs = strip.tabs /\ r.current = i
  BY <1>1 DEF StripOK
<1>3. /\ strip' = Activated(r, pages, i) /\ page' = PagesActivated(pages, i)
      /\ pages' = pages /\ derailed' = derailed
  BY DEF SelectTab
<1> HIDE DEF r
<1>4. PagesInv' BY <1>1, <1>3, AwakeAfterActivation DEF PagesInv
<1>5. ASSUME ~derailed PROVE Good(strip', pages', page') /\ strip'.current = i
  <2>1. Cells(strip.stack, pages, page) /\ strip.tabs = Len(pages)
    BY <1>5 DEF StripInv, GoodInv, Good
  <2> QED BY <1>1, <1>2, <1>3, <2>1, ActivatedGood
<1> QED BY <1>3, <1>4, <1>5 DEF GoodInv, Selects

LEMMA CurrentMovedInside ==
  ASSUME NEW n \in Nat, NEW c \in 1..n, NEW i \in 1..n, NEW j \in 1..n, i # j
  PROVE  CurrentMoved(c, i, j) \in 1..n
BY DEF CurrentMoved

LEMMA CurrentUnmoved ==
  ASSUME NEW n \in Nat, NEW c \in 1..n, NEW i \in 1..n, NEW j \in 1..n, i # j,
         CurrentMoved(c, i, j) = c
  PROVE  /\ (c < i /\ c < j) \/ (i < c /\ j < c)
         /\ AfterInsertion(AfterRemoval(c, i, n), j) = c
BY DEF CurrentMoved, AfterInsertion, AfterRemoval

LEMMA MoveTabGood ==
  ASSUME StripInv, NEW i \in DOMAIN pages, NEW j \in DOMAIN pages, MoveTab(i, j)
  PROVE  PagesInv' /\ GoodInv' /\ Selects(CurrentMoved(strip.current, i, j))
<1> DEFINE n   == Len(pages)
           ps  == InsertAt(RemoveAt(pages, i), j, pages[i])
           cur == CurrentMoved(strip.current, i, j)
           q   == StackRemoved(strip, i)
           m   == StackInserted(q, j, strip.stack[i])
           s   == IF i > Len(strip.stack) THEN strip ELSE m
           r   == [s EXCEPT !.current = cur]
<1>1. /\ pages \in Seq(Tab) /\ n \in Nat /\ i \in 1..n /\ j \in 1..n /\ i # j
      /\ StripOK(strip) /\ page \in [Tab -> TabPage] /\ Distinct(pages)
      /\ strip.stack \in Seq(Widget) /\ n <= strip.tabs
  BY LenProperties DEF StripInv, TypeInv, PagesInv, MoveTab, StripOK
<1>2. /\ pages' = ps /\ derailed' = derailed
      /\ strip' = IF cur # strip.current THEN Activated(r, ps, cur) ELSE r
      /\ page' = IF cur # strip.current THEN PagesActivated(ps, cur) ELSE page
  BY DEF MoveTab, CurrentMoved
<1>3. ps \in Seq(Tab) /\ Len(ps) = n BY <1>1, MovedSeq
<1>4. Distinct(ps)
  <2>1. \A k \in 1..n : ps[k] = pages[FromIndex(k, i, j)] BY <1>1, MovedAt
  <2>2. /\ \A k \in 1..n : FromIndex(k, i, j) \in 1..n
        /\ \A k, l \in 1..n : FromIndex(k, i, j) = FromIndex(l, i, j) => k = l
    BY <1>1, FromIndexProperties
  <2>3. \A k, l \in 1..n : pages[k] = pages[l] => k = l BY <1>1 DEF Distinct
  <2> HIDE DEF ps, n
  <2> QED BY <1>3, <2>1, <2>2, <2>3 DEF Distinct
<1>5. cur \in Nat
  <2>1. strip.tabs \in Nat /\ strip.current \in Nat /\ strip.current <= strip.tabs
    BY <1>1 DEF StripOK
  <2>2. strip.current \in 0..strip.tabs /\ i \in 1..strip.tabs /\ j \in 1..strip.tabs
    BY <1>1, <2>1
  <2>3. cur \in 0..strip.tabs BY <2>1, <2>2, CurrentMovedBounds
  <2> HIDE DEF cur
  <2> QED BY <2>1, <2>3
<1> HIDE DEF ps, cur, s
<1>6. PagesInv'
  <2>1. \A u \in Tab : page'[u].suspended => page'[u].render = "none"
    BY <1>2, <1>3, <1>5, AwakeAfterActivation DEF StripInv, PagesInv
  <2> QED BY <1>2, <1>4, <2>1 DEF PagesInv
<1>7. ASSUME ~derailed PROVE Good(strip', pages', page') /\ strip'.current = cur
  <2> DEFINE c == strip.current
             f == InsertAt(RemoveAt(strip.stack, i), j, strip.stack[i])
             b == AfterInsertion(AfterRemoval(c, i, n), j)
  <2>1. /\ Cells(strip.stack, pages, page) /\ strip.tabs = n /\ c \in 1..n
        /\ strip.shown = c /\ Len(strip.stack) = n /\ ~page[pages[c]].suspended
        /\ i \in 1..Len(strip.stack) /\ j \in 1..Len(strip.stack)
    BY <1>1, <1>7 DEF StripInv, GoodInv, Good, Cells
  <2>2. q = [stack |-> RemoveAt(strip.stack, i), shown |-> AfterRemoval(c, i, n),
             tabs |-> n, current |-> c]
    BY <1>1, <2>1, StackRemovedIs
  <2>3. StripOK(q) BY <1>1, <2>1, StackRemovedOK
  <2>4. q.stack = RemoveAt(strip.stack, i) /\ q.shown = AfterRemoval(c, i, n)
        /\ q.tabs = n /\ q.current = c
    BY <2>2
  <2>5. Len(q.stack) = n - 1
    <3>1. Len(RemoveAt(strip.stack, i)) = Len(strip.stack) - 1
      BY <1>1, <2>1, Removal
    <3> QED BY <2>1, <2>4, <3>1
  <2>6. strip.stack[i] \in Widget BY <1>1, <2>1, ElementOfSeq
  <2>7. j \in Nat \ {0} /\ AtMost(j, Len(q.stack) + 1) = j BY <1>1, <2>5 DEF AtMost
  <2>8. m = [stack |-> InsertAt(q.stack, AtMost(j, Len(q.stack) + 1), strip.stack[i]),
             shown |-> AfterInsertion(q.shown, AtMost(j, Len(q.stack) + 1)),
             tabs |-> q.tabs, current |-> q.current]
    BY <2>3, <2>6, <2>7, StackInsertedIs
  <2>9. StripOK(m) BY <1>1, <2>1, <2>7, StackMovedOK
  <2> HIDE DEF q, m, f, b
  <2>10. m.stack = f /\ m.shown = b /\ m.tabs = n
    BY <2>4, <2>7, <2>8 DEF f, b
  <2>11. s = m BY <1>1, <2>1 DEF s
  <2>12. /\ cur \in 1..n
         /\ cur = c => ((c < i /\ c < j) \/ (i < c /\ j < c)) /\ b = c
    <3>1. cur \in 1..n BY <1>1, <2>1, CurrentMovedInside DEF cur
    <3>2. ASSUME cur = c
          PROVE  ((c < i /\ c < j) \/ (i < c /\ j < c)) /\ b = c
      BY <1>1, <2>1, <3>2, CurrentUnmoved DEF cur, b
    <3> QED BY <3>1, <3>2
  <2>13. StripOK(r) /\ r.stack = f /\ r.shown = b /\ r.tabs = n /\ r.current = cur
    <3>1. StripOK(s) /\ s.stack = f /\ s.shown = b /\ s.tabs = n
      BY <2>9, <2>10, <2>11
    <3> HIDE DEF n, c
    <3>2. cur <= s.tabs /\ cur \in Nat BY <1>1, <1>5, <2>12, <3>1
    <3>3. StripOK(r) BY <3>1, <3>2 DEF StripOK
    <3>4. r.stack = s.stack /\ r.shown = s.shown /\ r.tabs = s.tabs /\ r.current = cur
      BY <3>1 DEF StripOK
    <3> QED BY <3>1, <3>3, <3>4
  <2>14. Cells(f, ps, page) BY <1>1, <2>1, CellsMoved DEF f, ps
  <2> HIDE DEF r
  <2>15. CASE cur # c
    <3>1. /\ Good(Activated(r, ps, cur), ps, PagesActivated(ps, cur))
          /\ Activated(r, ps, cur).current = cur
      BY <1>1, <1>3, <1>4, <2>12, <2>13, <2>14, ActivatedGood
    <3> QED BY <1>2, <2>15, <3>1
  <2>16. CASE cur = c
    <3>1. ps[c] = pages[FromIndex(c, i, j)] BY <1>1, <2>1, MovedAt DEF ps
    <3>2. FromIndex(c, i, j) = c BY <1>1, <2>1, <2>12, <2>16, FromIndexProperties
    <3>3. ~page[ps[c]].suspended BY <2>1, <3>1, <3>2
    <3>4. Good(r, ps, page) BY <1>3, <2>12, <2>13, <2>14, <2>16, <3>3 DEF Good
    <3> QED BY <1>2, <2>13, <2>16, <3>4
  <2> QED BY <2>15, <2>16
<1> QED BY <1>2, <1>6, <1>7 DEF GoodInv, Selects, cur

(* A selected tab is awake, so the tombstone branch of navigate() is only   *)
(* taken once the strip is derailed.                                        *)
LEMMA NavigateDeadGood ==
  ASSUME StripInv, NavigateDead
  PROVE  PagesInv' /\ GoodInv' /\ Selects(strip.current)
<1> PICK t \in ToSet(pages) :
      /\ IsCurrent(t)
      /\ IF page[t].suspended
         THEN page' = [page EXCEPT ![t] = Resumed(@)]
         ELSE /\ page' = [page EXCEPT ![t].render = "running"]
              /\ strip' = [strip EXCEPT !.stack = Stale(@, t)]
      /\ UNCHANGED <<pages, derailed>>
  BY DEF NavigateDead, Stale
<1>1. /\ pages \in Seq(Tab) /\ StripOK(strip) /\ page \in [Tab -> TabPage] /\ t \in Tab
      /\ page[t] \in TabPage /\ strip.stack \in Seq(Widget)
      /\ Distinct(pages) /\ \A u \in Tab : page[u].suspended => page[u].render = "none"
  BY OpenTabs DEF StripInv, TypeInv, PagesInv, StripOK
<1>2. \A p \in TabPage : /\ ~Resumed(p).suspended
                         /\ [p EXCEPT !.render = "running"].suspended = p.suspended
                         /\ [p EXCEPT !.render = "running"].cover = p.cover
  BY DEF Resumed, TabPage
<1>3. PagesInv'
  <2>1. ASSUME NEW u \in Tab PROVE page'[u].suspended => page'[u].render = "none"
    <3>1. CASE u = t
      <4>1. CASE page[t].suspended
        <5>1. page'[t] = Resumed(page[t]) BY <1>1, <4>1
        <5> QED BY <1>1, <1>2, <3>1, <5>1
      <4>2. CASE ~page[t].suspended
        <5>1. page'[t] = [page[t] EXCEPT !.render = "running"] BY <1>1, <4>2
        <5> QED BY <1>1, <1>2, <3>1, <4>2, <5>1
      <4> QED BY <4>1, <4>2
    <3>2. CASE u # t
      <4>1. page'[u] = page[u] BY <1>1, <3>2
      <4> QED BY <1>1, <4>1
    <3> QED BY <3>1, <3>2
  <2> QED BY <1>1, <2>1 DEF PagesInv
<1>4. ASSUME ~derailed PROVE Good(strip', pages', page') /\ strip'.current = strip.current
  <2> DEFINE f == Stale(strip.stack, t)
  <2>1. Good(strip, pages, page) BY <1>4 DEF StripInv, GoodInv
  <2>2. ~page[t].suspended BY <2>1 DEF Good, IsCurrent
  <2>3. page' = [page EXCEPT ![t].render = "running"] /\ strip' = [strip EXCEPT !.stack = f]
    BY <2>2
  <2>4. Cells(f, pages, page) BY <1>1, <2>1, CellsStale DEF Good
  <2>5. strip'.stack = f /\ strip'.tabs = strip.tabs /\ strip'.current = strip.current
        /\ strip'.shown = strip.shown
    BY <1>1, <2>3 DEF StripOK
  <2> HIDE DEF f
  <2>6. Good(strip', pages, page) BY <2>1, <2>4, <2>5 DEF Good
  <2>7. \A u \in Tab : page'[u].suspended = page[u].suspended /\ page'[u].cover = page[u].cover
    BY <1>1, <1>2, <2>3
  <2>8. \A k \in 1..Len(pages) : /\ page'[pages[k]].suspended = page[pages[k]].suspended
                                 /\ page'[pages[k]].cover = page[pages[k]].cover
    BY <1>1, <2>7, ElementOfSeq
  <2>9. Good(strip', pages, page') BY <1>1, <2>6, <2>8, GoodAgrees
  <2> QED BY <2>5, <2>9
<1> QED BY <1>3, <1>4 DEF GoodInv, Selects

(* The page of t and its cell change together, and no other does.           *)
LEMMA OnePageKept ==
  ASSUME StripInv, NEW t \in Tab, NEW q,
         page' = [page EXCEPT ![t] = q], UNCHANGED pages,
         q.suspended => q.render = "none"
  PROVE  PagesInv' /\ page'[t] = q /\ \A u \in Tab \ {t} : page'[u] = page[u]
<1>1. page \in [Tab -> TabPage] /\ Distinct(pages)
      /\ \A u \in Tab : page[u].suspended => page[u].render = "none"
  BY DEF StripInv, TypeInv, PagesInv
<1>2. page'[t] = q /\ \A u \in Tab \ {t} : page'[u] = page[u] BY <1>1
<1>3. \A u \in Tab : page'[u].suspended => page'[u].render = "none" BY <1>1, <1>2
<1> QED BY <1>1, <1>2, <1>3 DEF PagesInv

LEMMA CellReplaced ==
  ASSUME StripInv, ~derailed, NEW t \in ToSet(pages), NEW q,
         page' = [page EXCEPT ![t] = q], UNCHANGED pages,
         NEW w \in Widget, NEW b \in BOOLEAN, b <=> IsCurrent(t),
         w.tab = t, Fits(q, w.kind), b => ~q.suspended,
         q.suspended => q.render = "none",
         strip' = Replaced(strip, IndexOf(t), w, b)
  PROVE  /\ Good(strip', pages', page')
         /\ strip'.current = strip.current /\ strip'.shown = strip.shown
<1>1. /\ pages \in Seq(Tab) /\ StripOK(strip) /\ Distinct(pages)
      /\ Good(strip, pages, page)
  BY DEF StripInv, TypeInv, PagesInv, GoodInv
<1>2. /\ t \in Tab /\ IndexOf(t) \in 1..Len(pages) /\ pages[IndexOf(t)] = t
      /\ b <=> (IndexOf(t) = strip.current)
  BY <1>1, IndexOfProperties, IndexOfUnique
<1>3. page'[t] = q /\ \A u \in Tab \ {t} : page'[u] = page[u] BY <1>2, OnePageKept
<1> DEFINE i == IndexOf(t)
           r == Replaced(strip, i, w, b)
           pg2 == page'
<1>4. /\ w.tab = pages[i] /\ Fits(pg2[pages[i]], w.kind) /\ i \in 1..Len(pages)
      /\ b => ~pg2[pages[i]].suspended
      /\ \A u \in Tab \ {pages[i]} : pg2[u] = page[u]
      /\ b <=> (i = strip.current)
  BY <1>2, <1>3
<1> HIDE DEF i, pg2
<1>5. Good(r, pages, pg2) /\ r.current = strip.current /\ r.shown = strip.shown
  BY <1>1, <1>4, ReplacedGood
<1> QED BY <1>5 DEF i, pg2

LEMMA CellKept ==
  ASSUME StripInv, ~derailed, NEW t \in Tab, NEW q,
         page' = [page EXCEPT ![t] = q], UNCHANGED <<pages, strip>>,
         q.suspended = page[t].suspended, q.cover = page[t].cover,
         q.suspended => q.render = "none"
  PROVE  Good(strip', pages', page')
<1>1. pages \in Seq(Tab) /\ Good(strip, pages, page)
  BY DEF StripInv, TypeInv, GoodInv
<1>2. page'[t] = q /\ \A u \in Tab \ {t} : page'[u] = page[u] BY OnePageKept
<1>3. \A u \in Tab : page'[u].suspended = page[u].suspended /\ page'[u].cover = page[u].cover
  BY <1>2
<1>4. \A k \in 1..Len(pages) : /\ page'[pages[k]].suspended = page[pages[k]].suspended
                               /\ page'[pages[k]].cover = page[pages[k]].cover
  BY <1>1, <1>3, ElementOfSeq
<1>5. Good(strip, pages, page') BY <1>1, <1>4, GoodAgrees
<1> QED BY <1>5

LEMMA RetryGood ==
  ASSUME StripInv, Retry
  PROVE  PagesInv' /\ GoodInv' /\ Selects(strip.current)
<1> PICK t \in ToSet(pages) :
      /\ IsCurrent(t) /\ ~page[t].suspended
      /\ page' = [page EXCEPT ![t] =
           [page[t] EXCEPT !.cover = "recovery", !.render = "running",
                           !.jsDisabled = FALSE,
                           !.crashes = IF page[t].crashes < 2 THEN 2 ELSE page[t].crashes]]
      /\ strip' = Replaced(strip, IndexOf(t), Recovery(t), TRUE)
      /\ UNCHANGED <<pages, derailed>>
  BY DEF Retry
<1> DEFINE k == IF page[t].crashes < 2 THEN 2 ELSE page[t].crashes
           q == [page[t] EXCEPT !.cover = "recovery", !.render = "running",
                                !.jsDisabled = FALSE, !.crashes = k]
<1>1. t \in Tab /\ page[t] \in TabPage BY OpenTabs DEF StripInv, TypeInv
<1>2. page' = [page EXCEPT ![t] = q] OBVIOUS
<1> HIDE DEF k
<1>3. ~q.suspended /\ q.cover = "recovery" BY <1>1 DEF TabPage
<1> HIDE DEF q
<1>4. Recovery(t) \in Widget /\ Recovery(t).tab = t /\ Recovery(t).kind = "recovery"
  BY <1>1, Widgets DEF Recovery
<1>5. Fits(q, Recovery(t).kind) BY <1>3, <1>4 DEF Fits
<1>6. PagesInv' BY <1>1, <1>2, <1>3, OnePageKept
<1>7. ASSUME ~derailed PROVE Good(strip', pages', page') /\ strip'.current = strip.current
  BY <1>2, <1>3, <1>4, <1>5, <1>7, CellReplaced
<1> QED BY <1>6, <1>7 DEF GoodInv, Selects

(* What the renderer of a page and the memory budget do to its cell leaves  *)
(* the selection alone.                                                     *)
SelectionStays ==
  ~derailed' => /\ UNCHANGED pages
                /\ strip'.current = strip.current /\ strip'.shown = strip.shown

LEMMA FirstFrameGood ==
  ASSUME StripInv, NEW t \in Tab, FirstFrame(t)
  PROVE  PagesInv' /\ GoodInv' /\ SelectionStays
<1> DEFINE c == IF Recovering(t) THEN "none" ELSE page[t].cover
           q == [page[t] EXCEPT !.render = "painted", !.cover = c]
<1>1. /\ page[t] \in TabPage /\ (page[t].suspended => page[t].render = "none")
      /\ t \in ToSet(pages) /\ page[t].render = "running"
  BY DEF StripInv, TypeInv, PagesInv, FirstFrame
<1>2. /\ page' = [page EXCEPT ![t] = q] /\ UNCHANGED <<pages, derailed>>
      /\ strip' = IF Recovering(t)
                  THEN Replaced(strip, IndexOf(t), View(t), IsCurrent(t)) ELSE strip
  BY DEF FirstFrame
<1>3. ~page[t].suspended BY <1>1
<1> HIDE DEF c
<1>4. ~q.suspended /\ q.suspended = page[t].suspended /\ q.cover = c
  BY <1>1, <1>3 DEF TabPage
<1> HIDE DEF q
<1>5. PagesInv' BY <1>2, <1>4, OnePageKept
<1>6. ASSUME ~derailed
      PROVE  /\ Good(strip', pages', page')
             /\ strip'.current = strip.current /\ strip'.shown = strip.shown
  <2>1. CASE Recovering(t)
    <3>1. View(t) \in Widget /\ View(t).tab = t /\ View(t).kind = "view"
      BY Widgets DEF View
    <3>2. Fits(q, View(t).kind) BY <1>4, <2>1, <3>1 DEF Fits, c
    <3>3. IsCurrent(t) \in BOOLEAN BY DEF IsCurrent
    <3> QED BY <1>1, <1>2, <1>4, <1>6, <2>1, <3>1, <3>2, <3>3, CellReplaced
  <2>2. CASE ~Recovering(t)
    <3>1. strip' = strip /\ q.cover = page[t].cover BY <1>2, <1>4, <2>2 DEF c
    <3>2. Good(strip', pages', page') BY <1>2, <1>4, <1>6, <3>1, CellKept
    <3> QED BY <3>1, <3>2
  <2> QED BY <2>1, <2>2
<1> QED BY <1>2, <1>5, <1>6 DEF GoodInv, SelectionStays

LEMMA SilentExitGood ==
  ASSUME StripInv, NEW t \in Tab, SilentExit(t)
  PROVE  PagesInv' /\ GoodInv'
<1> DEFINE q == [page[t] EXCEPT !.render = "gone"]
<1>1. /\ page[t] \in TabPage /\ (page[t].suspended => page[t].render = "none")
      /\ page[t].render = "running"
  BY DEF StripInv, TypeInv, PagesInv, SilentExit
<1>2. page' = [page EXCEPT ![t] = q] /\ UNCHANGED <<pages, strip, derailed>>
  BY DEF SilentExit
<1>3. ~page[t].suspended BY <1>1
<1>4. q.suspended = page[t].suspended /\ q.cover = page[t].cover BY <1>1 DEF TabPage
<1> HIDE DEF q
<1>5. PagesInv' BY <1>2, <1>3, <1>4, OnePageKept
<1>6. ASSUME ~derailed PROVE Good(strip', pages', page')
  BY <1>2, <1>3, <1>4, <1>6, CellKept
<1> QED BY <1>2, <1>5, <1>6 DEF GoodInv

LEMMA CrashGood ==
  ASSUME StripInv, NEW t \in Tab, Crash(t)
  PROVE  PagesInv' /\ GoodInv' /\ SelectionStays
<1> DEFINE p == page[t]
           auto == Restarts(p)
           w == IF auto THEN Recovery(t) ELSE Crashed(t)
           k == AtMost(p.crashes + 1, 3)
           q == [p EXCEPT !.crashes = k,
                          !.render = IF auto THEN "running" ELSE "none",
                          !.cover = IF auto THEN "recovery" ELSE "crash",
                          !.jsDisabled = IF auto THEN p.crashes = 0 ELSE @,
                          !.cacheCleared = @ \/ (auto /\ p.crashes = 1)]
<1>1. /\ p \in TabPage /\ (p.suspended => p.render = "none")
      /\ t \in ToSet(pages) /\ p.render \in {"running", "painted"}
  BY DEF StripInv, TypeInv, PagesInv, Crash, Alive
<1>2. /\ page' = [page EXCEPT ![t] = q] /\ UNCHANGED <<pages, derailed>>
      /\ strip' = Replaced(strip, IndexOf(t), w, IsCurrent(t))
  BY DEF Crash
<1>3. ~p.suspended BY <1>1
<1> HIDE DEF p, k, auto
<1>4. ~q.suspended /\ q.cover = IF auto THEN "recovery" ELSE "crash"
  BY <1>1, <1>3 DEF TabPage
<1>5. /\ w \in Widget /\ w.tab = t /\ w.kind = IF auto THEN "recovery" ELSE "crash"
  BY Widgets DEF Recovery, Crashed
<1> HIDE DEF q, w
<1>6. Fits(q, w.kind) BY <1>4, <1>5 DEF Fits
<1>7. PagesInv' BY <1>2, <1>4, OnePageKept
<1>8. ASSUME ~derailed
      PROVE  /\ Good(strip', pages', page')
             /\ strip'.current = strip.current /\ strip'.shown = strip.shown
  <2>1. IsCurrent(t) \in BOOLEAN BY DEF IsCurrent
  <2> QED BY <1>1, <1>2, <1>4, <1>5, <1>6, <1>8, <2>1, CellReplaced
<1> QED BY <1>2, <1>7, <1>8 DEF GoodInv, SelectionStays

LEMMA SuspendGood ==
  ASSUME StripInv, NEW t \in Tab, Suspend(t)
  PROVE  PagesInv' /\ GoodInv' /\ SelectionStays
<1> DEFINE q == [page[t] EXCEPT !.suspended = TRUE, !.render = "none", !.cover = "none"]
<1>1. /\ page[t] \in TabPage /\ t \in ToSet(pages) /\ ~IsCurrent(t)
  BY DEF StripInv, TypeInv, Suspend, Evictable
<1>2. /\ page' = [page EXCEPT ![t] = q] /\ UNCHANGED pages
      /\ strip' = Replaced(CoverDeleted(strip, t), IndexOf(t), Tombstone(t), FALSE)
      /\ derailed' = (derailed \/ page[t].cover # "none")
  BY DEF Suspend
<1>3. q.suspended /\ q.render = "none" BY <1>1 DEF TabPage
<1> HIDE DEF q
<1>4. PagesInv' BY <1>2, <1>3, OnePageKept
<1>5. Tombstone(t) \in Widget /\ Tombstone(t).tab = t /\ Tombstone(t).kind = "tombstone"
  BY Widgets DEF Tombstone
<1>6. Fits(q, Tombstone(t).kind) BY <1>3, <1>5 DEF Fits
<1>7. ASSUME ~derailed'
      PROVE  /\ Good(strip', pages', page')
             /\ strip'.current = strip.current /\ strip'.shown = strip.shown
  <2>1. ~derailed /\ page[t].cover = "none" BY <1>2, <1>7
  <2>2. CoverDeleted(strip, t) = strip BY <2>1 DEF CoverDeleted
  <2>3. strip' = Replaced(strip, IndexOf(t), Tombstone(t), FALSE) BY <1>2, <2>2
  <2> QED BY <1>1, <1>2, <1>3, <1>5, <1>6, <2>1, <2>3, CellReplaced
<1> QED BY <1>2, <1>4, <1>7 DEF GoodInv, SelectionStays

LEMMA InitGood == ASSUME Init PROVE PagesInv /\ GoodInv
<1> PICK t \in Tab :
      /\ pages = <<t>>
      /\ strip = [stack |-> <<View(t)>>, shown |-> 1, tabs |-> 1, current |-> 1]
      /\ page = [u \in Tab |-> NewPage]
  BY DEF Init
<1>1. Len(pages) = 1 /\ pages[1] = t OBVIOUS
<1>2. \A u \in Tab : ~page[u].suspended /\ page[u].cover = "none" BY NewPageAwake
<1>3. /\ strip.stack = <<View(t)>> /\ strip.tabs = 1 /\ strip.current = 1 /\ strip.shown = 1
  OBVIOUS
<1>4. Len(strip.stack) = 1 /\ strip.stack[1] = View(t) BY <1>3
<1>5. View(t).tab = t /\ View(t).kind = "view" BY DEF View
<1>6. Fits(page[t], "view") BY <1>2 DEF Fits
<1>7. Cells(strip.stack, pages, page) BY <1>1, <1>4, <1>5, <1>6 DEF Cells
<1> QED BY <1>1, <1>2, <1>3, <1>7 DEF PagesInv, GoodInv, Good, Distinct

LEMMA NextGood == ASSUME StripInv, [Next]_vars PROVE StripInv'
<1>0. TypeInv' BY NextType DEF StripInv
<1> SUFFICES PagesInv' /\ GoodInv' BY <1>0 DEF StripInv
<1>1. CASE AddTab BY <1>1, AddTabGood
<1>2. CASE CloseLastTab BY <1>2, CloseLastTabGood
<1>3. CASE NavigateDead BY <1>3, NavigateDeadGood
<1>4. CASE Retry BY <1>4, RetryGood
<1>5. CASE \E i \in DOMAIN pages : CloseTab(i) BY <1>5, CloseTabGood
<1>6. CASE \E i \in 1..strip.tabs : SelectTab(i) BY <1>6, SelectTabGood
<1>7. CASE \E i, j \in DOMAIN pages : MoveTab(i, j) BY <1>7, MoveTabGood
<1>8. CASE \E t \in Tab : FirstFrame(t) BY <1>8, FirstFrameGood
<1>9. CASE \E t \in Tab : SilentExit(t) BY <1>9, SilentExitGood
<1>10. CASE \E t \in Tab : Crash(t) BY <1>10, CrashGood
<1>11. CASE \E t \in Tab : Suspend(t) BY <1>11, SuspendGood
<1>12. CASE UNCHANGED vars
  BY <1>12 DEF vars, StripInv, PagesInv, GoodInv, Good, Cells, Distinct
<1> QED
  BY <1>1, <1>2, <1>3, <1>4, <1>5, <1>6, <1>7, <1>8, <1>9, <1>10, <1>11, <1>12 DEF Next

LEMMA StripInvariant == Spec => []StripInv
<1>1. Init => StripInv BY InitType, InitGood DEF StripInv
<1> QED BY <1>1, NextGood, PTL DEF Spec

(* Unless a placeholder was deleted under m_stack, the three containers     *)
(* agree on every tab, whatever was crashed, recovered, suspended, moved or *)
(* closed, for any number of tabs.                                          *)
THEOREM TabsStayAligned == Spec => []Aligned
<1>1. StripInv => Aligned
  <2> SUFFICES ASSUME StripInv, ~derailed PROVE OneCellPerTab BY DEF Aligned
  <2>1. Good(strip, pages, page) /\ DOMAIN pages = 1..Len(pages)
    BY LenProperties DEF StripInv, GoodInv, TypeInv
  <2>2. \A i \in DOMAIN pages :
          strip.stack[i].tab = pages[i] /\ Owns(pages[i], strip.stack[i].kind)
    BY <2>1 DEF Good, Cells, Fits, Owns
  <2> QED BY <2>1, <2>2 DEF Good, Cells, OneCellPerTab
<1> QED BY <1>1, StripInvariant, PTL

(* The tab in front is the selected one, and it is awake: currentChanged    *)
(* resumes a tombstone before it can be seen.                               *)
THEOREM ForegroundStaysLive == Spec => []ForegroundIsLive
<1>1. StripInv => ForegroundIsLive
  BY LenProperties DEF StripInv, GoodInv, TypeInv, Good, ForegroundIsLive
<1> QED BY <1>1, StripInvariant, PTL

(* A crash, a recovery or an eviction leaves the order of the tabs and the  *)
(* user's selection alone: the removal and the insertion at the page's      *)
(* index cancel.                                                            *)
THEOREM SelectionStaysPut == Spec => SelectionKept
<1>1. ASSUME StripInv, [Next]_vars
      PROVE  [(\E t \in Tab : Crash(t) \/ FirstFrame(t) \/ Suspend(t)) /\ ~derailed' =>
                /\ UNCHANGED pages
                /\ strip'.current = strip.current /\ strip'.shown = strip.shown]_vars
  <2>1. ASSUME NEW t \in Tab, Crash(t) \/ FirstFrame(t) \/ Suspend(t)
        PROVE  SelectionStays
    BY <1>1, <2>1, CrashGood, FirstFrameGood, SuspendGood
  <2> QED BY <2>1 DEF SelectionStays
<1> QED BY <1>1, StripInvariant, PTL DEF Spec, SelectionKept

-----------------------------------------------------------------------------
(* The list of tabs the user has in mind.  While every cell is its page's,  *)
(* what is seen of m_stack is told by the pages.                            *)

Slept(ps, pg) == {t \in ToSet(ps) : pg[t].suspended}

LEMMA Seen ==
  ASSUME NEW s, StripOK(s), NEW ps \in Seq(Tab), NEW pg \in [Tab -> TabPage],
         Good(s, ps, pg)
  PROVE  /\ SeenTabs(s) = ps /\ SeenFront(s) = ps[s.current]
         /\ SeenAsleep(s) = Slept(ps, pg)
<1>1. /\ s.stack \in Seq(Widget) /\ DOMAIN s.stack = 1..Len(ps) /\ DOMAIN ps = 1..Len(ps)
      /\ s.current \in 1..Len(ps) /\ s.shown = s.current
      /\ \A i \in 1..Len(ps) : /\ s.stack[i].tab = ps[i] /\ Fits(pg[ps[i]], s.stack[i].kind)
                               /\ s.stack[i] \in Widget /\ ps[i] \in Tab
  BY LenProperties, ElementOfSeq DEF StripOK, Good, Cells
<1>2. SeenTabs(s) = ps
  <2>1. SeenTabs(s) = [i \in 1..Len(ps) |-> ps[i]] BY <1>1 DEF SeenTabs
  <2>2. ps = [i \in 1..Len(ps) |-> ps[i]] BY <1>1
  <2> QED BY <2>1, <2>2
<1>3. SeenFront(s) = ps[s.current] BY <1>1 DEF SeenFront
<1>4. ASSUME NEW i \in 1..Len(ps)
      PROVE  pg[ps[i]].suspended <=> s.stack[i] = Tombstone(ps[i])
  <2>1. pg[ps[i]] \in TabPage /\ Fits(pg[ps[i]], s.stack[i].kind) BY <1>1
  <2>2. pg[ps[i]].cover # "tombstone" BY <2>1 DEF TabPage, Cover
  <2>3. pg[ps[i]].suspended <=> s.stack[i].kind = "tombstone" BY <2>1, <2>2 DEF Fits
  <2>4. s.stack[i] \in Widget /\ s.stack[i].tab = ps[i] BY <1>1
  <2>5. Tombstone(ps[i]) \in Widget /\ Tombstone(ps[i]).tab = ps[i]
        /\ Tombstone(ps[i]).kind = "tombstone"
    BY <1>1, Widgets DEF Tombstone
  <2>6. \A v, w \in Widget : v.tab = w.tab /\ v.kind = w.kind => v = w BY DEF Widget
  <2> QED BY <2>3, <2>4, <2>5, <2>6
<1>5. \A i \in 1..Len(ps), t \in Tab : s.stack[i] = Tombstone(t) => t = ps[i]
  BY <1>1 DEF Tombstone
<1>6. SeenAsleep(s) = Slept(ps, pg)
  BY <1>1, <1>4, <1>5 DEF SeenAsleep, Slept, ToSet
<1> QED BY <1>2, <1>3, <1>6

SeenNow ==
  /\ SeenTabs(strip) = pages /\ SeenFront(strip) = pages[strip.current]
  /\ SeenAsleep(strip) = Slept(pages, page)
  /\ pages \in Seq(Tab) /\ Len(pages) \in Nat /\ DOMAIN pages = 1..Len(pages)
  /\ strip.current \in 1..Len(pages) /\ page \in [Tab -> TabPage] /\ Distinct(pages)
  /\ \A i \in 1..Len(pages) : pages[i] \in Tab
  /\ ~page[pages[strip.current]].suspended
  /\ StripOK(strip) /\ strip.tabs = Len(pages) /\ Len(strip.stack) = Len(pages)

LEMMA SeenHere == ASSUME StripInv, ~derailed PROVE SeenNow
BY Seen, LenProperties, ElementOfSeq
   DEF StripInv, TypeInv, PagesInv, GoodInv, Good, Cells, SeenNow

LEMMA SeenThere == ASSUME StripInv', ~derailed' PROVE SeenNow'
BY Seen, LenProperties, ElementOfSeq
   DEF StripInv, TypeInv, PagesInv, GoodInv, Good, Cells, SeenNow

(* The list's operators on sequences are the strip's.                       *)
LEMMA ListOperators ==
  /\ \A s : TL!ToSet(s) = ToSet(s)
  /\ \A s, i : TL!RemoveAt(s, i) = RemoveAt(s, i)
  /\ \A s, i, e : TL!InsertAt(s, i, e) = InsertAt(s, i, e)
BY DEF TL!ToSet, ToSet, TL!RemoveAt, RemoveAt, TL!InsertAt, InsertAt

(* A step that keeps the pages, the selection and who sleeps is unseen.     *)
LEMMA Unseen ==
  ASSUME SeenNow, SeenNow', UNCHANGED pages, strip'.current = strip.current,
         \A t \in Tab : page'[t].suspended = page[t].suspended
  PROVE  UNCHANGED TL!listVars
<1>1. Slept(pages', page') = Slept(pages, page)
  BY DEF SeenNow, Slept, ToSet
<1> QED BY <1>1 DEF SeenNow, TL!listVars

LEMMA AddTabMaps ==
  ASSUME SeenNow, SeenNow', AddTab, Selects(Len(pages) + 1), ~derailed
  PROVE  TL!ListNext
<1> PICK t \in Tab \ ToSet(pages) :
      page' = [page EXCEPT ![t] = NewPage] /\ pages' = Append(pages, t)
  BY DEF AddTab
<1>1. pages'[Len(pages) + 1] = t /\ Len(pages') = Len(pages) + 1
      /\ \A j \in 1..Len(pages) : pages'[j] = pages[j]
  BY AppendProperties DEF SeenNow
<1>2. ToSet(pages') = ToSet(pages) \cup {t} BY <1>1 DEF SeenNow, ToSet
<1>3. page'[t] = NewPage /\ \A u \in Tab \ {t} : page'[u] = page[u] BY DEF SeenNow
<1>4. Slept(pages', page') = Slept(pages, page)
  <2>1. ToSet(pages) \subseteq Tab BY DEF SeenNow, ToSet
  <2> QED BY <1>2, <1>3, <2>1, NewPageAwake DEF Slept
<1>5. SeenFront(strip)' = t BY <1>1 DEF SeenNow, Selects
<1>6. TL!Open(t) BY <1>4, <1>5, ListOperators DEF SeenNow, TL!Open
<1> QED BY <1>6 DEF TL!ListNext

LEMMA CloseLastTabMaps ==
  ASSUME SeenNow, SeenNow', CloseLastTab
  PROVE  TL!ListNext
<1> PICK t \in Tab : pages' = <<t>> /\ Len(pages) = 1 BY DEF CloseLastTab
<1>1. Len(pages') = 1 /\ pages'[1] = t OBVIOUS
<1>2. strip'.current = 1 BY <1>1 DEF SeenNow
<1>3. SeenFront(strip)' = t BY <1>1, <1>2 DEF SeenNow
<1>4. Slept(pages', page') = {} BY <1>1, <1>2 DEF SeenNow, Slept, ToSet
<1>5. TL!CloseLast(t) BY <1>3, <1>4 DEF SeenNow, TL!CloseLast, TL!Only
<1> QED BY <1>5 DEF TL!ListNext

(* Which neighbour takes the place of a tab that goes.                      *)
LEMMA Neighbour ==
  ASSUME NEW n \in Nat, 1 < n, NEW c \in 1..n, NEW i \in 1..n
  PROVE  LET k == AfterRemoval(c, i, n)
         IN /\ k \in 1..(n - 1)
            /\ i # c => (IF k < i THEN k ELSE k + 1) = c
            /\ i = c /\ i < n => ~(k < i) /\ k + 1 = i + 1
            /\ i = c /\ ~(i < n) => k < i /\ k = i - 1
BY DEF AfterRemoval

LEMMA CloseTabMaps ==
  ASSUME SeenNow, SeenNow', NEW i \in DOMAIN pages, CloseTab(i),
         Selects(AfterRemoval(strip.current, i, Len(pages))), ~derailed
  PROVE  TL!ListNext
<1> DEFINE t    == pages[i]
           n    == Len(pages)
           c    == strip.current
           rest == RemoveAt(pages, i)
           k    == AfterRemoval(c, i, n)
<1>1. /\ n \in Nat /\ 1 < n /\ i \in 1..n /\ c \in 1..n /\ pages \in Seq(Tab) /\ t \in Tab
      /\ DOMAIN pages = 1..n
  BY DEF SeenNow, CloseTab
<1>2. rest \in Seq(Tab) /\ Len(rest) = n - 1
      /\ \A j \in 1..(n - 1) : rest[j] = pages[IF j < i THEN j ELSE j + 1]
  BY <1>1, Removal
<1>3. /\ k \in 1..(n - 1)
      /\ i # c => (IF k < i THEN k ELSE k + 1) = c
      /\ i = c /\ i < n => ~(k < i) /\ k + 1 = i + 1
      /\ i = c /\ ~(i < n) => k < i /\ k = i - 1
  BY <1>1, Neighbour
<1>4. pages' = rest /\ strip'.current = k BY DEF CloseTab, Closed, Selects
<1>5. ToSet(rest) = ToSet(pages) \ {t}
  <2>1. DOMAIN rest = 1..(n - 1) BY <1>2, LenProperties
  <2>2. ToSet(pages) \subseteq ToSet(rest) \cup {t} BY <1>1, RemovalElements
  <2>3. \A j \in 1..(n - 1) : rest[j] # t /\ \E l \in 1..n : rest[j] = pages[l]
    <3> DEFINE h(j) == IF j < i THEN j ELSE j + 1
    <3>1. \A j \in 1..(n - 1) : h(j) \in 1..n /\ h(j) # i BY <1>1
    <3>2. \A j \in 1..(n - 1) : rest[j] = pages[h(j)] BY <1>2
    <3>3. \A j, l \in 1..n : pages[j] = pages[l] => j = l BY DEF SeenNow, Distinct
    <3> HIDE DEF h, rest, n
    <3> QED BY <1>1, <3>1, <3>2, <3>3
  <2> HIDE DEF rest, t, n
  <2> QED BY <1>1, <2>1, <2>2, <2>3 DEF ToSet
<1>6. ASSUME NEW u \in ToSet(rest)
      PROVE  page'[u].suspended <=> page[u].suspended /\ u # rest[k]
  <2> DEFINE s  == PageTabRemoved(strip, i)
             on == i <= c /\ i <= Len(strip.stack)
             pg == IF on THEN PagesActivated(rest, s.current) ELSE page
  <2>1. page' = [pg EXCEPT ![t] = NewPage] BY DEF CloseTab, Closed
  <2>2. u \in Tab /\ u # t
    <3>1. ToSet(pages) \subseteq Tab BY DEF SeenNow, ToSet
    <3> HIDE DEF rest, t
    <3> QED BY <1>5, <3>1
  <2>3. s.current = k
    <3>1. /\ StripOK(strip) /\ i \in Nat \ {0} /\ i \in 1..Len(strip.stack)
          /\ strip.tabs = n
      BY <1>1 DEF SeenNow
    <3>2. s = [stack |-> RemoveAt(strip.stack, i),
               shown |-> AfterRemoval(strip.shown, i, Len(strip.stack)),
               tabs |-> strip.tabs - 1,
               current |-> AfterRemoval(strip.current, i, strip.tabs)]
      BY <3>1, PageTabRemovedIs
    <3> QED BY <3>1, <3>2
  <2> HIDE DEF s, k, rest, t, n
  <2>4. PagesActivated(rest, k) \in [Tab -> TabPage]
    BY <1>2, <1>3, PagesActivatedType DEF SeenNow
  <2>5. PagesActivated(rest, k)[u].suspended <=> page[u].suspended /\ u # rest[k]
    BY <1>2, <1>3, <2>2, ActivatedWakes DEF SeenNow
  <2>6. CASE on
    BY <2>1, <2>2, <2>3, <2>4, <2>5, <2>6
  <2>7. CASE ~on
    <3>1. c < i BY <1>1, <2>7 DEF SeenNow, n
    <3>2. rest[k] = pages[c]
      <4>1. rest[k] = pages[IF k < i THEN k ELSE k + 1] BY <1>2, <1>3
      <4> QED BY <1>1, <1>3, <3>1, <4>1
    <3>3. ~page[rest[k]].suspended BY <3>2 DEF SeenNow
    <3>4. page'[u] = page[u] BY <2>1, <2>2, <2>7 DEF SeenNow
    <3> QED BY <3>3, <3>4
  <2> QED BY <2>6, <2>7
<1>7. rest[k] = IF t # pages[c] THEN pages[c]
                ELSE IF i < n THEN pages[i + 1] ELSE pages[i - 1]
  <2>1. t # pages[c] <=> i # c BY <1>1 DEF SeenNow, Distinct
  <2>2. rest[k] = pages[IF k < i THEN k ELSE k + 1] BY <1>2, <1>3
  <2> HIDE DEF k, rest, t, n, c
  <2> QED BY <1>3, <2>1, <2>2
<1>8. Slept(rest, page') = Slept(pages, page) \ {t, rest[k]}
  <2> HIDE DEF k, rest, t
  <2> QED BY <1>5, <1>6 DEF Slept
<1>9. TL!Close(i)
  <2>1. SeenTabs(strip)' = rest /\ SeenFront(strip)' = rest[k]
        /\ SeenAsleep(strip)' = Slept(rest, page')
    BY <1>4 DEF SeenNow
  <2> HIDE DEF k, rest
  <2> QED BY <1>1, <1>7, <1>8, <2>1, ListOperators DEF SeenNow, TL!Close, rest
<1> QED BY <1>1, <1>9 DEF SeenNow, TL!ListNext

LEMMA SelectTabMaps ==
  ASSUME SeenNow, SeenNow', NEW i \in 1..strip.tabs, SelectTab(i), Selects(i), ~derailed
  PROVE  TL!ListNext
<1>1. pages' = pages /\ page' = PagesActivated(pages, i) /\ strip'.current = i
      /\ i \in 1..Len(pages)
  BY DEF SelectTab, Selects, SeenNow
<1>2. \A u \in Tab : page'[u].suspended <=> page[u].suspended /\ u # pages[i]
  BY <1>1, ActivatedWakes DEF SeenNow
<1>3. ToSet(pages) \subseteq Tab BY DEF SeenNow, ToSet
<1>4. Slept(pages', page') = Slept(pages, page) \ {pages[i]} BY <1>1, <1>2, <1>3 DEF Slept
<1>5. TL!Select(i) BY <1>1, <1>4 DEF SeenNow, TL!Select
<1> QED BY <1>1, <1>5 DEF SeenNow, TL!ListNext

LEMMA SelectionMoved ==
  ASSUME NEW n \in Nat, NEW c \in 1..n, NEW i \in 1..n, NEW j \in 1..n, i # j
  PROVE  FromIndex(CurrentMoved(c, i, j), i, j) = c
BY DEF FromIndex, CurrentMoved

(* A moved tab takes the selection along, and so do those that make way.    *)
LEMMA MoveTabMaps ==
  ASSUME SeenNow, SeenNow', NEW i \in DOMAIN pages, NEW j \in DOMAIN pages, MoveTab(i, j),
         Selects(CurrentMoved(strip.current, i, j)), ~derailed
  PROVE  TL!ListNext
<1> DEFINE n   == Len(pages)
           c   == strip.current
           cur == CurrentMoved(c, i, j)
           ps  == InsertAt(RemoveAt(pages, i), j, pages[i])
<1>1. /\ n \in Nat /\ i \in 1..n /\ j \in 1..n /\ c \in 1..n /\ i # j
      /\ pages \in Seq(Tab) /\ DOMAIN pages = 1..n
  BY DEF SeenNow, MoveTab
<1>2. ps \in Seq(Tab) /\ Len(ps) = n BY <1>1, MovedSeq
<1>3. \A k \in 1..n : ps[k] = pages[FromIndex(k, i, j)] BY <1>1, MovedAt, SMTT(30)
<1>4. cur \in 1..n /\ FromIndex(cur, i, j) = c
  BY <1>1, CurrentMovedInside, SelectionMoved
<1>5. pages' = ps /\ strip'.current = cur BY DEF MoveTab, Selects
<1> HIDE DEF ps, cur, c, n
<1>6. ps[cur] = pages[c] BY <1>3, <1>4
<1>7. ToSet(ps) = ToSet(pages)
  <2>1. DOMAIN ps = 1..n BY <1>2, LenProperties
  <2>2. ToSet(ps) \subseteq ToSet(pages)
    <3>1. \A k \in 1..n : FromIndex(k, i, j) \in 1..n BY <1>1, FromIndexProperties
    <3> QED BY <1>1, <1>3, <2>1, <3>1 DEF ToSet
  <2>3. ToSet(pages) \subseteq ToSet(ps)
    <3>1. \A l \in 1..n : \E k \in 1..n : FromIndex(k, i, j) = l
      <4> TAKE l \in 1..n
      <4> DEFINE k == IF l = i THEN j ELSE CurrentMoved(l, i, j)
      <4>1. FromIndex(CurrentMoved(l, i, j), i, j) = l /\ CurrentMoved(l, i, j) \in 1..n
        BY <1>1, CurrentMovedInside, SelectionMoved
      <4> QED BY <4>1
    <3>2. \A l \in 1..n : \E k \in 1..n : ps[k] = pages[l] BY <1>3, <3>1
    <3>3. ASSUME NEW x \in ToSet(pages) PROVE x \in ToSet(ps)
      <4>1. PICK l \in 1..n : pages[l] = x BY <1>1 DEF ToSet
      <4>2. PICK k \in 1..n : ps[k] = x BY <3>2, <4>1
      <4> QED BY <2>1, <4>2 DEF ToSet
    <3> QED BY <3>3
  <2> QED BY <2>2, <2>3
<1>8. \A u \in Tab : page'[u].suspended <=> page[u].suspended
  <2>1. CASE cur # c
    <3>1. page' = PagesActivated(ps, cur) BY <2>1 DEF MoveTab, CurrentMoved, ps, cur, c
    <3>2. cur \in 1..Len(ps) BY <1>2, <1>4
    <3>3. \A u \in Tab : PagesActivated(ps, cur)[u].suspended
                           <=> page[u].suspended /\ u # ps[cur]
      BY <1>2, <3>2, ActivatedWakes DEF SeenNow
    <3>4. ~page[ps[cur]].suspended BY <1>6 DEF SeenNow, c
    <3> QED BY <3>1, <3>3, <3>4
  <2>2. CASE cur = c
    BY <2>2 DEF MoveTab, CurrentMoved, cur, c
  <2> QED BY <2>1, <2>2
<1>9. Slept(pages', page') = Slept(pages, page)
  <2>1. ToSet(pages) \subseteq Tab BY DEF SeenNow, ToSet
  <2> QED BY <1>5, <1>7, <1>8, <2>1 DEF Slept
<1>10. TL!Move(i, j)
  BY <1>5, <1>6, <1>9, ListOperators DEF SeenNow, TL!Move, ps, c
<1> QED BY <1>1, <1>10 DEF SeenNow, TL!ListNext

LEMMA NavigateDeadMaps ==
  ASSUME SeenNow, SeenNow', NavigateDead, Selects(strip.current), ~derailed
  PROVE  UNCHANGED TL!listVars
<1> PICK t \in ToSet(pages) :
      /\ IsCurrent(t) /\ UNCHANGED pages
      /\ ~page[t].suspended => page' = [page EXCEPT ![t].render = "running"]
  BY DEF NavigateDead
<1>1. ~page[t].suspended BY DEF SeenNow, IsCurrent
<1>2. page' = [page EXCEPT ![t].render = "running"] BY <1>1
<1>3. \A u \in Tab : page'[u].suspended = page[u].suspended
  BY <1>2 DEF SeenNow, TabPage
<1> QED BY <1>3, Unseen DEF Selects

LEMMA RetryMaps ==
  ASSUME SeenNow, SeenNow', Retry, Selects(strip.current), ~derailed
  PROVE  UNCHANGED TL!listVars
<1> PICK t \in ToSet(pages) :
      /\ UNCHANGED pages
      /\ page' = [page EXCEPT ![t] =
           [page[t] EXCEPT !.cover = "recovery", !.render = "running",
                           !.jsDisabled = FALSE,
                           !.crashes = IF page[t].crashes < 2 THEN 2 ELSE page[t].crashes]]
  BY DEF Retry
<1>1. \A u \in Tab : page'[u].suspended = page[u].suspended BY DEF SeenNow, TabPage
<1> QED BY <1>1, Unseen DEF Selects

LEMMA FirstFrameMaps ==
  ASSUME SeenNow, SeenNow', NEW t \in Tab, FirstFrame(t), SelectionStays, ~derailed'
  PROVE  UNCHANGED TL!listVars
<1> DEFINE c == IF Recovering(t) THEN "none" ELSE page[t].cover
<1>1. page' = [page EXCEPT ![t] = [page[t] EXCEPT !.render = "painted", !.cover = c]]
  BY DEF FirstFrame
<1> HIDE DEF c
<1>2. \A u \in Tab : page'[u].suspended = page[u].suspended BY <1>1 DEF SeenNow, TabPage
<1> QED BY <1>2, Unseen DEF SelectionStays

LEMMA SilentExitMaps ==
  ASSUME SeenNow, SeenNow', NEW t \in Tab, SilentExit(t)
  PROVE  UNCHANGED TL!listVars
<1>1. page' = [page EXCEPT ![t].render = "gone"] /\ UNCHANGED <<pages, strip>>
  BY DEF SilentExit
<1>2. \A u \in Tab : page'[u].suspended = page[u].suspended BY <1>1 DEF SeenNow, TabPage
<1> QED BY <1>1, <1>2, Unseen

LEMMA CrashMaps ==
  ASSUME SeenNow, SeenNow', NEW t \in Tab, Crash(t), SelectionStays, ~derailed'
  PROVE  UNCHANGED TL!listVars
<1> DEFINE p == page[t]
           auto == Restarts(p)
           k == AtMost(p.crashes + 1, 3)
           b == IF auto THEN p.crashes = 0 ELSE p.jsDisabled
           e == p.cacheCleared \/ (auto /\ p.crashes = 1)
           q == [p EXCEPT !.crashes = k,
                          !.render = IF auto THEN "running" ELSE "none",
                          !.cover = IF auto THEN "recovery" ELSE "crash",
                          !.jsDisabled = b, !.cacheCleared = e]
<1>1. page' = [page EXCEPT ![t] = q] BY DEF Crash
<1>2. p \in TabPage BY DEF SeenNow
<1> HIDE DEF auto, k, b, e
<1>3. q.suspended = p.suspended BY <1>2 DEF TabPage
<1> HIDE DEF q
<1>4. \A u \in Tab : page'[u].suspended = page[u].suspended BY <1>1, <1>3 DEF SeenNow
<1> QED BY <1>4, Unseen DEF SelectionStays

LEMMA SuspendMaps ==
  ASSUME SeenNow, SeenNow', NEW t \in Tab, Suspend(t), SelectionStays, ~derailed'
  PROVE  TL!ListNext
<1> DEFINE q == [page[t] EXCEPT !.suspended = TRUE, !.render = "none", !.cover = "none"]
<1>1. page' = [page EXCEPT ![t] = q] /\ t \in ToSet(pages) /\ ~IsCurrent(t)
  BY DEF Suspend, Evictable
<1>2. page[t] \in TabPage /\ q.suspended BY DEF SeenNow, TabPage
<1> HIDE DEF q
<1>3. page'[t].suspended /\ \A u \in Tab \ {t} : page'[u] = page[u]
  BY <1>1, <1>2 DEF SeenNow
<1>4. pages' = pages /\ strip'.current = strip.current BY DEF SelectionStays
<1>5. t # pages[strip.current] BY <1>1 DEF SeenNow, IsCurrent
<1>6. Slept(pages', page') = Slept(pages, page) \cup {t}
  <2>1. ToSet(pages) \subseteq Tab BY DEF SeenNow, ToSet
  <2> QED BY <1>1, <1>3, <1>4, <2>1 DEF Slept
<1>7. TL!Sleep(t)
  BY <1>1, <1>4, <1>5, <1>6, ListOperators DEF SeenNow, TL!Sleep
<1> QED BY <1>7 DEF TL!ListNext

LEMMA StaysDerailed == ASSUME [Next]_vars, derailed PROVE derailed'
BY DEF Next, vars, AddTab, CloseLastTab, NavigateDead, Retry, CloseTab, SelectTab, MoveTab,
       FirstFrame, SilentExit, Crash, Suspend

LEMMA ListInitMaps == Init => TL!ListInit
<1> SUFFICES ASSUME Init PROVE TL!ListInit OBVIOUS
<1> PICK t \in Tab :
      /\ pages = <<t>>
      /\ strip = [stack |-> <<View(t)>>, shown |-> 1, tabs |-> 1, current |-> 1]
      /\ page = [u \in Tab |-> NewPage] /\ derailed = FALSE
  BY DEF Init
<1>1. SeenNow BY InitType, InitGood, SeenHere DEF StripInv
<1>2. Len(pages) = 1 /\ pages[1] = t OBVIOUS
<1>3. strip.current = 1 BY <1>1, <1>2 DEF SeenNow
<1>4. SeenFront(strip) = t BY <1>1, <1>2, <1>3 DEF SeenNow
<1>5. Slept(pages, page) = {} BY NewPageAwake, <1>1, <1>2 DEF Slept, SeenNow, ToSet
<1> QED BY <1>1, <1>4, <1>5 DEF SeenNow, TL!ListInit, TL!Only

LEMMA StepMaps ==
  ASSUME StripInv, StripInv', [Next]_vars
  PROVE  [derailed' \/ TL!ListNext]_(TL!listVars)
<1> SUFFICES ASSUME ~derailed' PROVE TL!ListNext \/ UNCHANGED TL!listVars OBVIOUS
<1>0. ~derailed /\ SeenNow /\ SeenNow' BY StaysDerailed, SeenHere, SeenThere
<1>1. CASE AddTab BY <1>0, <1>1, AddTabGood, AddTabMaps
<1>2. CASE CloseLastTab BY <1>0, <1>2, CloseLastTabMaps
<1>3. CASE NavigateDead BY <1>0, <1>3, NavigateDeadGood, NavigateDeadMaps
<1>4. CASE Retry BY <1>0, <1>4, RetryGood, RetryMaps
<1>5. CASE \E i \in DOMAIN pages : CloseTab(i) BY <1>0, <1>5, CloseTabGood, CloseTabMaps
<1>6. CASE \E i \in 1..strip.tabs : SelectTab(i)
  BY <1>0, <1>6, SelectTabGood, SelectTabMaps
<1>7. CASE \E i, j \in DOMAIN pages : MoveTab(i, j)
  BY <1>0, <1>7, MoveTabGood, MoveTabMaps
<1>8. CASE \E t \in Tab : FirstFrame(t) BY <1>0, <1>8, FirstFrameGood, FirstFrameMaps
<1>9. CASE \E t \in Tab : SilentExit(t) BY <1>0, <1>9, SilentExitMaps
<1>10. CASE \E t \in Tab : Crash(t) BY <1>0, <1>10, CrashGood, CrashMaps
<1>11. CASE \E t \in Tab : Suspend(t) BY <1>0, <1>11, SuspendGood, SuspendMaps
<1>12. CASE UNCHANGED vars BY <1>12 DEF vars, TL!listVars
<1> QED
  BY <1>1, <1>2, <1>3, <1>4, <1>5, <1>6, <1>7, <1>8, <1>9, <1>10, <1>11, <1>12 DEF Next

(* The tab strip is a list of tabs: with all its crashes, placeholders,     *)
(* tombstones and indices, what is on the screen changes as TabList says,   *)
(* until a placeholder is deleted under m_stack.                            *)
THEOREM StripIsTabList == Spec => ImplementsTabList
BY ListInitMaps, StepMaps, StripInvariant, PTL DEF Spec, ImplementsTabList

=============================================================================
