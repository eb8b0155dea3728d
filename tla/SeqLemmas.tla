------------------------------ MODULE SeqLemmas ------------------------------
(***************************************************************************)
(* Facts about the sequence operators the kernel model is built from:      *)
(* what linking a node at either end, linking it in the middle and         *)
(* unlinking it do to the elements of a list without duplicates.           *)
(***************************************************************************)
EXTENDS Integers, Sequences, FiniteSets, SequencesExt, SequenceTheorems,
        WellFoundedInduction, TLAPS

\* A non-empty set of naturals has a least element, and Min returns it.
LEMMA MinIsLeast ==
  ASSUME NEW S, S \subseteq Nat, S # {}
  PROVE  Min(S) \in S /\ \A y \in S : Min(S) <= y
<1>1. \E x \in S : \A y \in S : ~ (<<y, x>> \in OpToRel(<, Nat))
  BY NatLessThanWellFounded, WFMin
<1>2. PICK x \in S : \A y \in S : ~ (<<y, x>> \in OpToRel(<, Nat))
  BY <1>1
<1>3. ASSUME NEW y \in S PROVE x <= y
  <2>1. y \in Nat /\ x \in Nat
    OBVIOUS
  <2>2. OpToRel(<, Nat) = {ss \in Nat \X Nat : ss[1] < ss[2]}
    BY DEF OpToRel
  <2>3. ~(y < x)
    BY <1>2, <2>1, <2>2
  <2> QED
    BY <2>1, <2>3
<1> QED
  BY <1>3 DEF Min

\* A set of naturals that has 0 and the successor of each of its elements up to n has n.
LEMMA Climbs ==
  ASSUME NEW n \in Nat, NEW S, 0 \in S, \A i \in 0..n : i < n /\ i \in S => i + 1 \in S
  PROVE  \A i \in 0..n : i \in S
<1> DEFINE Bad == {i \in 0..n : i \notin S}
<1> SUFFICES ASSUME Bad # {} PROVE FALSE
  OBVIOUS
<1>1. Bad \subseteq Nat
  OBVIOUS
<1>2. PICK m \in Bad : \A i \in Bad : m <= i
  <2> HIDE DEF Bad
  <2> QED
    BY <1>1, MinIsLeast
<1>3. m \in 1..n /\ m - 1 \in 0..n /\ m - 1 < n /\ m - 1 \notin Bad
  BY <1>2
<1>4. m \in S
  BY <1>3
<1> QED
  BY <1>2, <1>4

\* What Append adds, and that it keeps a sequence injective.
LEMMA AppendLemma ==
  ASSUME NEW S, NEW s \in Seq(S), NEW e \in S
  PROVE  /\ Append(s, e) \in Seq(S)
         /\ Append(s, e) # <<>>
         /\ \A x : Contains(Append(s, e), x) <=> Contains(s, x) \/ x = e
         /\ IsInjective(s) /\ ~Contains(s, e) => IsInjective(Append(s, e))
<1>1. /\ Append(s, e) \in Seq(S)
      /\ Len(Append(s, e)) = Len(s) + 1
      /\ \A i \in 1..Len(s) : Append(s, e)[i] = s[i]
      /\ Append(s, e)[Len(s) + 1] = e
  OBVIOUS
<1>2. \A x : Contains(Append(s, e), x) <=> Contains(s, x) \/ x = e
  BY <1>1 DEF Contains
<1>3. ASSUME IsInjective(s), ~Contains(s, e) PROVE IsInjective(Append(s, e))
  BY <1>1, <1>3 DEF Contains, IsInjective
<1> QED
  BY <1>1, <1>2, <1>3

\* What Cons adds, and that it keeps a sequence injective.
LEMMA ConsLemma ==
  ASSUME NEW S, NEW s \in Seq(S), NEW e \in S
  PROVE  /\ Cons(e, s) \in Seq(S)
         /\ Cons(e, s) # <<>>
         /\ \A x : Contains(Cons(e, s), x) <=> Contains(s, x) \/ x = e
         /\ IsInjective(s) /\ ~Contains(s, e) => IsInjective(Cons(e, s))
<1> DEFINE c == Cons(e, s)
<1>1. /\ c \in Seq(S)
      /\ Len(c) = Len(s) + 1
      /\ c[1] = e
      /\ \A i \in 1..Len(s) : c[i + 1] = s[i]
      /\ \A i \in 2..Len(c) : c[i] = s[i - 1]
  BY DEF Cons
<1>2. \A x : Contains(c, x) <=> Contains(s, x) \/ x = e
  <2> TAKE x
  <2>1. ASSUME Contains(c, x) PROVE Contains(s, x) \/ x = e
    <3>1. PICK i \in 1..Len(c) : c[i] = x
      BY <2>1 DEF Contains
    <3>2. CASE i = 1
      BY <1>1, <3>1, <3>2
    <3>3. CASE i # 1
      BY <1>1, <3>1, <3>3 DEF Contains
    <3> QED
      BY <3>2, <3>3
  <2>2. ASSUME Contains(s, x) PROVE Contains(c, x)
    <3>1. PICK i \in 1..Len(s) : s[i] = x
      BY <2>2 DEF Contains
    <3>2. i + 1 \in 1..Len(c) /\ c[i + 1] = x
      BY <1>1, <3>1
    <3> QED
      BY <3>2 DEF Contains
  <2>3. Contains(c, e)
    BY <1>1 DEF Contains
  <2> QED
    BY <2>1, <2>2, <2>3
<1>3. ASSUME IsInjective(s), ~Contains(s, e) PROVE IsInjective(c)
  <2> SUFFICES ASSUME NEW i \in 1..Len(c), NEW j \in 1..Len(c), c[i] = c[j]
               PROVE  i = j
    BY <1>1 DEF IsInjective
  <2>1. \A n \in 2..Len(c) : c[n] # e
    BY <1>1, <1>3 DEF Contains
  <2>2. CASE i = 1 \/ j = 1
    BY <1>1, <2>1, <2>2
  <2>3. CASE i # 1 /\ j # 1
    BY <1>1, <1>3, <2>3 DEF IsInjective
  <2> QED
    BY <2>2, <2>3
<1> QED
  BY <1>1, <1>2, <1>3

\* The part of a list before position n, and the part from position m on.
LEMMA SplitLemma ==
  ASSUME NEW S, NEW s \in Seq(S), NEW n \in 1..Len(s), NEW m \in 1..(Len(s) + 1)
  PROVE  /\ SubSeq(s, 1, n - 1) \in Seq(S)
         /\ Len(SubSeq(s, 1, n - 1)) = n - 1
         /\ \A i \in 1..(n - 1) : SubSeq(s, 1, n - 1)[i] = s[i]
         /\ SubSeq(s, m, Len(s)) \in Seq(S)
         /\ Len(SubSeq(s, m, Len(s))) = Len(s) - m + 1
         /\ \A i \in 1..(Len(s) - m + 1) : SubSeq(s, m, Len(s))[i] = s[m + i - 1]
<1>1. Len(s) \in Nat /\ n \in Int /\ m \in Int
  OBVIOUS
<1>2. \A i \in 1..(n - 1) : s[i] \in S
  BY <1>1, ElementOfSeq
<1>3. \A i \in m..Len(s) : s[i] \in S
  BY <1>1, ElementOfSeq
<1>4. /\ SubSeq(s, 1, n - 1) \in Seq(S)
      /\ Len(SubSeq(s, 1, n - 1)) = IF 1 <= n - 1 THEN n - 1 - 1 + 1 ELSE 0
      /\ \A i \in 1..(n - 1 - 1 + 1) : SubSeq(s, 1, n - 1)[i] = s[1 + i - 1]
  BY <1>1, <1>2, SubSeqProperties
<1>5. /\ SubSeq(s, m, Len(s)) \in Seq(S)
      /\ Len(SubSeq(s, m, Len(s))) = IF m <= Len(s) THEN Len(s) - m + 1 ELSE 0
      /\ \A i \in 1..(Len(s) - m + 1) : SubSeq(s, m, Len(s))[i] = s[m + i - 1]
  BY <1>1, <1>3, SubSeqProperties
<1> QED
  BY <1>1, <1>4, <1>5

\* What InsertAt adds, and that it keeps a sequence injective.
LEMMA InsertAtLemma ==
  ASSUME NEW S, NEW s \in Seq(S), NEW e \in S, NEW n \in 1..Len(s)
  PROVE  /\ InsertAt(s, n, e) \in Seq(S)
         /\ Len(InsertAt(s, n, e)) = Len(s) + 1
         /\ \A i \in 1..(Len(s) + 1) :
              InsertAt(s, n, e)[i] = IF i < n THEN s[i] ELSE IF i = n THEN e ELSE s[i - 1]
         /\ \A x : Contains(InsertAt(s, n, e), x) <=> Contains(s, x) \/ x = e
         /\ IsInjective(s) /\ ~Contains(s, e) => IsInjective(InsertAt(s, n, e))
<1> DEFINE r == InsertAt(s, n, e)
<1>1. /\ r \in Seq(S)
      /\ Len(r) = Len(s) + 1
      /\ \A i \in 1..Len(r) : r[i] = IF i < n THEN s[i] ELSE IF i = n THEN e ELSE s[i - 1]
  <2> DEFINE u == SubSeq(s, 1, n - 1)
             w == SubSeq(s, n, Len(s))
  <2>0. Len(s) \in Nat /\ n \in 1..(Len(s) + 1)
    OBVIOUS
  <2>1. /\ u \in Seq(S) /\ Len(u) = n - 1
        /\ \A i \in 1..(n - 1) : u[i] = s[i]
        /\ w \in Seq(S) /\ Len(w) = Len(s) - n + 1
        /\ \A i \in 1..(Len(s) - n + 1) : w[i] = s[n + i - 1]
    BY <2>0, SplitLemma
  <2>2. r = (u \o <<e>>) \o w
    BY DEF InsertAt
  <2>3. <<e>> \in Seq(S) /\ Len(<<e>>) = 1 /\ <<e>>[1] = e
    OBVIOUS
  <2> HIDE DEF u, w, r
  <2>4. /\ u \o <<e>> \in Seq(S) /\ Len(u \o <<e>>) = n
        /\ \A i \in 1..n : (u \o <<e>>)[i] = IF i < n THEN s[i] ELSE e
    BY <2>0, <2>1, <2>3, ConcatProperties
  <2>5. /\ r \in Seq(S) /\ Len(r) = n + (Len(s) - n + 1)
        /\ \A i \in 1..(n + (Len(s) - n + 1)) :
             r[i] = IF i <= n THEN (u \o <<e>>)[i] ELSE w[i - n]
    BY <2>0, <2>1, <2>2, <2>4, ConcatProperties
  <2>6. ASSUME NEW i \in 1..(Len(s) + 1)
        PROVE  r[i] = IF i < n THEN s[i] ELSE IF i = n THEN e ELSE s[i - 1]
    <3>1. CASE i <= n
      BY <2>0, <2>4, <2>5, <3>1
    <3>2. CASE i > n
      <4>1. i - n \in 1..(Len(s) - n + 1) /\ n + (i - n) - 1 = i - 1
        BY <2>0, <3>2
      <4>2. w[i - n] = s[i - 1]
        BY <2>1, <4>1
      <4> QED
        BY <2>0, <2>5, <3>2, <4>2
    <3> QED
      BY <2>0, <3>1, <3>2
  <2>7. n + (Len(s) - n + 1) = Len(s) + 1
    BY <2>0
  <2> QED
    BY <2>5, <2>6, <2>7
<1>2. \A x : Contains(r, x) <=> Contains(s, x) \/ x = e
  <2> TAKE x
  <2>1. ASSUME Contains(r, x) PROVE Contains(s, x) \/ x = e
    <3>1. PICK i \in 1..Len(r) : r[i] = x
      BY <2>1 DEF Contains
    <3>2. CASE i < n
      BY <1>1, <3>1, <3>2 DEF Contains
    <3>3. CASE i > n
      BY <1>1, <3>1, <3>3 DEF Contains
    <3>4. CASE i = n
      BY <1>1, <3>1, <3>4
    <3> QED
      BY <3>2, <3>3, <3>4
  <2>2. ASSUME NEW i \in 1..Len(s), s[i] = x PROVE Contains(r, x)
    <3>1. CASE i < n
      BY <1>1, <2>2, <3>1 DEF Contains
    <3>2. CASE i >= n
      <4>1. i + 1 \in 1..Len(r) /\ r[i + 1] = x
        BY <1>1, <2>2, <3>2
      <4> QED
        BY <4>1 DEF Contains
    <3> QED
      BY <3>1, <3>2
  <2>3. Contains(r, e)
    <3>1. n \in 1..Len(r) /\ r[n] = e
      BY <1>1
    <3> QED
      BY <3>1 DEF Contains
  <2> QED
    BY <2>1, <2>2, <2>3 DEF Contains
<1>3. ASSUME IsInjective(s), ~Contains(s, e) PROVE IsInjective(r)
  <2> SUFFICES ASSUME NEW i \in 1..Len(r), NEW j \in 1..Len(r), r[i] = r[j]
               PROVE  i = j
    BY <1>1 DEF IsInjective
  <2>1. \A m \in 1..Len(s) : s[m] # e
    BY <1>3 DEF Contains
  <2>0. Len(s) \in Nat /\ DOMAIN s = 1..Len(s)
    OBVIOUS
  <2> HIDE DEF r
  <2>2. CASE i = n \/ j = n
    BY <1>1, <2>0, <2>1, <2>2
  <2>3. CASE i # n /\ j # n
    <3>1. \A m \in 1..Len(r) : m # n =>
            \E q \in 1..Len(s) : r[m] = s[q] /\ q = IF m < n THEN m ELSE m - 1
      BY <1>1, <2>0
    <3> QED
      BY <1>3, <2>0, <2>3, <3>1 DEF IsInjective
  <2> QED
    BY <2>2, <2>3
<1> QED
  BY <1>1, <1>2, <1>3

\* RemoveAt, position by position.
LEMMA RemoveAtLemma ==
  ASSUME NEW S, NEW s \in Seq(S), NEW n \in 1..Len(s)
  PROVE  /\ RemoveAt(s, n) \in Seq(S)
         /\ Len(RemoveAt(s, n)) = Len(s) - 1
         /\ \A i \in 1..(Len(s) - 1) : RemoveAt(s, n)[i] = IF i < n THEN s[i] ELSE s[i + 1]
<1> DEFINE u == SubSeq(s, 1, n - 1)
           w == SubSeq(s, n + 1, Len(s))
<1>0. Len(s) \in Nat /\ n \in Int /\ n + 1 \in 1..(Len(s) + 1)
  OBVIOUS
<1>1. /\ u \in Seq(S) /\ Len(u) = n - 1
      /\ \A i \in 1..(n - 1) : u[i] = s[i]
      /\ w \in Seq(S) /\ Len(w) = Len(s) - (n + 1) + 1
      /\ \A i \in 1..(Len(s) - (n + 1) + 1) : w[i] = s[(n + 1) + i - 1]
  BY <1>0, SplitLemma
<1>2. RemoveAt(s, n) = u \o w
  BY DEF RemoveAt
<1> HIDE DEF u, w
<1>3. /\ u \o w \in Seq(S)
      /\ Len(u \o w) = Len(u) + Len(w)
      /\ \A i \in 1..(Len(u) + Len(w)) :
           (u \o w)[i] = IF i <= Len(u) THEN u[i] ELSE w[i - Len(u)]
  BY <1>1, ConcatProperties, Zenon
<1>4. Len(u) + Len(w) = Len(s) - 1
  BY <1>0, <1>1
<1>5. ASSUME NEW i \in 1..(Len(s) - 1)
      PROVE  (u \o w)[i] = IF i < n THEN s[i] ELSE s[i + 1]
  <2>1. (u \o w)[i] = IF i <= n - 1 THEN u[i] ELSE w[i - (n - 1)]
    BY <1>1, <1>3, <1>4
  <2>2. CASE i < n
    BY <1>0, <1>1, <2>1, <2>2
  <2>3. CASE i >= n
    <3>1. i - (n - 1) \in 1..(Len(s) - (n + 1) + 1)
      BY <1>0, <2>3
    <3>2. w[i - (n - 1)] = s[(n + 1) + (i - (n - 1)) - 1]
      BY <1>1, <3>1
    <3>3. (n + 1) + (i - (n - 1)) - 1 = i + 1
      BY <1>0
    <3> QED
      BY <1>0, <2>1, <2>3, <3>2, <3>3
  <2>4. i < n \/ i >= n
    BY <1>0
  <2> QED
    BY <2>2, <2>3, <2>4
<1> QED
  BY <1>2, <1>3, <1>4, <1>5

\* What is left after position n is taken out.
LEMMA RemoveAtElements ==
  ASSUME NEW S, NEW s \in Seq(S), NEW n \in 1..Len(s)
  PROVE  /\ \A i \in 1..Len(RemoveAt(s, n)) : \E j \in 1..Len(s) : j # n /\ RemoveAt(s, n)[i] = s[j]
         /\ \A j \in 1..Len(s) : j # n => \E i \in 1..Len(RemoveAt(s, n)) : RemoveAt(s, n)[i] = s[j]
<1> DEFINE r == RemoveAt(s, n)
<1>1. /\ Len(r) = Len(s) - 1
      /\ \A i \in 1..(Len(s) - 1) : r[i] = IF i < n THEN s[i] ELSE s[i + 1]
  BY RemoveAtLemma
<1>2. ASSUME NEW i \in 1..Len(r) PROVE \E j \in 1..Len(s) : j # n /\ r[i] = s[j]
  <2>1. CASE i < n
    BY <1>1, <2>1
  <2>2. CASE i >= n
    <3>1. i + 1 \in 1..Len(s) /\ i + 1 # n /\ r[i] = s[i + 1]
      BY <1>1, <2>2
    <3> QED
      BY <3>1
  <2> QED
    BY <2>1, <2>2
<1>3. ASSUME NEW j \in 1..Len(s), j # n PROVE \E i \in 1..Len(r) : r[i] = s[j]
  <2>1. CASE j < n
    BY <1>1, <2>1
  <2>2. CASE j > n
    <3>1. j - 1 \in 1..Len(r) /\ r[j - 1] = s[j]
      BY <1>1, <2>2
    <3> QED
      BY <3>1
  <2> QED
    BY <1>3, <2>1, <2>2
<1> QED
  BY <1>2, <1>3

\* RemoveFirst takes one occurrence away, and nothing else.
LEMMA RemoveFirstLemma ==
  ASSUME NEW S, NEW s \in Seq(S), NEW e, IsInjective(s)
  PROVE  /\ RemoveFirst(s, e) \in Seq(S)
         /\ IsInjective(RemoveFirst(s, e))
         /\ \A x : Contains(RemoveFirst(s, e), x) <=> Contains(s, x) /\ x # e
<1>1. CASE ~Contains(s, e)
  BY <1>1 DEF RemoveFirst, Contains
<1>2. CASE Contains(s, e)
  <2>1. PICK n \in 1..Len(s) : s[n] = e
    BY <1>2 DEF Contains
  <2>2. {i \in 1..Len(s) : s[i] = e} = {n}
    BY <2>1 DEF IsInjective
  <2>3. Min({n}) = n
    BY DEF Min
  <2>4. RemoveFirst(s, e) = RemoveAt(s, n)
    BY <2>1, <2>2, <2>3 DEF RemoveFirst, SelectInSeq
  <2>5. RemoveAt(s, n) \in Seq(S)
    BY RemoveAtLemma
  <2>6. IsInjective(RemoveAt(s, n))
    <3> DEFINE r == RemoveAt(s, n)
    <3>0. n \in Int
      OBVIOUS
    <3>1. /\ Len(s) \in Nat /\ DOMAIN s = 1..Len(s)
          /\ r \in Seq(S) /\ Len(r) = Len(s) - 1 /\ DOMAIN r = 1..Len(r)
          /\ \A i \in 1..(Len(s) - 1) : r[i] = IF i < n THEN s[i] ELSE s[i + 1]
      BY RemoveAtLemma
    <3> HIDE DEF r
    <3>2. \A i \in 1..Len(r) :
            \E j \in 1..Len(s) : r[i] = s[j] /\ j = IF i < n THEN i ELSE i + 1
      BY <3>1
    <3>3. IsInjective(r)
      <4> SUFFICES ASSUME NEW i \in 1..Len(r), NEW j \in 1..Len(r), r[i] = r[j]
                   PROVE  i = j
        BY <3>1 DEF IsInjective
      <4> DEFINE f(q) == IF q < n THEN q ELSE q + 1
      <4>1. f(i) \in 1..Len(s) /\ f(j) \in 1..Len(s) /\ s[f(i)] = s[f(j)]
        BY <3>0, <3>1
      <4>2. f(i) = f(j)
        BY <3>1, <4>1 DEF IsInjective
      <4> QED
        BY <3>0, <3>1, <4>2
    <3> QED
      BY <3>3 DEF r
  <2>7. \A x : Contains(RemoveAt(s, n), x) <=> Contains(s, x) /\ x # e
    <3> TAKE x
    <3>1. ASSUME Contains(RemoveAt(s, n), x) PROVE Contains(s, x) /\ x # e
      BY <2>1, <3>1, RemoveAtElements DEF Contains, IsInjective
    <3>2. ASSUME Contains(s, x), x # e PROVE Contains(RemoveAt(s, n), x)
      BY <2>1, <3>2, RemoveAtElements DEF Contains
    <3> QED
      BY <3>1, <3>2
  <2> QED
    BY <2>4, <2>5, <2>6, <2>7
<1> QED
  BY <1>1, <1>2

\* What RemoveFirst leaves stands in the order it stood in.
LEMMA RemoveFirstOrder ==
  ASSUME NEW S, NEW s \in Seq(S), NEW e, IsInjective(s)
  PROVE  \A i, j \in DOMAIN RemoveFirst(s, e) : i < j =>
           \E a, b \in DOMAIN s :
             a < b /\ RemoveFirst(s, e)[i] = s[a] /\ RemoveFirst(s, e)[j] = s[b]
<1>1. CASE ~Contains(s, e)
  BY <1>1 DEF RemoveFirst, Contains
<1>2. CASE Contains(s, e)
  <2>1. PICK n \in 1..Len(s) : s[n] = e
    BY <1>2 DEF Contains
  <2>2. {i \in 1..Len(s) : s[i] = e} = {n}
    BY <2>1 DEF IsInjective
  <2>3. Min({n}) = n
    BY DEF Min
  <2> DEFINE r == RemoveFirst(s, e)
             f(q) == IF q < n THEN q ELSE q + 1
  <2>4. r = RemoveAt(s, n)
    BY <2>1, <2>2, <2>3 DEF RemoveFirst, SelectInSeq
  <2> HIDE DEF r
  <2>5. /\ Len(s) \in Nat /\ n \in Int /\ DOMAIN s = 1..Len(s)
        /\ r \in Seq(S) /\ Len(r) = Len(s) - 1 /\ DOMAIN r = 1..Len(r)
        /\ \A i \in 1..(Len(s) - 1) : r[i] = IF i < n THEN s[i] ELSE s[i + 1]
    BY <2>4, RemoveAtLemma
  <2>6. \A i \in DOMAIN r : f(i) \in DOMAIN s /\ r[i] = s[f(i)]
    BY <2>5
  <2>7. \A i, j \in DOMAIN r : i < j => f(i) < f(j)
    BY <2>5
  <2> HIDE DEF f
  <2>8. \A i, j \in DOMAIN r : i < j => \E a, b \in DOMAIN s : a < b /\ r[i] = s[a] /\ r[j] = s[b]
    BY <2>6, <2>7
  <2> QED
    BY <2>8 DEF r
<1> QED
  BY <1>1, <1>2

-----------------------------------------------------------------------------
(* Order in a list *)

\* a stands before b.
Ahead(l, a, b) == \E i, j \in DOMAIN l : i < j /\ l[i] = a /\ l[j] = b

\* Of two elements of a list without repetitions one stands before the other.
LEMMA AheadTotal ==
  ASSUME NEW S, NEW l \in Seq(S), IsInjective(l), NEW a, NEW b
  PROVE  /\ Ahead(l, a, b) => Contains(l, a) /\ Contains(l, b) /\ ~Ahead(l, b, a) /\ a # b
         /\ Contains(l, a) /\ Contains(l, b) /\ a # b => Ahead(l, a, b) \/ Ahead(l, b, a)
<1>1. DOMAIN l = 1..Len(l) /\ Len(l) \in Nat
  OBVIOUS
<1>2. \A i, j \in DOMAIN l : l[i] = l[j] => i = j
  BY DEF IsInjective
<1>3. ASSUME Ahead(l, a, b) PROVE Contains(l, a) /\ Contains(l, b) /\ ~Ahead(l, b, a) /\ a # b
  BY <1>1, <1>2, <1>3 DEF Ahead, Contains
<1>4. ASSUME Contains(l, a), Contains(l, b), a # b PROVE Ahead(l, a, b) \/ Ahead(l, b, a)
  BY <1>1, <1>4 DEF Ahead, Contains
<1> QED
  BY <1>3, <1>4

\* The positions CHOOSE finds of two elements are in the order of the elements.
LEMMA AheadPositions ==
  ASSUME NEW S, NEW l \in Seq(S), IsInjective(l), NEW a, Contains(l, a), NEW b, Contains(l, b)
  PROVE  Ahead(l, a, b) <=>
           (CHOOSE i \in DOMAIN l : l[i] = a) < (CHOOSE i \in DOMAIN l : l[i] = b)
<1>1. DOMAIN l = 1..Len(l) /\ Len(l) \in Nat
  OBVIOUS
<1>2. \A i, j \in DOMAIN l : l[i] = l[j] => i = j
  BY DEF IsInjective
<1> DEFINE m == CHOOSE i \in DOMAIN l : l[i] = a
           n == CHOOSE i \in DOMAIN l : l[i] = b
<1>3. m \in DOMAIN l /\ l[m] = a
  BY <1>1 DEF Contains
<1>4. n \in DOMAIN l /\ l[n] = b
  BY <1>1 DEF Contains
<1> HIDE DEF m, n
<1>5. Ahead(l, a, b) <=> m < n
  BY <1>2, <1>3, <1>4 DEF Ahead
<1> QED
  BY <1>5 DEF m, n

\* An element appended stands before nobody, and nobody else moves.
LEMMA AppendAhead ==
  ASSUME NEW S, NEW l \in Seq(S), NEW e \in S
  PROVE  \A a, b : b # e => (Ahead(Append(l, e), a, b) <=> Ahead(l, a, b))
<1> DEFINE c == Append(l, e)
<1>1. /\ c \in Seq(S) /\ Len(c) = Len(l) + 1 /\ c[Len(l) + 1] = e
      /\ \A i \in 1..Len(l) : c[i] = l[i]
      /\ DOMAIN l = 1..Len(l) /\ DOMAIN c = 1..Len(c) /\ Len(l) \in Nat
  OBVIOUS
<1> HIDE DEF c
<1>2. ASSUME NEW a, NEW b, b # e PROVE Ahead(c, a, b) <=> Ahead(l, a, b)
  <2>1. ASSUME Ahead(c, a, b) PROVE Ahead(l, a, b)
    <3>1. PICK i, j \in DOMAIN c : i < j /\ c[i] = a /\ c[j] = b
      BY <2>1 DEF Ahead
    <3>2. j # Len(l) + 1
      BY <1>1, <1>2, <3>1
    <3>3. i \in 1..Len(l) /\ j \in 1..Len(l)
      BY <1>1, <3>1, <3>2
    <3> QED
      BY <1>1, <3>1, <3>3 DEF Ahead
  <2>2. ASSUME Ahead(l, a, b) PROVE Ahead(c, a, b)
    <3>1. PICK i, j \in DOMAIN l : i < j /\ l[i] = a /\ l[j] = b
      BY <2>2 DEF Ahead
    <3>2. i \in DOMAIN c /\ j \in DOMAIN c /\ c[i] = a /\ c[j] = b
      BY <1>1, <3>1
    <3> QED
      BY <3>1, <3>2 DEF Ahead
  <2> QED
    BY <2>1, <2>2
<1> QED
  BY <1>2 DEF c

\* An element put in front stands before everybody, and nobody else moves.
LEMMA ConsAhead ==
  ASSUME NEW S, NEW l \in Seq(S), NEW e \in S
  PROVE  \A a, b : b # e =>
           (Ahead(Cons(e, l), a, b) <=> Ahead(l, a, b) \/ (a = e /\ Contains(l, b)))
<1> DEFINE c == Cons(e, l)
<1>1. /\ c \in Seq(S) /\ Len(c) = Len(l) + 1 /\ c[1] = e
      /\ \A i \in 1..Len(l) : c[i + 1] = l[i]
      /\ \A i \in 2..Len(c) : c[i] = l[i - 1]
      /\ DOMAIN l = 1..Len(l) /\ DOMAIN c = 1..Len(c) /\ Len(l) \in Nat
  BY DEF Cons
<1> HIDE DEF c
<1>2. ASSUME NEW a, NEW b, b # e
      PROVE  Ahead(c, a, b) <=> Ahead(l, a, b) \/ (a = e /\ Contains(l, b))
  <2>1. ASSUME Ahead(c, a, b) PROVE Ahead(l, a, b) \/ (a = e /\ Contains(l, b))
    <3>1. PICK i, j \in DOMAIN c : i < j /\ c[i] = a /\ c[j] = b
      BY <2>1 DEF Ahead
    <3>2. j \in 2..Len(c) /\ j - 1 \in 1..Len(l) /\ l[j - 1] = b
      BY <1>1, <3>1
    <3>3. CASE i = 1
      BY <1>1, <3>1, <3>2, <3>3 DEF Contains
    <3>4. CASE i # 1
      <4>1. i - 1 \in 1..Len(l) /\ l[i - 1] = a /\ i - 1 < j - 1
        BY <1>1, <3>1, <3>4
      <4> QED
        BY <1>1, <3>2, <4>1 DEF Ahead
    <3> QED
      BY <3>3, <3>4
  <2>2. ASSUME Ahead(l, a, b) PROVE Ahead(c, a, b)
    <3>1. PICK i, j \in DOMAIN l : i < j /\ l[i] = a /\ l[j] = b
      BY <2>2 DEF Ahead
    <3>2. i + 1 \in DOMAIN c /\ j + 1 \in DOMAIN c /\ c[i + 1] = a /\ c[j + 1] = b /\ i + 1 < j + 1
      BY <1>1, <3>1
    <3> QED
      BY <3>2 DEF Ahead
  <2>3. ASSUME a = e, Contains(l, b) PROVE Ahead(c, a, b)
    <3>1. PICK j \in 1..Len(l) : l[j] = b
      BY <2>3 DEF Contains
    <3>2. 1 \in DOMAIN c /\ j + 1 \in DOMAIN c /\ c[1] = a /\ c[j + 1] = b /\ 1 < j + 1
      BY <1>1, <2>3, <3>1
    <3> QED
      BY <3>2 DEF Ahead
  <2> QED
    BY <2>1, <2>2, <2>3
<1> QED
  BY <1>2 DEF c

\* What RemoveFirst leaves stands in the order it stood in.
LEMMA RemoveAhead ==
  ASSUME NEW S, NEW l \in Seq(S), IsInjective(l), NEW e
  PROVE  \A a, b : a # e /\ b # e => (Ahead(RemoveFirst(l, e), a, b) <=> Ahead(l, a, b))
<1> DEFINE c == RemoveFirst(l, e)
<1>1. /\ c \in Seq(S) /\ IsInjective(c)
      /\ \A x : Contains(c, x) <=> Contains(l, x) /\ x # e
  BY RemoveFirstLemma
<1>2. \A i, j \in DOMAIN c : i < j =>
        \E m, n \in DOMAIN l : m < n /\ c[i] = l[m] /\ c[j] = l[n]
  BY RemoveFirstOrder
<1> HIDE DEF c
<1>3. \A a, b : Ahead(c, a, b) => Ahead(l, a, b)
  BY <1>2 DEF Ahead
<1>4. ASSUME NEW a, NEW b, a # e, b # e, Ahead(l, a, b) PROVE Ahead(c, a, b)
  <2>1. Contains(l, a) /\ Contains(l, b) /\ ~Ahead(l, b, a) /\ a # b
    BY <1>4, AheadTotal
  <2>2. Ahead(c, a, b) \/ Ahead(c, b, a)
    BY <1>1, <1>4, <2>1, AheadTotal
  <2> QED
    BY <1>3, <2>1, <2>2
<1> QED
  BY <1>3, <1>4 DEF c

-----------------------------------------------------------------------------
(* Remainders and rings *)

\* A remainder, near zero and in general.
LEMMA ModLemma ==
  ASSUME NEW R \in Nat \ {0}, NEW a \in Int
  PROVE  /\ a \in 0..(R - 1) => a % R = a
         /\ a \in R..(2 * R - 1) => a % R = a - R
         /\ a \in (-R)..(-1) => a % R = a + R
         /\ a % R \in 0..(R - 1) /\ a \div R \in Int /\ a = R * (a \div R) + (a % R)
<1>1. a \in 0..(R - 1) => a % R = a
  OBVIOUS
<1>2. a \in R..(2 * R - 1) => a % R = a - R
  OBVIOUS
<1>3. a \in (-R)..(-1) => a % R = a + R
  OBVIOUS
<1>4. a % R \in 0..(R - 1) /\ a \div R \in Int /\ a = R * (a \div R) + (a % R)
  OBVIOUS
<1> QED
  BY <1>1, <1>2, <1>3, <1>4

\* The remainder is the only number of its range that differs by a multiple.
LEMMA ModUnique ==
  ASSUME NEW R \in Nat \ {0}, NEW q \in Int, NEW r \in 0..(R - 1)
  PROVE  (R * q + r) % R = r
  OBVIOUS

\* Multiplication distributes and associates.
LEMMA TimesLemma ==
  ASSUME NEW x \in Int, NEW y \in Int, NEW z \in Int
  PROVE  x * (y + z) = x * y + x * z /\ (x * y) * z = x * (y * z) /\ x * y \in Int
<1>1. x * (y + z) = x * y + x * z
  OBVIOUS
<1>2. (x * y) * z = x * (y * z)
  OBVIOUS
<1> QED
  BY <1>1, <1>2

\* Numbers less than R apart have different remainders.
LEMMA ModDiffer ==
  ASSUME NEW R \in Nat \ {0}, NEW a \in Int, NEW b \in Int, a < b, b < a + R
  PROVE  a % R # b % R
<1> SUFFICES ASSUME a % R = b % R PROVE FALSE
  OBVIOUS
<1> DEFINE p == a \div R
           q == b \div R
           r == a % R
<1>1. /\ p \in Int /\ q \in Int /\ r \in Int
      /\ a = R * p + r /\ b = R * q + r
  BY ModLemma
<1> HIDE DEF p, q, r
<1>2. CASE q <= p
  <2>1. R * q <= R * p
    BY <1>1, <1>2
  <2> QED
    BY <1>1, <2>1
<1>3. CASE q >= p + 1
  <2>1. R * q >= R * (p + 1)
    BY <1>1, <1>3
  <2>2. R * (p + 1) = R * p + R
    BY <1>1
  <2>3. R * p \in Int /\ R * q \in Int
    BY <1>1
  <2> QED
    BY <1>1, <2>1, <2>2, <2>3
<1> QED
  BY <1>1, <1>2, <1>3

\* a and b are a multiple of R apart.
Apart(a, b, R) == \E p \in Int : a = R * p + b

\* A multiple of R more or less leaves the remainder as it is.
LEMMA ModMultiple ==
  ASSUME NEW R \in Nat \ {0}, NEW a \in Int, NEW b \in Int, Apart(a, b, R)
  PROVE  a % R = b % R
<1>0. PICK p \in Int : a = R * p + b
  BY DEF Apart
<1> DEFINE d == b \div R
           r == b % R
<1>1. d \in Int /\ r \in 0..(R - 1) /\ b = R * d + r
  BY ModLemma
<1> HIDE DEF d, r
<1>2. a = R * (p + d) + r
  <2>1. R * (p + d) = R * p + R * d /\ R * p \in Int /\ R * d \in Int
    BY <1>1, TimesLemma
  <2> QED
    BY <1>0, <1>1, <2>1
<1>3. (R * (p + d) + r) % R = r
  BY <1>1, ModUnique
<1> QED
  BY <1>2, <1>3 DEF r

Rem(a, m) == a % m
Under(m) == 0..(m - 1)

\* The slots of a ring and the range of its indices.
RingSizes(B, R) == B \in Nat \ {0} /\ R \in Nat \ {0} /\ R % B = 0

\* An index and the number it stands for have the same slot.
LEMMA SlotLemma ==
  ASSUME NEW B, NEW R, RingSizes(B, R),
         NEW a \in Int
  PROVE  /\ Rem(a, B) \in Under(B) /\ Rem(a, R) \in Under(R)
         /\ Rem(Rem(a, R), B) = Rem(a, B)
         /\ \A i \in Int : Rem(Rem(a, R) + i, B) = Rem(a + i, B)
         /\ \A i \in Int : 0 < i /\ i < B => Rem(a, B) # Rem(a + i, B)
<1> DEFINE n == R \div B
           q == a \div R
           w == a % R
<1>1. B \in Nat \ {0} /\ R \in Nat \ {0} /\ R % B = 0
  BY DEF RingSizes
<1>2. n \in Int /\ R = B * n
  <2>1. R = B * n + (R % B) /\ n \in Int
    BY <1>1, ModLemma
  <2> QED
    BY <1>1, <2>1, TimesLemma
<1>3. q \in Int /\ w \in 0..(R - 1) /\ a = R * q + w
  BY <1>1, ModLemma
<1> HIDE DEF n, q, w
<1> DEFINE p == n * q
<1>0. a \in Int
  OBVIOUS
<1>4. R * q = B * p /\ p \in Int
  BY <1>1, <1>2, <1>3, TimesLemma
<1> DEFINE m == R * q
<1>m. m \in Int /\ m = B * p /\ a = m + w
  BY <1>1, <1>3, <1>4, TimesLemma
<1> HIDE DEF m, p
<1>5. ASSUME NEW i \in Int PROVE (w + i) % B = (a + i) % B
  <2> DEFINE x == a + i
             y == w + i
  <2>1. x \in Int /\ y \in Int /\ x = m + y
    BY <1>3, <1>m
  <2> HIDE DEF x, y
  <2>2. Apart(x, y, B)
    BY <1>4, <1>m, <2>1 DEF Apart
  <2>3. x % B = y % B
    BY ONLY <1>1, <2>1, <2>2, ModMultiple
  <2> QED
    BY <2>3 DEF x, y
<1>6. w % B = a % B
  <2>1. w \in Int
    BY <1>3
  <2>2. Apart(a, w, B)
    BY <1>4, <1>m DEF Apart
  <2> QED
    BY ONLY <1>0, <1>1, <2>1, <2>2, ModMultiple
<1>7. ASSUME NEW i \in Int, 0 < i, i < B PROVE a % B # (a + i) % B
  <2> DEFINE x == a + i
  <2>1. x \in Int /\ a < x /\ x < a + B
    BY <1>1, <1>7
  <2> HIDE DEF x
  <2>2. a % B # x % B
    BY ONLY <1>1, <2>1, <1>0, ModDiffer
  <2> QED
    BY <2>2 DEF x
<1>8. a % B \in 0..(B - 1)
  BY <1>1, ModLemma
<1> QED
  BY <1>3, <1>5, <1>6, <1>7, <1>8 DEF Rem, Under, w

\* The index after an index.
LEMMA NextIndex ==
  ASSUME NEW B, NEW R, RingSizes(B, R),
         NEW i \in Under(R)
  PROVE  Rem(i + 1, R) \in Under(R)
<1> DEFINE a == i + 1
<1>1. a \in Int
  BY DEF RingSizes, Under
<1> HIDE DEF a
<1>2. Rem(a, R) \in Under(R)
  BY <1>1, SlotLemma
<1> QED
  BY <1>2 DEF a

\* The distance of two indices, and what the moves of head and tail make of it.
LEMMA DistanceLemma ==
  ASSUME NEW B, NEW R, RingSizes(B, R),
         NEW head \in Under(R), NEW tail \in Under(R), NEW n, n = Rem(head - tail, R)
  PROVE  /\ n \in Under(R) /\ head = Rem(tail + n, R)
         /\ n + 1 < R => /\ Rem(Rem(head + 1, R) - tail, R) = n + 1
                                  /\ Rem(head + 1 - tail, R) = n + 1
         /\ n > 0 => Rem(head - Rem(tail + 1, R), R) = n - 1
<1>1. R \in Nat \ {0} /\ head \in 0..(R - 1) /\ tail \in 0..(R - 1)
  BY DEF RingSizes, Under
<1>2. \A a \in Int : Rem(a, R) = a % R
  BY DEF Rem
<1>3. \A a \in Int : /\ a \in 0..(R - 1) => Rem(a, R) = a
                     /\ a \in R..(2 * R - 1) => Rem(a, R) = a - R
                     /\ a \in (-R)..(-1) => Rem(a, R) = a + R
  <2> SUFFICES ASSUME NEW a \in Int
               PROVE  /\ a \in 0..(R - 1) => a % R = a
                      /\ a \in R..(2 * R - 1) => a % R = a - R
                      /\ a \in (-R)..(-1) => a % R = a + R
    BY <1>2
  <2>1. a \in Int
    OBVIOUS
  <2> QED
    BY ONLY <1>1, <2>1, ModLemma
<1>4. n = IF head >= tail THEN head - tail ELSE head - tail + R
  BY <1>1, <1>3
<1>5. n \in 0..(R - 1)
  BY <1>1, <1>4
<1>6. head = Rem(tail + n, R)
  BY <1>1, <1>3, <1>4
<1>7. Rem(head + 1, R) = (IF head = R - 1 THEN 0 ELSE head + 1)
  BY <1>1, <1>3
<1>8. Rem(tail + 1, R) = (IF tail = R - 1 THEN 0 ELSE tail + 1)
  BY <1>1, <1>3
<1>9. n + 1 < R => Rem(head + 1 - tail, R) = n + 1
  BY <1>1, <1>3, <1>4
<1>10. n + 1 < R => Rem(Rem(head + 1, R) - tail, R) = n + 1
  BY <1>1, <1>3, <1>4, <1>7
<1>11. n > 0 => Rem(head - Rem(tail + 1, R), R) = n - 1
  BY <1>1, <1>3, <1>4, <1>8
<1> QED
  BY <1>5, <1>6, <1>9, <1>10, <1>11 DEF Under

\* The n elements of a ring of B slots from index tail on.
Content(buf, B, tail, n) == [i \in 1..n |-> buf[Rem(tail + i - 1, B)]]

IsContent(c, buf, B, tail, n, S) ==
  c \in Seq(S) /\ Len(c) = n /\ \A i \in 1..n : c[i] = buf[Rem(tail + i - 1, B)]

\* It is a sequence of n elements.
LEMMA ContentLemma ==
  ASSUME NEW B \in Nat \ {0}, NEW S, NEW buf \in [Under(B) -> S], NEW tail \in Int, NEW n \in Nat
  PROVE  IsContent(Content(buf, B, tail, n), buf, B, tail, n, S)
<1>2. ASSUME NEW i \in 1..n PROVE Rem(tail + i - 1, B) \in Under(B)
  <2> DEFINE a == tail + i - 1
  <2>1. a \in Int
    OBVIOUS
  <2> HIDE DEF a
  <2>2. Rem(a, B) \in Under(B)
    BY <2>1, ModLemma DEF Rem, Under
  <2> QED
    BY <2>2 DEF a
<1> QED
  BY <1>2 DEF Content, IsContent

\* new is buf with c stored behind the n bytes from tail on, m is one more than n.
StoredBehind(new, buf, B, tail, n, m, c) ==
  new = [buf EXCEPT ![Rem(tail + n, B)] = c] /\ m = n + 1

\* The m bytes of new are the n bytes of buf, and c.
OneMore(new, buf, B, tail, n, m, c) == Content(new, B, tail, m) = Append(Content(buf, B, tail, n), c)

\* A byte stored at the head is appended, as long as there is room.
LEMMA StoreLemma ==
  ASSUME NEW B, NEW R, RingSizes(B, R),
         NEW S, NEW buf \in [Under(B) -> S], NEW c \in S, NEW tail \in Under(R),
         NEW n \in Nat, n < B, NEW new, NEW m, StoredBehind(new, buf, B, tail, n, m, c)
  PROVE  new \in [Under(B) -> S] /\ OneMore(new, buf, B, tail, n, m, c)
<1> DEFINE s == Rem(tail + n, B)
<1>0. m = n + 1 /\ new = [buf EXCEPT ![s] = c]
  BY DEF StoredBehind
<1>1. tail \in Int /\ tail + n \in Int /\ B \in Nat
  BY DEF RingSizes, Under
<1>2. s = Rem(tail + n, B) /\ s \in Under(B)
  <2> DEFINE a == tail + n
  <2>1. a \in Int
    BY <1>1
  <2> HIDE DEF a
  <2>2. Rem(a, B) \in Under(B)
    BY <2>1, SlotLemma
  <2> QED
    BY <2>2 DEF a
<1>3. ASSUME NEW i \in 1..n
      PROVE  Rem(tail + i - 1, B) \in Under(B) /\ Rem(tail + i - 1, B) # s
  <2> DEFINE a == tail + i - 1
             d == n - i + 1
  <2>1. a \in Int /\ d \in Int /\ 0 < d /\ d < B /\ a + d = tail + n
    BY <1>1
  <2> HIDE DEF a, d
  <2>2. Rem(a, B) \in Under(B) /\ Rem(a, B) # Rem(a + d, B)
    BY <2>1, SlotLemma
  <2> QED
    BY <1>2, <2>1, <2>2 DEF a
<1> HIDE DEF s
<1>4. new \in [Under(B) -> S] /\ new[s] = c
  BY <1>2, <1>0
<1>5. \A i \in 1..n : new[Rem(tail + i - 1, B)] = buf[Rem(tail + i - 1, B)]
  BY <1>3, <1>0
<1>6. tail + (n + 1) - 1 = tail + n
  BY <1>1
<1>7. new[Rem(tail + (n + 1) - 1, B)] = c
  BY <1>2, <1>4, <1>6
<1>8. Content(new, B, tail, m) = Append(Content(buf, B, tail, n), c)
  <2> DEFINE old == Content(buf, B, tail, n)
             got == Content(new, B, tail, m)
             want == Append(old, c)
  <2>0. B \in Nat \ {0} /\ IsContent(old, buf, B, tail, n, S)
    BY <1>1, ContentLemma DEF RingSizes
  <2>1. old \in Seq(S) /\ Len(old) = n /\ \A i \in 1..n : old[i] = buf[Rem(tail + i - 1, B)]
    BY <2>0 DEF IsContent
  <2>2. /\ got \in Seq(S) /\ Len(got) = n + 1
        /\ \A i \in 1..(n + 1) : got[i] = new[Rem(tail + i - 1, B)]
    <3>1. tail \in Int /\ m \in Nat
      BY <1>0, <1>1
    <3>2. IsContent(got, new, B, tail, m, S)
      BY <1>4, <2>0, <3>1, ContentLemma
    <3> QED
      BY <1>0, <3>2 DEF IsContent
  <2> HIDE DEF old, got
  <2>3. /\ want \in Seq(S) /\ Len(want) = n + 1
        /\ \A i \in 1..(n + 1) : want[i] = IF i = n + 1 THEN c ELSE old[i]
    BY <2>1
  <2> HIDE DEF want
  <2>4. ASSUME NEW i \in 1..Len(got) PROVE got[i] = want[i]
    <3>1. i \in 1..(n + 1)
      BY <2>2
    <3>2. CASE i = n + 1
      BY <1>7, <2>2, <2>3, <3>1, <3>2
    <3>3. CASE i \in 1..n
      BY <1>5, <2>1, <2>2, <2>3, <3>1, <3>3
    <3> QED
      BY <3>1, <3>2, <3>3
  <2>5. got = want
    BY ONLY <2>2, <2>3, <2>4, SeqEqual
  <2> QED
    BY <2>5 DEF got, want, old
<1> QED
  BY <1>4, <1>8 DEF OneMore

\* A tail moved on leaves all but the oldest byte.
LEMMA DropLemma ==
  ASSUME NEW B, NEW R, RingSizes(B, R),
         NEW S, NEW buf \in [Under(B) -> S], NEW tail \in Under(R), NEW n \in Nat, n > 0
  PROVE  Content(buf, B, Rem(tail + 1, R), n - 1) = Tail(Content(buf, B, tail, n))
<1> DEFINE next == Rem(tail + 1, R)
           old == Content(buf, B, tail, n)
<1>1. tail \in Int /\ tail + 1 \in Int
  BY DEF RingSizes, Under
<1>2. \A i \in Int : Rem(next + i, B) = Rem(tail + 1 + i, B) /\ Rem(tail + i, B) \in Under(B)
  BY <1>1, SlotLemma
<1>0. B \in Nat \ {0} /\ buf \in [Under(B) -> S]
  BY DEF RingSizes
<1>x. next \in Under(R) /\ next \in Int
  <2>1. next \in Under(R)
    BY NextIndex
  <2> QED
    BY <2>1 DEF RingSizes, Under
<1> HIDE DEF next
<1>3. old \in Seq(S) /\ Len(old) = n /\ \A i \in 1..n : old[i] = buf[Rem(tail + i - 1, B)]
  <2>1. IsContent(old, buf, B, tail, n, S)
    BY <1>0, <1>1, ContentLemma
  <2> QED
    BY <2>1 DEF IsContent
<1>4. ASSUME NEW i \in 1..(n - 1) PROVE buf[Rem(next + i - 1, B)] = old[i + 1]
  <2>1. i - 1 \in Int /\ next + (i - 1) = next + i - 1
    BY <1>x
  <2>2. tail + 1 + (i - 1) = tail + (i + 1) - 1 /\ i + 1 \in 1..n
    BY <1>1
  <2> QED
    BY <1>2, <1>3, <2>1, <2>2
<1> HIDE DEF old
<1> DEFINE got == Content(buf, B, next, n - 1)
           want == Tail(old)
<1>5. /\ got \in Seq(S) /\ Len(got) = n - 1
      /\ \A i \in 1..(n - 1) : got[i] = buf[Rem(next + i - 1, B)]
  <2> DEFINE m == n - 1
  <2>1. m \in Nat
    OBVIOUS
  <2> HIDE DEF m
  <2>2. IsContent(Content(buf, B, next, m), buf, B, next, m, S)
    BY <1>0, <1>x, <2>1, ContentLemma
  <2>3. IsContent(got, buf, B, next, n - 1, S)
    BY <2>2 DEF m
  <2> HIDE DEF got
  <2> QED
    BY <2>3 DEF IsContent
<1> HIDE DEF got
<1>6. want \in Seq(S) /\ Len(want) = n - 1 /\ \A i \in 1..(n - 1) : want[i] = old[i + 1]
  BY <1>3
<1> HIDE DEF want
<1>7. \A i \in 1..Len(got) : got[i] = want[i]
  BY <1>4, <1>5, <1>6
<1>8. got = want
  BY ONLY <1>5, <1>6, <1>7, SeqEqual
<1> QED
  BY <1>8 DEF got, want, next, old

=============================================================================
