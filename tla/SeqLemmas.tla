----------------------------- MODULE SeqLemmas -----------------------------
(***************************************************************************)
(* What the operators on sequences and numbers that the models are built   *)
(* from return: facts the invariance proofs cite by name.                  *)
(***************************************************************************)
EXTENDS Integers, Sequences, SequencesExt, FiniteSetsExt,
        SequenceTheorems, FiniteSetTheorems, WellFoundedInduction, TLAPS

(* A non-empty set of natural numbers has a least element, and Min is it:  *)
(* "the first inbox with that name", "the first mail with that id".        *)
LEMMA MinIsLeast ==
  ASSUME NEW S, S \subseteq Nat, S # {}
  PROVE  Min(S) \in S /\ \A y \in S : Min(S) <= y
<1>1. PICK x \in S : \A y \in S : ~ (<<y, x>> \in OpToRel(<, Nat))
  BY NatLessThanWellFounded, WFMin
<1>2. \A y \in S : x <= y
  <2>1. TAKE y \in S
  <2>2. ~(y < x)
    BY <1>1 DEF OpToRel
  <2> QED
    BY <2>2
<1> QED
  BY <1>2 DEF Min

(* RemoveAt (std::list::erase) drops one element and shifts the later ones *)
(* down by one.                                                            *)
LEMMA RemoveAtProperties ==
  ASSUME NEW S, NEW s \in Seq(S), NEW i \in 1..Len(s)
  PROVE  /\ RemoveAt(s, i) \in Seq(S)
         /\ Len(RemoveAt(s, i)) = Len(s) - 1
         /\ \A j \in 1..(Len(s) - 1) :
              RemoveAt(s, i)[j] = IF j < i THEN s[j] ELSE s[j + 1]
<1> DEFINE a == SubSeq(s, 1, i - 1)
           b == SubSeq(s, i + 1, Len(s))
<1>0. Len(s) \in Nat /\ \A j \in 1..Len(s) : s[j] \in S
  BY LenProperties, ElementOfSeq
<1>1. /\ a \in Seq(S)
      /\ Len(a) = i - 1
      /\ \A j \in 1..(i - 1) : a[j] = s[j]
  <2>1. \A j \in 1..(i - 1) : s[j] \in S
    BY <1>0
  <2>2. /\ a \in Seq(S)
        /\ Len(a) = IF 1 <= i - 1 THEN i - 1 - 1 + 1 ELSE 0
        /\ \A j \in 1..(i - 1 - 1 + 1) : a[j] = s[1 + j - 1]
    BY <1>0, <2>1, SubSeqProperties
  <2> QED
    BY <1>0, <2>2
<1>2. /\ b \in Seq(S)
      /\ Len(b) = Len(s) - i
      /\ \A j \in 1..(Len(s) - i) : b[j] = s[i + j]
  <2>1. \A j \in (i + 1)..Len(s) : s[j] \in S
    BY <1>0
  <2>2. /\ b \in Seq(S)
        /\ Len(b) = IF i + 1 <= Len(s) THEN Len(s) - (i + 1) + 1 ELSE 0
        /\ \A j \in 1..(Len(s) - (i + 1) + 1) : b[j] = s[(i + 1) + j - 1]
    BY <1>0, <2>1, SubSeqProperties
  <2> QED
    BY <1>0, <2>2
<1>3. /\ a \o b \in Seq(S)
      /\ Len(a \o b) = Len(a) + Len(b)
      /\ \A j \in 1..(Len(a) + Len(b)) :
           (a \o b)[j] = IF j <= Len(a) THEN a[j] ELSE b[j - Len(a)]
  BY <1>1, <1>2, ConcatProperties
<1>4. RemoveAt(s, i) = a \o b
  BY DEF RemoveAt
<1> HIDE DEF a, b
<1>5. ASSUME NEW j \in 1..(Len(s) - 1)
      PROVE  (a \o b)[j] = IF j < i THEN s[j] ELSE s[j + 1]
  <2>1. CASE j < i
    BY <2>1, <1>0, <1>1, <1>2, <1>3
  <2>2. CASE j >= i
    <3>1. /\ j - (i - 1) \in 1..(Len(s) - i)
          /\ i + (j - (i - 1)) = j + 1
          /\ j \in 1..((i - 1) + (Len(s) - i))
          /\ ~(j <= i - 1) /\ ~(j < i)
      BY <2>2, <1>0
    <3>2. (a \o b)[j] = b[j - (i - 1)]
      BY <3>1, <1>1, <1>2, <1>3
    <3>3. b[j - (i - 1)] = s[j + 1]
      BY <3>1, <1>2
    <3> QED
      BY <3>1, <3>2, <3>3
  <2>3. j < i \/ j >= i
    BY <1>0
  <2> QED
    BY <2>1, <2>2, <2>3
<1> QED
  BY <1>0, <1>1, <1>2, <1>3, <1>4, <1>5

(* Every element of the sequence but the one removed is still there, and   *)
(* nothing else.                                                           *)
LEMMA RemoveAtKeeps ==
  ASSUME NEW S, NEW s \in Seq(S), NEW i \in 1..Len(s)
  PROVE  /\ \A j \in 1..Len(s) : j # i =>
              \E h \in 1..Len(RemoveAt(s, i)) : RemoveAt(s, i)[h] = s[j]
         /\ \A h \in 1..Len(RemoveAt(s, i)) :
              \E j \in 1..Len(s) : j # i /\ RemoveAt(s, i)[h] = s[j]
<1>0. Len(s) \in Nat
  BY LenProperties
<1>1. /\ Len(RemoveAt(s, i)) = Len(s) - 1
      /\ \A j \in 1..(Len(s) - 1) :
           RemoveAt(s, i)[j] = IF j < i THEN s[j] ELSE s[j + 1]
  BY RemoveAtProperties
<1>2. ASSUME NEW j \in 1..Len(s), j # i
      PROVE  \E h \in 1..(Len(s) - 1) : RemoveAt(s, i)[h] = s[j]
  <2>1. CASE j < i
    BY <1>0, <1>1, <2>1
  <2>2. CASE j > i
    <3>1. j - 1 \in 1..(Len(s) - 1) /\ ~(j - 1 < i) /\ (j - 1) + 1 = j
      BY <1>0, <2>2
    <3> QED
      BY <1>1, <3>1
  <2> QED
    BY <1>0, <1>2, <2>1, <2>2
<1>3. ASSUME NEW h \in 1..(Len(s) - 1)
      PROVE  \E j \in 1..Len(s) : j # i /\ RemoveAt(s, i)[h] = s[j]
  <2>1. CASE h < i
    BY <1>0, <1>1, <2>1
  <2>2. CASE h >= i
    <3>1. h + 1 \in 1..Len(s) /\ h + 1 # i
      BY <1>0, <2>2
    <3> QED
      BY <1>1, <2>2, <3>1
  <2> QED
    BY <1>0, <2>1, <2>2
<1> QED
  BY <1>1, <1>2, <1>3

(* Front (pop_back) is RemoveAt at the end.                                *)
LEMMA FrontProperties ==
  ASSUME NEW S, NEW s \in Seq(S), s # <<>>
  PROVE  /\ Len(s) \in Nat \ {0}
         /\ Last(s) \in S
         /\ Front(s) \in Seq(S)
         /\ Len(Front(s)) = Len(s) - 1
         /\ \A j \in 1..(Len(s) - 1) : Front(s)[j] = s[j]
<1>1. Len(s) \in Nat \ {0}
  BY EmptySeq
<1>2. \A j \in 1..Len(s) : s[j] \in S
  BY ElementOfSeq
<1>3. Last(s) \in S
  BY <1>1, <1>2 DEF Last
<1>4. /\ Front(s) \in Seq(S)
      /\ Len(Front(s)) = IF 1 <= Len(s) - 1 THEN Len(s) - 1 - 1 + 1 ELSE 0
      /\ \A j \in 1..(Len(s) - 1 - 1 + 1) : Front(s)[j] = s[1 + j - 1]
  <2>1. \A j \in 1..(Len(s) - 1) : s[j] \in S
    BY <1>1, <1>2
  <2> QED
    BY <1>1, <2>1, SubSeqProperties DEF Front
<1>5. Len(Front(s)) = Len(s) - 1
  <2>1. \A n \in Nat \ {0} : (IF 1 <= n - 1 THEN n - 1 - 1 + 1 ELSE 0) = n - 1
    OBVIOUS
  <2> QED
    BY <1>1, <1>4, <2>1
<1>6. ASSUME NEW j \in 1..(Len(s) - 1)
      PROVE  Front(s)[j] = s[j]
  <2>1. j \in 1..(Len(s) - 1 - 1 + 1) /\ 1 + j - 1 = j
    BY <1>1
  <2> QED
    BY <1>4, <2>1
<1> QED
  BY <1>1, <1>3, <1>4, <1>5, <1>6

(* Parts of sequences: of two that agree, one longer, one shorter.         *)
LEMMA SamePart ==
  ASSUME NEW S, NEW s \in Seq(S), NEW u \in Seq(S), NEW a \in Nat, NEW b \in Nat,
         a > 0, b <= Len(s), b <= Len(u), \A k \in 1..b : s[k] = u[k]
  PROVE  SubSeq(s, a, b) = SubSeq(u, a, b)
<1>1. Len(s) \in Nat /\ Len(u) \in Nat
  BY LenProperties
<1>2. \A k \in a..b : s[k] \in S /\ u[k] \in S /\ s[k] = u[k]
  <2>1. TAKE k \in a..b
  <2>2. k \in 1..Len(s) /\ k \in 1..Len(u) /\ k \in 1..b
    BY <1>1
  <2> QED
    BY <2>2, ElementOfSeq
<1>3. PICK p, q : p = SubSeq(s, a, b) /\ q = SubSeq(u, a, b)
  OBVIOUS
<1>4. /\ p \in Seq(S) /\ Len(p) = IF a <= b THEN b - a + 1 ELSE 0
      /\ \A k \in 1..(b - a + 1) : p[k] = s[a + k - 1]
  BY <1>2, <1>3, SubSeqProperties
<1>5. /\ q \in Seq(S) /\ Len(q) = IF a <= b THEN b - a + 1 ELSE 0
      /\ \A k \in 1..(b - a + 1) : q[k] = u[a + k - 1]
  BY <1>2, <1>3, SubSeqProperties
<1>6. ASSUME NEW k \in 1..Len(p)
      PROVE  p[k] = q[k]
  <2>1. k \in 1..(b - a + 1) /\ a + k - 1 \in a..b
    BY <1>4
  <2> QED
    BY <1>2, <1>4, <1>5, <2>1
<1> QED
  BY <1>3, <1>4, <1>5, <1>6, SeqEqual

LEMMA PartGrows ==
  ASSUME NEW S, NEW s \in Seq(S), NEW a \in Nat, NEW b \in Nat,
         a > 0, a <= b + 1, b < Len(s)
  PROVE  SubSeq(s, a, b + 1) = Append(SubSeq(s, a, b), s[b + 1])
<1>1. Len(s) \in Nat /\ s[b + 1] \in S
  <2>1. Len(s) \in Nat
    BY LenProperties
  <2>2. b + 1 \in 1..Len(s)
    BY <2>1
  <2> QED
    BY <2>1, <2>2, ElementOfSeq
<1>2. \A k \in a..(b + 1) : s[k] \in S
  BY <1>1, ElementOfSeq
<1>3. PICK p, q : p = SubSeq(s, a, b) /\ q = SubSeq(s, a, b + 1)
  OBVIOUS
<1>4. /\ p \in Seq(S) /\ Len(p) = (b - a) + 1
      /\ \A k \in 1..((b - a) + 1) : p[k] = s[a + k - 1]
  <2>1. \A k \in a..b : s[k] \in S
    BY <1>2
  <2>2. /\ p \in Seq(S) /\ Len(p) = IF a <= b THEN b - a + 1 ELSE 0
        /\ \A k \in 1..(b - a + 1) : p[k] = s[a + k - 1]
    BY <1>3, <2>1, SubSeqProperties
  <2> QED
    BY <2>2
<1>5. /\ q \in Seq(S) /\ Len(q) = (b - a) + 2
      /\ \A k \in 1..((b - a) + 2) : q[k] = s[a + k - 1]
  <2>1. /\ q \in Seq(S) /\ Len(q) = IF a <= b + 1 THEN (b + 1) - a + 1 ELSE 0
        /\ \A k \in 1..((b + 1) - a + 1) : q[k] = s[a + k - 1]
    BY <1>2, <1>3, SubSeqProperties
  <2>2. (b + 1) - a + 1 = (b - a) + 2
    OBVIOUS
  <2> QED
    BY <2>1, <2>2
<1>6. PICK r : r = Append(p, s[b + 1])
  OBVIOUS
<1>7. /\ r \in Seq(S) /\ Len(r) = Len(p) + 1
      /\ \A k \in 1..Len(p) : r[k] = p[k]
      /\ r[Len(p) + 1] = s[b + 1]
  BY <1>1, <1>4, <1>6, AppendProperties
<1>8. ASSUME NEW k \in 1..Len(q)
      PROVE  q[k] = r[k]
  <2>1. CASE k <= Len(p)
    BY <1>4, <1>5, <1>7, <2>1
  <2>2. CASE ~(k <= Len(p))
    <3>1. k = Len(p) + 1 /\ a + k - 1 = b + 1
      BY <1>4, <1>5, <2>2
    <3> QED
      BY <1>5, <1>7, <3>1
  <2> QED
    BY <2>1, <2>2
<1>9. Len(q) = Len(r)
  BY <1>4, <1>5, <1>7
<1> QED
  BY <1>3, <1>5, <1>6, <1>7, <1>8, <1>9, SeqEqual

LEMMA PartShrinks ==
  ASSUME NEW S, NEW s \in Seq(S), NEW a \in Nat, NEW b \in Nat,
         a > 0, a <= b, b <= Len(s)
  PROVE  /\ SubSeq(s, a, b) # <<>> /\ Head(SubSeq(s, a, b)) = s[a]
         /\ Tail(SubSeq(s, a, b)) = SubSeq(s, a + 1, b)
<1>1. Len(s) \in Nat
  BY LenProperties
<1>2. \A k \in a..b : s[k] \in S
  <2>1. TAKE k \in a..b
  <2>2. k \in 1..Len(s)
    BY <1>1
  <2> QED
    BY <2>2, ElementOfSeq
<1>3. PICK p, q : p = SubSeq(s, a, b) /\ q = SubSeq(s, a + 1, b)
  OBVIOUS
<1>4. /\ p \in Seq(S) /\ Len(p) = (b - a) + 1
      /\ \A k \in 1..((b - a) + 1) : p[k] = s[a + k - 1]
  <2>1. /\ p \in Seq(S) /\ Len(p) = IF a <= b THEN b - a + 1 ELSE 0
        /\ \A k \in 1..(b - a + 1) : p[k] = s[a + k - 1]
    BY <1>2, <1>3, SubSeqProperties
  <2> QED
    BY <2>1
<1>5. /\ q \in Seq(S) /\ Len(q) = b - a
      /\ \A k \in 1..(b - a) : q[k] = s[a + k]
  <2>1. \A k \in (a + 1)..b : s[k] \in S
    BY <1>2
  <2>2. /\ q \in Seq(S) /\ Len(q) = IF a + 1 <= b THEN b - (a + 1) + 1 ELSE 0
        /\ \A k \in 1..(b - (a + 1) + 1) : q[k] = s[(a + 1) + k - 1]
    BY <1>3, <2>1, SubSeqProperties
  <2>3. /\ b - (a + 1) + 1 = b - a /\ (~(a + 1 <= b) => b - a = 0)
        /\ \A k \in 1..(b - a) : (a + 1) + k - 1 = a + k
    OBVIOUS
  <2> QED
    BY <2>2, <2>3
<1>6. p # <<>>
  <2>1. Len(p) > 0
    BY <1>4
  <2> QED
    BY <2>1, EmptySeq
<1>7. /\ Head(p) = p[1] /\ Tail(p) \in Seq(S) /\ Len(Tail(p)) = Len(p) - 1
      /\ \A k \in 1..Len(Tail(p)) : Tail(p)[k] = p[k + 1]
  BY <1>4, <1>6, HeadTailProperties
<1>8. p[1] = s[a]
  <2>1. 1 \in 1..((b - a) + 1) /\ a + 1 - 1 = a
    OBVIOUS
  <2> QED
    BY <1>4, <2>1
<1>9. ASSUME NEW k \in 1..Len(q)
      PROVE  Tail(p)[k] = q[k]
  <2>1. k \in 1..Len(Tail(p)) /\ k + 1 \in 1..((b - a) + 1) /\ a + (k + 1) - 1 = a + k
    BY <1>4, <1>5, <1>7
  <2> QED
    BY <1>4, <1>5, <1>7, <2>1
<1>10. Len(Tail(p)) = Len(q)
  BY <1>4, <1>5, <1>7
<1>11. Tail(p) = q
  BY <1>5, <1>7, <1>9, <1>10, SeqEqual
<1> QED
  BY <1>3, <1>6, <1>7, <1>8, <1>11

(* SubSeq of an existing part, in one piece.                               *)
LEMMA Part ==
  ASSUME NEW T, NEW s \in Seq(T), NEW m \in 1..(Len(s) + 1), NEW n \in 0..Len(s), m <= n + 1
  PROVE  /\ SubSeq(s, m, n) \in Seq(T)
         /\ Len(SubSeq(s, m, n)) = n - m + 1
         /\ \A k \in 1..(n - m + 1) : SubSeq(s, m, n)[k] = s[m + k - 1]
<1>1. Len(s) \in Nat /\ \A k \in 1..Len(s) : s[k] \in T
  BY ElementOfSeq
<1>2. \A k \in m..n : s[k] \in T
  BY <1>1
<1>3. m \in Int /\ n \in Int
  OBVIOUS
<1>4. /\ SubSeq(s, m, n) \in Seq(T)
      /\ Len(SubSeq(s, m, n)) = IF m <= n THEN n - m + 1 ELSE 0
      /\ \A k \in 1..(n - m + 1) : SubSeq(s, m, n)[k] = s[m + k - 1]
  BY <1>2, <1>3, SubSeqProperties
<1> QED
  BY <1>3, <1>4

(* Where the characters of two joined sequences are.                       *)
LEMMA Joined ==
  ASSUME NEW T, NEW s \in Seq(T), NEW t \in Seq(T)
  PROVE  /\ s \o t \in Seq(T)
         /\ Len(s) \in Nat /\ Len(t) \in Nat
         /\ Len(s \o t) = Len(s) + Len(t)
         /\ \A k \in 1..Len(s) : (s \o t)[k] = s[k]
         /\ \A k \in 1..Len(t) : (s \o t)[Len(s) + k] = t[k]
<1>1. /\ s \o t \in Seq(T) /\ Len(s) \in Nat /\ Len(t) \in Nat
      /\ Len(s \o t) = Len(s) + Len(t)
      /\ \A k \in 1..(Len(s) + Len(t)) :
           (s \o t)[k] = IF k <= Len(s) THEN s[k] ELSE t[k - Len(s)]
  BY ConcatProperties
<1> DEFINE c == s \o t
<1> HIDE DEF c
<1>2. \A k \in 1..Len(s) : c[k] = s[k]
  BY <1>1 DEF c
<1>3. ASSUME NEW k \in 1..Len(t)
      PROVE  c[Len(s) + k] = t[k]
  <2>1. /\ Len(s) + k \in 1..(Len(s) + Len(t))
        /\ ~(Len(s) + k <= Len(s)) /\ (Len(s) + k) - Len(s) = k
    BY <1>1
  <2> QED
    BY <1>1, <2>1 DEF c
<1> QED
  BY <1>1, <1>2, <1>3 DEF c
(* Induction over 0..n for the members of a set.                           *)
LEMMA IntervalInduction ==
  ASSUME NEW n \in Nat, NEW S, 0 \in S,
         \A i \in 0..(n - 1) : i \in S => i + 1 \in S
  PROVE  \A i \in 0..n : i \in S
<1> DEFINE Others == {i \in 0..n : i \notin S}
<1> SUFFICES ASSUME Others # {}
             PROVE  FALSE
  OBVIOUS
<1> DEFINE m == Min(Others)
<1>1. Others \subseteq Nat
  OBVIOUS
<1>2. m \in Others /\ \A y \in Others : m <= y
  BY <1>1, MinIsLeast
<1> HIDE DEF m
<1>3. m \in 0..n /\ m \notin S /\ m # 0
  BY <1>2
<1>4. m - 1 \in 0..(n - 1) /\ ~(m <= m - 1) /\ (m - 1) + 1 = m
  BY <1>3
<1>5. m - 1 \notin Others
  BY <1>2, <1>4
<1>6. m - 1 \in S
  BY <1>4, <1>5
<1> QED
  BY <1>3, <1>4, <1>6

(* A function over 0..n defined by recursion: there is one and only one.   *)
IsStep(step, n, V) == step \in [1..n -> [V -> V]]
IsRecursive(f, n, V, base, step) ==
    /\ f \in [0..n -> V] /\ f[0] = base
    /\ \A i \in 1..n : f[i] = step[i][f[i - 1]]
Recursion(n, V, base, step) == CHOOSE f : IsRecursive(f, n, V, base, step)

LEMMA RecursionDefines ==
  ASSUME NEW n \in Nat, NEW V, NEW base \in V, NEW step, IsStep(step, n, V)
  PROVE  IsRecursive(Recursion(n, V, base, step), n, V, base, step)
<1> USE DEF IsStep
<1> DEFINE Is(f, m) == f[0] = base /\ \A i \in 1..m : f[i] = step[i][f[i - 1]]
           S == {m \in 0..n : \E f \in [0..m -> V] : Is(f, m)}
<1>1. 0 \in S
  <2> DEFINE f == [i \in 0..0 |-> base]
  <2>1. f \in [0..0 -> V] /\ Is(f, 0)
    OBVIOUS
  <2> HIDE DEF f, Is
  <2> QED
    BY <2>1
<1>2. ASSUME NEW m \in 0..(n - 1), m \in S
      PROVE  m + 1 \in S
  <2>1. PICK f \in [0..m -> V] : Is(f, m)
    BY <1>2
  <2> DEFINE new == step[m + 1][f[m]]
             g == [i \in 0..(m + 1) |-> IF i = m + 1 THEN new ELSE f[i]]
  <2>2. m \in 0..m /\ m + 1 \in 1..n /\ f[m] \in V
    OBVIOUS
  <2>3. new \in V
    BY <2>2
  <2> HIDE DEF new
  <2>4. g \in [0..(m + 1) -> V]
    BY <2>3
  <2>5. g[0] = base
    BY <2>1
  <2>6. ASSUME NEW i \in 1..(m + 1)
        PROVE  g[i] = step[i][g[i - 1]]
    <3>1. i - 1 \in 0..m /\ i - 1 # m + 1
      OBVIOUS
    <3>2. g[i - 1] = f[i - 1]
      BY <3>1
    <3>3. CASE i = m + 1
      <4>1. g[i] = new /\ i - 1 = m /\ i = m + 1
        BY <3>3
      <4>2. g[i - 1] = f[m]
        BY <3>2, <4>1
      <4> QED
        BY <4>1, <4>2 DEF new
    <3>4. CASE i # m + 1
      <4>1. i \in 1..m
        BY <3>4
      <4> QED
        BY <2>1, <3>2, <3>4, <4>1
    <3> QED
      BY <3>3, <3>4
  <2>7. Is(g, m + 1)
    BY <2>5, <2>6
  <2> HIDE DEF g, Is
  <2>8. m + 1 \in 0..n
    OBVIOUS
  <2> QED
    BY <2>4, <2>7, <2>8
<1> HIDE DEF S
<1>3. \A m \in 0..n : m \in S
  BY <1>1, <1>2, IntervalInduction
<1>4. n \in S
  BY <1>3
<1>5. \E f : IsRecursive(f, n, V, base, step)
  BY <1>4 DEF S, IsRecursive
<1> QED
  BY <1>5 DEF Recursion
(* The members of a finite set of numbers, numbered from the least on.     *)
Rank(S, i) == Cardinality({j \in S : j <= i})

LEMMA RankStep ==
  ASSUME NEW S, S \subseteq Nat, IsFiniteSet(S), NEW i \in Nat
  PROVE  /\ Rank(S, i) \in 0..Cardinality(S)
         /\ Cardinality(S) \in Nat
         /\ \A j \in S : j > i /\ (\A k \in S : k > i => k >= j) => Rank(S, j) = Rank(S, i) + 1
<1> DEFINE A == {j \in S : j <= i}
<1>1. A \in SUBSET S
  OBVIOUS
<1>2. Cardinality(S) \in Nat
  BY FS_CardinalityType
<1>3. IsFiniteSet(A) /\ Cardinality(A) <= Cardinality(S)
  BY <1>1, FS_Subset
<1>4. Cardinality(A) \in Nat
  BY <1>3, FS_CardinalityType
<1>5. ASSUME NEW j \in S, j > i, \A k \in S : k > i => k >= j
      PROVE  Rank(S, j) = Rank(S, i) + 1
  <2> DEFINE B == {k \in S : k <= j}
  <2>1. B = A \union {j} /\ j \notin A
    <3>1. j \in Int /\ \A k \in S : k \in Int
      OBVIOUS
    <3>2. ASSUME NEW k \in S
          PROVE  k <= j <=> k <= i \/ k = j
      BY <1>5, <3>1
    <3>3. j <= j /\ ~(j <= i)
      BY <1>5, <3>1
    <3> QED
      BY <3>2, <3>3
  <2> HIDE DEF A, B
  <2>2. Cardinality(B) = Cardinality(A) + 1
    BY <1>3, <2>1, FS_AddElement
  <2> QED
    BY <2>2 DEF Rank, A, B
<1> QED
  BY <1>2, <1>3, <1>4, <1>5 DEF Rank

LEMMA RankGrows ==
  ASSUME NEW S, S \subseteq Nat, IsFiniteSet(S), NEW i \in Nat, NEW j \in S, i < j
  PROVE  Rank(S, i) < Rank(S, j)
<1> DEFINE A == {k \in S : k <= i}
           B == {k \in S : k <= j}
<1>1. B \in SUBSET S /\ A \in SUBSET B /\ j \in B /\ j \notin A
  <2>1. j \in Int /\ \A k \in S : k \in Int
    OBVIOUS
  <2>2. ASSUME NEW k \in S, k <= i
        PROVE  k <= j
    BY <2>1, <2>2
  <2>3. j <= j /\ ~(j <= i)
    BY <2>1
  <2> QED
    BY <2>2, <2>3
<1>2. IsFiniteSet(B)
  BY <1>1, FS_Subset
<1> HIDE DEF A, B
<1>3. /\ IsFiniteSet(A) /\ Cardinality(A) <= Cardinality(B)
      /\ Cardinality(B) = Cardinality(A) => B = A
  BY <1>1, <1>2, FS_Subset
<1>4. Cardinality(A) \in Nat /\ Cardinality(B) \in Nat
  BY <1>2, <1>3, FS_CardinalityType
<1> QED
  BY <1>1, <1>3, <1>4 DEF Rank, A, B

(* Each number up to their count is the number of one.                     *)
LEMMA Ranked ==
  ASSUME NEW S, S \subseteq Nat, IsFiniteSet(S)
  PROVE  /\ Cardinality(S) \in Nat
         /\ \A i \in S : Rank(S, i) \in 1..Cardinality(S)
         /\ \A i, j \in S : Rank(S, i) = Rank(S, j) => i = j
         /\ \A k \in 1..Cardinality(S) : \E i \in S : Rank(S, i) = k
<1> DEFINE n == Cardinality(S)
<1>1. n \in Nat
  BY FS_CardinalityType
<1>2. ASSUME NEW i \in S
      PROVE  Rank(S, i) \in 1..n
  <2> DEFINE A == {j \in S : j <= i}
  <2>1. A \in SUBSET S /\ i \in A
    OBVIOUS
  <2>2. IsFiniteSet(A)
    BY <2>1, FS_Subset
  <2>3. Cardinality(A) # 0
    BY <2>1, <2>2, FS_EmptySet
  <2>4. Rank(S, i) \in 0..n
    BY RankStep
  <2> QED
    BY <1>1, <2>3, <2>4 DEF Rank
<1>3. ASSUME NEW i \in S, NEW j \in S, Rank(S, i) = Rank(S, j)
      PROVE  i = j
  <2>1. i \in Nat /\ j \in Nat /\ Rank(S, i) \in Nat /\ Rank(S, j) \in Nat
    BY <1>1, <1>2
  <2>2. i < j => Rank(S, i) < Rank(S, j)
    BY <2>1, RankGrows
  <2>3. j < i => Rank(S, j) < Rank(S, i)
    BY <2>1, RankGrows
  <2> QED
    BY <1>3, <2>1, <2>2, <2>3
<1>4. ASSUME NEW k \in 1..n
      PROVE  \E i \in S : Rank(S, i) = k
  <2> DEFINE f == [i \in S |-> Rank(S, i)]
  <2>1. f \in [S -> 1..n]
    BY <1>2
  <2>2. f \in Injection(S, 1..n)
    BY <1>3, <2>1 DEF Injection, IsInjective
  <2>3. IsFiniteSet(1..n) /\ Cardinality(1..n) = n
    BY <1>1, FS_Interval
  <2> HIDE DEF f
  <2>4. f \in Surjection(S, 1..n)
    BY <2>2, <2>3, FS_Injection
  <2> QED
    BY <2>4 DEF Surjection, f
<1> QED
  BY <1>1, <1>2, <1>3, <1>4
(* A scan of s from i on stops at the first member of S, or behind s.      *)
StopsAt(s, S, i, j) ==
    /\ j \in i..(Len(s) + 1)
    /\ \A k \in i..(j - 1) : s[k] \notin S
    /\ j <= Len(s) => s[j] \in S

LEMMA StopsSomewhere ==
  ASSUME NEW T, NEW s \in Seq(T), NEW S, NEW i \in 1..(Len(s) + 1)
  PROVE  \E j : StopsAt(s, S, i, j)
<1> DEFINE stops == {j \in i..Len(s) : s[j] \in S} \union {Len(s) + 1}
<1>1. Len(s) \in Nat
  OBVIOUS
<1>2. stops \subseteq Nat /\ stops # {}
  BY <1>1
<1>3. Min(stops) \in stops /\ \A y \in stops : Min(stops) <= y
  BY <1>2, MinIsLeast
<1> DEFINE j == Min(stops)
<1>4. j \in i..(Len(s) + 1) /\ (j <= Len(s) => s[j] \in S)
  BY <1>1, <1>3
<1>5. ASSUME NEW k \in i..(j - 1)
      PROVE  s[k] \notin S
  <2>1. k \in i..Len(s) /\ ~(j <= k)
    BY <1>1, <1>4
  <2> QED
    BY <1>3, <2>1
<1>6. StopsAt(s, S, i, j)
  BY <1>4, <1>5 DEF StopsAt
<1> QED
  BY <1>6

LEMMA StopsOnce ==
  ASSUME NEW T, NEW s \in Seq(T), NEW S, NEW i \in 1..(Len(s) + 1),
         NEW j, StopsAt(s, S, i, j), NEW u, StopsAt(s, S, i, u)
  PROVE  u = j
<1>1. Len(s) \in Nat
  OBVIOUS
<1>2. u \in Int /\ j \in Int
  BY <1>1 DEF StopsAt
<1>3. ~(u < j)
  <2> SUFFICES ASSUME u < j
               PROVE  FALSE
    OBVIOUS
  <2>1. u \in i..(j - 1) /\ u <= Len(s)
    BY <1>1, <1>2 DEF StopsAt
  <2> QED
    BY <1>1, <2>1 DEF StopsAt
<1>4. ~(j < u)
  <2> SUFFICES ASSUME j < u
               PROVE  FALSE
    OBVIOUS
  <2>1. j \in i..(u - 1) /\ j <= Len(s)
    BY <1>1, <1>2 DEF StopsAt
  <2> QED
    BY <1>1, <2>1 DEF StopsAt
<1> QED
  BY <1>2, <1>3, <1>4
=============================================================================
