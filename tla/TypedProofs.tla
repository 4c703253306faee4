----------------------------- MODULE TypedProofs -----------------------------
(***************************************************************************)
(* Proofs about RequestPath from the keyboard to the handler: the server   *)
(* understands what was typed, and what the client does not send spells    *)
(* nothing, for every line, word and limit the assumptions allow.          *)
(*                                                                         *)
(* RequestPathProps divides a line in every way it can be divided, and     *)
(* takes a frame for what would encode it; the code scans and writes.  The *)
(* first part shows that a scan finds the one division there is (RestsAre, *)
(* FieldsAre, NumberRead, ChatsInAre), the second that a packet encodes    *)
(* what was written into it (LoginSent, ..., ComposeSent), so that a line  *)
(* makes the client send what it spells (SentIsSpelled).  Then, of several *)
(* lines: one more line is one more piece of the script (PieceJoins), and  *)
(* fgets reads lines until it meets what spoils the script or the end of   *)
(* the input (BufferIs).  TypedInv holds these together.                   *)
(***************************************************************************)
EXTENDS RequestProofs

-----------------------------------------------------------------------------
(* Parts of what is left of a string.                                      *)
LEMMA PartOfFrom ==
  ASSUME NEW T, NEW s \in Seq(T), NEW b \in 1..(Len(s) + 1),
         NEW f \in 1..(Len(From(s, b)) + 1)
  PROVE  /\ b + f - 1 \in b..(Len(s) + 1)
         /\ SubSeq(From(s, b), 1, f - 1) = SubSeq(s, b, (b + f - 1) - 1)
         /\ From(From(s, b), f) = From(s, b + f - 1)
<1> DEFINE w == From(s, b)
           e == b + f - 1
<1>1. /\ w \in Seq(T) /\ Len(w) = Len(s) - b + 1
      /\ \A k \in 1..(Len(s) - b + 1) : w[k] = s[b + k - 1]
  BY FromIs
<1>2. Len(s) \in Nat
  OBVIOUS
<1> HIDE DEF w
<1>3. e \in b..(Len(s) + 1) /\ e \in 1..(Len(s) + 1) /\ e - 1 \in 0..Len(s) /\ b <= (e - 1) + 1
  BY <1>1, <1>2 DEF w
<1>4. f \in 1..(Len(w) + 1)
  BY DEF w
<1>5. SubSeq(w, 1, f - 1) = SubSeq(s, b, e - 1)
  <2>1. /\ SubSeq(w, 1, f - 1) \in Seq(T) /\ Len(SubSeq(w, 1, f - 1)) = f - 1
        /\ \A k \in 1..(f - 1) : SubSeq(w, 1, f - 1)[k] = w[k]
    BY <1>1, <1>4, UptoIsPart
  <2>2. /\ SubSeq(s, b, e - 1) \in Seq(T) /\ Len(SubSeq(s, b, e - 1)) = (e - 1) - b + 1
        /\ \A k \in 1..((e - 1) - b + 1) : SubSeq(s, b, e - 1)[k] = s[b + k - 1]
    BY <1>3, Part
  <2>3. (e - 1) - b + 1 = f - 1 /\ \A k \in 1..(f - 1) : k \in 1..(Len(s) - b + 1)
    BY <1>1, <1>2, <1>4
  <2> QED
    BY <1>1, <2>1, <2>2, <2>3, SeqEqual
<1>6. From(w, f) = From(s, e)
  <2>1. /\ From(w, f) \in Seq(T) /\ Len(From(w, f)) = Len(w) - f + 1
        /\ \A k \in 1..(Len(w) - f + 1) : From(w, f)[k] = w[f + k - 1]
    BY <1>1, <1>4, FromIs
  <2>2. /\ From(s, e) \in Seq(T) /\ Len(From(s, e)) = Len(s) - e + 1
        /\ \A k \in 1..(Len(s) - e + 1) : From(s, e)[k] = s[e + k - 1]
    BY <1>3, FromIs
  <2>3. Len(s) - e + 1 = Len(w) - f + 1
    BY <1>1, <1>2, <1>4
  <2>4. \A k \in 1..(Len(w) - f + 1) :
          f + k - 1 \in 1..(Len(s) - b + 1) /\ b + (f + k - 1) - 1 = e + k - 1
    BY <1>1, <1>2, <1>4
  <2> QED
    BY <1>1, <2>1, <2>2, <2>3, <2>4, SeqEqual
<1> QED
  BY <1>3, <1>5, <1>6 DEF w

-----------------------------------------------------------------------------
(* The first word of a line is between b and e.                            *)
WordAt(s, b, e) ==
    /\ b \in 1..(Len(s) + 1) /\ e \in b..(Len(s) + 1)
    /\ \A j \in 1..(b - 1) : s[j] \in Blank
    /\ \A j \in b..(e - 1) : s[j] \notin Blank
    /\ b <= Len(s) => s[b] \notin Blank
    /\ e <= Len(s) => s[e] \in Blank
    /\ SkipBlanks(s) = From(s, b) /\ Word(s) = SubSeq(s, b, e - 1) /\ AfterWord(s) = From(s, e)

LEMMA WordFound ==
  ASSUME NEW s \in Seq(Byte)
  PROVE  \E b, e : WordAt(s, b, e)
<1> DEFINE b == FirstIn(s, Byte \ Blank, 1)
           w == From(s, b)
           f == FirstIn(w, Blank, 1)
           e == b + f - 1
<1>1. Len(s) \in Nat /\ 1 \in 1..(Len(s) + 1) /\ \A j \in 1..Len(s) : s[j] \in Byte
  BY ElementOfSeq
<1>2. StopsAt(s, Byte \ Blank, 1, b)
  BY <1>1, FirstInStops
<1>3. SkipBlanks(s) = w
  BY DEF SkipBlanks
<1>4. Word(s) = SubSeq(w, 1, f - 1) /\ AfterWord(s) = From(w, f)
  BY <1>3 DEF Word, AfterWord
<1> HIDE DEF b
<1>5. /\ b \in 1..(Len(s) + 1) /\ b \in Nat
      /\ \A j \in 1..(b - 1) : s[j] \in Blank
      /\ b <= Len(s) => s[b] \notin Blank
  BY <1>1, <1>2 DEF StopsAt
<1>6. /\ w \in Seq(Byte) /\ Len(w) = Len(s) - b + 1
      /\ \A k \in 1..(Len(s) - b + 1) : w[k] = s[b + k - 1]
  BY <1>5, FromIs
<1>7. StopsAt(w, Blank, 1, f)
  <2>1. 1 \in 1..(Len(w) + 1)
    BY <1>1, <1>5, <1>6
  <2> HIDE DEF w
  <2> QED
    BY <1>6, <2>1, FirstInStops
<1>8. f \in 1..(Len(w) + 1)
  BY <1>7 DEF StopsAt
<1>9. /\ e \in b..(Len(s) + 1)
      /\ SubSeq(w, 1, f - 1) = SubSeq(s, b, e - 1) /\ From(w, f) = From(s, e)
  BY <1>5, <1>8, PartOfFrom
<1>10. /\ \A k \in 1..(f - 1) : w[k] \notin Blank
       /\ f <= Len(w) => w[f] \in Blank
  BY <1>7 DEF StopsAt
<1> HIDE DEF w, f
<1>11. ASSUME NEW j \in b..(e - 1)
       PROVE  s[j] \notin Blank
  <2>1. j - b + 1 \in 1..(f - 1) /\ j - b + 1 \in 1..(Len(s) - b + 1) /\ b + (j - b + 1) - 1 = j
    BY <1>1, <1>5, <1>6, <1>8
  <2> QED
    BY <1>6, <1>10, <2>1
<1>12. ASSUME e <= Len(s)
       PROVE  s[e] \in Blank
  <2>1. f <= Len(w) /\ f \in 1..(Len(s) - b + 1) /\ b + f - 1 = e
    BY <1>1, <1>5, <1>6, <1>8, <1>12
  <2> QED
    BY <1>6, <1>10, <2>1
<1> HIDE DEF e
<1>13. WordAt(s, b, e)
  BY <1>3, <1>4, <1>5, <1>9, <1>11, <1>12 DEF WordAt, w
<1> QED
  BY <1>13
-----------------------------------------------------------------------------
(* A part of a string, element by element.                                 *)
LEMMA BlankUpto ==
  ASSUME NEW s \in Seq(Byte), NEW i \in 1..(Len(s) + 1)
  PROVE  IsBlank(SubSeq(s, 1, i - 1)) <=> \A j \in 1..(i - 1) : s[j] \in Blank
<1> DEFINE u == SubSeq(s, 1, i - 1)
<1>1. u \in Seq(Byte) /\ Len(u) = i - 1 /\ \A k \in 1..(i - 1) : u[k] = s[k]
  BY UptoIsPart
<1> HIDE DEF u
<1>2. DOMAIN u = 1..(i - 1)
  BY <1>1
<1> QED
  BY <1>1, <1>2 DEF IsBlank, u

(* A word is at the beginning of a line only if the line's first word      *)
(* begins with it.                                                         *)
LEMMA WordBegins ==
  ASSUME NEW l \in Seq(Byte), NEW w \in Seq(Byte \ Blank), w # <<>>,
         NEW b, NEW e, WordAt(l, b, e),
         NEW i \in 1..(Len(l) - Len(w) + 1), IsBlank(SubSeq(l, 1, i - 1)),
         SubSeq(l, i, i + Len(w) - 1) = w
  PROVE  i = b /\ b + Len(w) <= e
<1> DEFINE n == Len(w)
<1>1. /\ Len(l) \in Nat /\ n \in Nat \ {0} /\ \A j \in 1..n : w[j] \notin Blank
  <2>1. Len(l) \in Nat /\ n \in Nat \ {0}
    OBVIOUS
  <2>2. \A j \in 1..n : w[j] \in Byte \ Blank
    BY ElementOfSeq
  <2> QED
    BY <2>1, <2>2
<1>2. /\ b \in 1..(Len(l) + 1) /\ e \in b..(Len(l) + 1)
      /\ \A j \in 1..(b - 1) : l[j] \in Blank
      /\ b <= Len(l) => l[b] \notin Blank
      /\ e <= Len(l) => l[e] \in Blank
  BY DEF WordAt
<1>3. i \in 1..(Len(l) + 1) /\ i + n - 1 \in 0..Len(l) /\ i <= (i + n - 1) + 1 /\ i \in Nat
      /\ (i + n - 1) - i + 1 = n
  BY <1>1
<1>4. \A j \in 1..(i - 1) : l[j] \in Blank
  BY <1>3, BlankUpto
<1>5. \A k \in 1..n : w[k] = l[i + k - 1]
  <2>1. \A k \in 1..((i + n - 1) - i + 1) : SubSeq(l, i, i + n - 1)[k] = l[i + k - 1]
    BY <1>3, Part
  <2> QED
    BY <1>3, <2>1
<1> HIDE DEF n
<1>6. \A j \in i..(i + n - 1) : l[j] \notin Blank
  <2>1. ASSUME NEW j \in i..(i + n - 1)
        PROVE  l[j] \notin Blank
    <3>1. j - i + 1 \in 1..n /\ i + (j - i + 1) - 1 = j
      BY <1>1, <1>3
    <3> QED
      BY <1>1, <1>5, <3>1
  <2> QED
    BY <2>1
<1>7. i \in i..(i + n - 1)
  BY <1>1, <1>3
<1>8. ~(i < b)
  <2>1. i < b => i \in 1..(b - 1)
    BY <1>2, <1>3
  <2> QED
    BY <1>2, <1>6, <1>7, <2>1
<1>9. ~(b < i)
  <2>1. b < i => b \in 1..(i - 1) /\ b <= Len(l)
    BY <1>1, <1>2, <1>3
  <2> QED
    BY <1>2, <1>4, <2>1
<1>10. i = b
  BY <1>2, <1>3, <1>8, <1>9
<1>11. ~(e < b + n)
  <2>1. e < b + n => e \in i..(i + n - 1) /\ e <= Len(l)
    BY <1>1, <1>2, <1>3, <1>10
  <2> QED
    BY <1>2, <1>6, <2>1
<1> QED
  BY <1>1, <1>2, <1>10, <1>11 DEF n

LEMMA RestsAre ==
  ASSUME NEW l \in Seq(Byte), NEW w \in Seq(Byte \ Blank), w # <<>>
  PROVE  /\ Word(l) = w => Rests(l, w) = {AfterWord(l)}
         /\ Word(l) # w => \A r \in Rests(l, w) : r # <<>> /\ DataIn(r) = {}
<1> DEFINE n == Len(w)
           I == {i \in 1..(Len(l) - n + 1) :
                   IsBlank(SubSeq(l, 1, i - 1)) /\ SubSeq(l, i, i + n - 1) = w}
<1>1. Rests(l, w) = {From(l, i + n) : i \in I}
  BY DEF Rests
<1>2. PICK b, e : WordAt(l, b, e)
  BY WordFound
<1>3. /\ b \in 1..(Len(l) + 1) /\ e \in b..(Len(l) + 1)
      /\ \A j \in 1..(b - 1) : l[j] \in Blank
      /\ \A j \in b..(e - 1) : l[j] \notin Blank
      /\ Word(l) = SubSeq(l, b, e - 1) /\ AfterWord(l) = From(l, e)
  BY <1>2 DEF WordAt
<1>4. Len(l) \in Nat /\ n \in Nat \ {0}
  OBVIOUS
<1>5. ASSUME NEW i \in I
      PROVE  i = b /\ b + n <= e /\ SubSeq(l, b, b + n - 1) = w
  <2>1. /\ i \in 1..(Len(l) - Len(w) + 1) /\ SubSeq(l, i, i + Len(w) - 1) = w
        /\ IsBlank(SubSeq(l, 1, i - 1))
    OBVIOUS
  <2> HIDE DEF I
  <2>2. i = b /\ b + Len(w) <= e
    BY <1>2, <2>1, WordBegins
  <2> QED
    BY <2>1, <2>2
<1> HIDE DEF n
<1>6. ASSUME Word(l) = w
      PROVE  Rests(l, w) = {AfterWord(l)}
  <2>1. e = b + n
    <3>1. /\ b \in 1..(Len(l) + 1) /\ e - 1 \in 0..Len(l)
          /\ b <= (e - 1) + 1 /\ (e - 1) - b + 1 = e - b
      BY <1>3, <1>4
    <3>2. Len(SubSeq(l, b, e - 1)) = e - b
      BY <3>1, Part
    <3>3. n = e - b
      BY <1>3, <1>6, <3>2 DEF n
    <3> QED
      BY <1>3, <1>4, <3>3
  <2>2. b \in I
    <3>1. b \in 1..(Len(l) - n + 1) /\ b + n - 1 = e - 1
      BY <1>3, <1>4, <2>1
    <3>2. IsBlank(SubSeq(l, 1, b - 1))
      BY <1>3, BlankUpto
    <3> QED
      BY <1>3, <1>6, <3>1, <3>2
  <2> HIDE DEF I
  <2>3. {From(l, i + n) : i \in I} = {From(l, b + n)}
    BY <1>5, <2>2
  <2> QED
    BY <1>1, <1>3, <2>1, <2>3
<1>7. ASSUME Word(l) # w, NEW r \in Rests(l, w)
      PROVE  r # <<>> /\ DataIn(r) = {}
  <2>1. PICK i \in I : r = From(l, i + n)
    BY <1>1
  <2>2. i = b /\ b + n <= e /\ SubSeq(l, b, b + n - 1) = w
    BY <1>5
  <2> HIDE DEF I
  <2>3. e # b + n
    <3> SUFFICES ASSUME e = b + n PROVE FALSE
      OBVIOUS
    <3>1. e - 1 = b + n - 1
      BY <1>3, <1>4
    <3>2. Word(l) = SubSeq(l, b, b + n - 1)
      BY <1>3, <3>1
    <3> QED
      BY <1>7, <2>2, <3>2
  <2>4. /\ b + n \in b..(e - 1) /\ b + n \in 1..(Len(l) + 1) /\ b + n \in 1..Len(l)
        /\ 1 \in 1..(Len(l) - (b + n) + 1) /\ (b + n) + 1 - 1 = b + n
    BY <1>3, <1>4, <2>2, <2>3
  <2>5. /\ r \in Seq(Byte) /\ Len(r) = Len(l) - (b + n) + 1
        /\ r[1] = l[b + n]
    BY <2>1, <2>2, <2>4, FromIs
  <2>6. r[1] \notin Blank
    BY <1>3, <2>4, <2>5
  <2>7. r # <<>>
    BY <2>4, <2>5
  <2>8. ASSUME NEW i2 \in 2..Len(r), IsBlank(SubSeq(r, 1, i2 - 1))
        PROVE  FALSE
    <3>1. i2 \in 1..(Len(r) + 1) /\ 1 \in 1..(i2 - 1)
      BY <2>5
    <3> QED
      BY <2>5, <2>6, <2>8, <3>1, BlankUpto
  <2> QED
    BY <2>7, <2>8 DEF DataIn
<1> QED
  BY <1>6, <1>7

(* What follows a word and blanks.                                         *)
LEMMA DataIs ==
  ASSUME NEW r \in Seq(Byte), r = <<>> \/ r[1] \in Blank
  PROVE  /\ Word(r) = <<>> => DataIn(r) = {} /\ SkipBlanks(r) = <<>>
         /\ Word(r) # <<>> => DataIn(r) = {SkipBlanks(r)} /\ SkipBlanks(r) # <<>>
<1> DEFINE I == {i \in 2..Len(r) : IsBlank(SubSeq(r, 1, i - 1)) /\ r[i] \notin Blank}
<1>1. DataIn(r) = {From(r, i) : i \in I}
  BY DEF DataIn
<1>2. PICK b, e : WordAt(r, b, e)
  BY WordFound
<1>3. /\ b \in 1..(Len(r) + 1) /\ e \in b..(Len(r) + 1)
      /\ \A j \in 1..(b - 1) : r[j] \in Blank
      /\ b <= Len(r) => r[b] \notin Blank
      /\ e <= Len(r) => r[e] \in Blank
      /\ Word(r) = SubSeq(r, b, e - 1) /\ SkipBlanks(r) = From(r, b)
  BY <1>2 DEF WordAt
<1>4. Len(r) \in Nat
  OBVIOUS
<1>5. Word(r) \in Seq(Byte) /\ Len(Word(r)) = e - b
  <2>1. b \in 1..(Len(r) + 1) /\ e - 1 \in 0..Len(r) /\ b <= (e - 1) + 1 /\ (e - 1) - b + 1 = e - b
    BY <1>3, <1>4
  <2> QED
    BY <1>3, <2>1, Part
<1>6. SkipBlanks(r) \in Seq(Byte) /\ Len(SkipBlanks(r)) = Len(r) - b + 1
  BY <1>3, FromIs
<1>7. ASSUME NEW i \in I
      PROVE  i = b
  <2>1. i \in 1..(Len(r) + 1) /\ i \in 2..Len(r) /\ r[i] \notin Blank
    BY <1>4
  <2>2. \A j \in 1..(i - 1) : r[j] \in Blank
    BY <2>1, BlankUpto
  <2> HIDE DEF I
  <2>3. ~(i < b) /\ ~(b < i)
    <3>1. i < b => i \in 1..(b - 1)
      BY <1>3, <2>1
    <3>2. b < i => b \in 1..(i - 1) /\ b <= Len(r)
      BY <1>3, <1>4, <2>1
    <3> QED
      BY <1>3, <2>1, <2>2, <3>1, <3>2
  <2> QED
    BY <1>3, <2>1, <2>3
<1>8. CASE b = Len(r) + 1
  <2>1. Len(Word(r)) = 0 /\ Len(SkipBlanks(r)) = 0
    BY <1>3, <1>4, <1>5, <1>6, <1>8
  <2>2. Word(r) = <<>> /\ SkipBlanks(r) = <<>>
    BY <1>5, <1>6, <2>1
  <2>3. ~(b \in I)
    BY <1>4, <1>8
  <2> HIDE DEF I
  <2>4. {From(r, i) : i \in I} = {}
    BY <1>7, <2>3
  <2> QED
    BY <1>1, <2>2, <2>4
<1>9. CASE b # Len(r) + 1
  <2>1. b \in 2..Len(r) /\ b # e
    BY <1>3, <1>4, <1>9
  <2>2. b \in I
    <3>1. IsBlank(SubSeq(r, 1, b - 1))
      BY <1>3, BlankUpto
    <3> QED
      BY <1>3, <2>1, <3>1
  <2> HIDE DEF I
  <2>3. {From(r, i) : i \in I} = {From(r, b)}
    BY <1>7, <2>2
  <2>4. Len(Word(r)) # 0 /\ Len(SkipBlanks(r)) # 0
    BY <1>3, <1>4, <1>5, <1>6, <2>1
  <2>5. Word(r) # <<>> /\ SkipBlanks(r) # <<>>
    BY <1>5, <1>6, <2>4
  <2> QED
    BY <1>1, <1>3, <2>3, <2>5
<1> QED
  BY <1>8, <1>9

LEMMA AfterWordBegins ==
  ASSUME NEW l \in Seq(Byte)
  PROVE  /\ AfterWord(l) \in Seq(Byte) /\ Len(AfterWord(l)) + Len(Word(l)) <= Len(l)
         /\ AfterWord(l) = <<>> \/ AfterWord(l)[1] \in Blank
         /\ Word(l) \in Seq(Byte) /\ SkipBlanks(l) \in Seq(Byte)
         /\ Len(SkipBlanks(l)) <= Len(l)
<1>1. PICK b, e : WordAt(l, b, e)
  BY WordFound
<1>2. /\ b \in 1..(Len(l) + 1) /\ e \in b..(Len(l) + 1)
      /\ e <= Len(l) => l[e] \in Blank
      /\ SkipBlanks(l) = From(l, b) /\ Word(l) = SubSeq(l, b, e - 1) /\ AfterWord(l) = From(l, e)
  BY <1>1 DEF WordAt
<1>3. Len(l) \in Nat
  OBVIOUS
<1>4. /\ From(l, e) \in Seq(Byte) /\ Len(From(l, e)) = Len(l) - e + 1
      /\ \A k \in 1..(Len(l) - e + 1) : From(l, e)[k] = l[e + k - 1]
  <2>1. e \in 1..(Len(l) + 1)
    BY <1>2, <1>3
  <2> QED
    BY <2>1, FromIs
<1>5. From(l, b) \in Seq(Byte) /\ Len(From(l, b)) = Len(l) - b + 1
  BY <1>2, FromIs
<1>6. SubSeq(l, b, e - 1) \in Seq(Byte) /\ Len(SubSeq(l, b, e - 1)) = e - b
  <2>1. b \in 1..(Len(l) + 1) /\ e - 1 \in 0..Len(l) /\ b <= (e - 1) + 1 /\ (e - 1) - b + 1 = e - b
    BY <1>2, <1>3
  <2> QED
    BY <2>1, Part
<1>7. From(l, e) = <<>> \/ From(l, e)[1] \in Blank
  <2>1. CASE e <= Len(l)
    <3>1. 1 \in 1..(Len(l) - e + 1) /\ e + 1 - 1 = e
      BY <1>2, <1>3, <2>1
    <3> QED
      BY <1>2, <1>4, <2>1, <3>1
  <2>2. CASE ~(e <= Len(l))
    <3>1. Len(From(l, e)) = 0
      BY <1>2, <1>3, <1>4, <2>2
    <3> QED
      BY <1>4, <3>1
  <2> QED
    BY <2>1, <2>2
<1>8. (Len(l) - e + 1) + (e - b) <= Len(l) /\ Len(l) - b + 1 <= Len(l)
  BY <1>2, <1>3
<1> QED
  BY <1>2, <1>4, <1>5, <1>6, <1>7, <1>8

(* A field of a line is what the client takes for it; a line is a command  *)
(* without arguments when the client takes it for one.                     *)
LEMMA FieldsAre ==
  ASSUME NEW l \in Seq(Byte), NEW w \in Seq(Byte \ Blank), w # <<>>
  PROVE  /\ HasPrefixAndData(l, w) => Fields(l, w) = {DataOf(l)}
         /\ ~HasPrefixAndData(l, w) => Fields(l, w) = {}
         /\ <<>> \in Rests(l, w) <=> Word(l) = w /\ AfterWord(l) = <<>>
<1> DEFINE r == AfterWord(l)
<1>1. r \in Seq(Byte) /\ (r = <<>> \/ r[1] \in Blank)
  BY AfterWordBegins
<1>2. HasPrefixAndData(l, w) <=> Word(l) = w /\ Word(r) # <<>>
  BY DEF HasPrefixAndData
<1>3. DataOf(l) = SkipBlanks(r)
  BY DEF DataOf
<1> HIDE DEF r
<1>4. /\ Word(r) = <<>> => DataIn(r) = {}
      /\ Word(r) # <<>> => DataIn(r) = {SkipBlanks(r)}
  BY <1>1, DataIs
<1>5. CASE Word(l) = w
  <2>1. Rests(l, w) = {r}
    BY <1>5, RestsAre DEF r
  <2>2. Fields(l, w) = DataIn(r)
    BY <2>1 DEF Fields
  <2> QED
    BY <1>2, <1>3, <1>4, <1>5, <2>1, <2>2 DEF r
<1>6. CASE Word(l) # w
  <2>1. \A x \in Rests(l, w) : x # <<>> /\ DataIn(x) = {}
    BY <1>6, RestsAre
  <2>2. Fields(l, w) = {}
    BY <2>1 DEF Fields
  <2> QED
    BY <1>2, <1>6, <2>1, <2>2
<1> QED
  BY <1>5, <1>6
-----------------------------------------------------------------------------
(* The digits from a place on, and whether something follows them.         *)
LEMMA DigitsRead ==
  ASSUME NEW w \in Seq(Byte), NEW from \in 1..(Len(w) + 1)
  PROVE  LET end == FirstIn(w, Byte \ DigitSet, from)
             digits == SubSeq(w, from, end - 1)
             t == From(w, from)
         IN  /\ IsNumber(t) <=> digits # <<>> /\ From(w, end) = <<>>
             /\ From(w, end) = <<>> => digits = t
<1> DEFINE end == FirstIn(w, Byte \ DigitSet, from)
           digits == SubSeq(w, from, end - 1)
           t == From(w, from)
<1>1. Len(w) \in Nat /\ \A j \in 1..Len(w) : w[j] \in Byte
  BY ElementOfSeq
<1>2. StopsAt(w, Byte \ DigitSet, from, end)
  BY FirstInStops
<1>3. /\ end \in from..(Len(w) + 1)
      /\ \A j \in from..(end - 1) : w[j] \in DigitSet
      /\ end <= Len(w) => w[end] \notin DigitSet
  <2>1. /\ end \in from..(Len(w) + 1)
        /\ \A j \in from..(end - 1) : w[j] \notin Byte \ DigitSet
        /\ end <= Len(w) => w[end] \in Byte \ DigitSet
    BY <1>2 DEF StopsAt
  <2> HIDE DEF end
  <2>2. \A j \in from..(end - 1) : j \in 1..Len(w)
    BY <1>1, <2>1
  <2> QED
    BY <1>1, <2>1, <2>2
<1>4. /\ t \in Seq(Byte) /\ Len(t) = Len(w) - from + 1
      /\ \A k \in 1..(Len(w) - from + 1) : t[k] = w[from + k - 1]
  BY FromIs
<1> HIDE DEF end, t
<1>5. digits \in Seq(Byte) /\ Len(digits) = end - from
  <2>1. end - 1 \in 0..Len(w) /\ from <= (end - 1) + 1 /\ (end - 1) - from + 1 = end - from
    BY <1>1, <1>3
  <2> QED
    BY <2>1, Part
<1>6. From(w, end) \in Seq(Byte) /\ Len(From(w, end)) = Len(w) - end + 1
  <2>1. end \in 1..(Len(w) + 1)
    BY <1>1, <1>3
  <2> QED
    BY <2>1, FromIs
<1>7. From(w, end) = <<>> <=> end = Len(w) + 1
  <2>1. From(w, end) = <<>> <=> Len(From(w, end)) = 0
    BY <1>6
  <2> QED
    BY <1>1, <1>3, <1>6, <2>1
<1>8. ASSUME end = Len(w) + 1
      PROVE  digits = t
  <2>1. end - 1 = Len(w)
    BY <1>1, <1>8
  <2> QED
    BY <2>1 DEF t, From
<1> HIDE DEF digits
<1>9. IsNumber(t) <=> t # <<>> /\ \A k \in 1..Len(t) : t[k] \in DigitSet
  <2>1. DOMAIN t = 1..Len(t)
    BY <1>4
  <2> QED
    BY <2>1 DEF IsNumber
<1>10. ASSUME end = Len(w) + 1
       PROVE  /\ IsNumber(t) <=> digits # <<>> /\ From(w, end) = <<>>
              /\ digits = t
  <2>1. \A k \in 1..Len(t) : t[k] \in DigitSet
    <3>1. \A k \in 1..Len(t) : from + k - 1 \in from..(end - 1)
      BY <1>1, <1>4, <1>10
    <3> QED
      BY <1>3, <1>4, <3>1
  <2> QED
    BY <1>7, <1>8, <1>9, <1>10, <2>1
<1>11. ASSUME end # Len(w) + 1
       PROVE  ~IsNumber(t) /\ From(w, end) # <<>>
  <2>1. end \in from..Len(w)
    BY <1>1, <1>3, <1>11
  <2>2. end - from + 1 \in 1..(Len(w) - from + 1) /\ from + (end - from + 1) - 1 = end
    BY <1>1, <2>1
  <2>3. t[end - from + 1] \notin DigitSet
    BY <1>3, <1>4, <2>1, <2>2
  <2>4. ~IsNumber(t)
    BY <1>4, <1>9, <2>2, <2>3
  <2> QED
    BY <1>7, <1>11, <2>4
<1> QED
  BY <1>7, <1>8, <1>10, <1>11 DEF end, digits, t

(* The number operator>> reads, when nothing follows it, is the one number *)
(* the word stands for.                                                    *)
LEMMA NumberRead ==
  ASSUME NEW r \in Seq(Byte)
  PROVE  LET id == Numeral(r)
             w == SkipBlanks(r)
         IN  /\ id.ok /\ id.rest = <<>> => w # <<>> /\ Numbers(w) = {id.value}
                                           /\ id.value \in Int32
             /\ ~(id.ok /\ id.rest = <<>>) => (w # <<>> => Numbers(w) = {})
<1> DEFINE w == SkipBlanks(r)
           id == Numeral(r)
           from == IF w # <<>> /\ w[1] \in {Plus, Minus} THEN 2 ELSE 1
           end == FirstIn(w, Byte \ DigitSet, from)
           digits == SubSeq(w, from, end - 1)
           signed == IF w # <<>> /\ w[1] = Minus THEN -Value(digits) ELSE Value(digits)
<1>1. w \in Seq(Byte) /\ Len(w) \in Nat
  BY WordTypes
<1>2. id = [ok |-> digits # <<>> /\ signed \in Int32, value |-> signed, rest |-> From(w, end)]
  BY DEF Numeral
<1>3. /\ id.ok <=> digits # <<>> /\ signed \in Int32
      /\ id.value = signed /\ id.rest = From(w, end)
  <2> HIDE DEF id, w, end, digits, signed
  <2> QED
    BY <1>2
<1> HIDE DEF id, signed
<1>4. CASE w = <<>>
  <2>1. from = 1 /\ 1 \in 1..(Len(w) + 1)
    BY <1>1, <1>4
  <2>2. From(w, 1) = <<>>
    <3>1. From(w, 1) \in Seq(Byte) /\ Len(From(w, 1)) = Len(w) - 1 + 1
      BY <1>1, <2>1, FromIs
    <3>2. Len(w) = 0
      <4> HIDE DEF w
      <4> QED
        BY <1>4
    <3>3. Len(From(w, 1)) = 0
      BY <3>1, <3>2
    <3> DEFINE u == From(w, 1)
    <3> HIDE DEF u
    <3>4. u = <<>>
      BY <3>1, <3>3 DEF u
    <3> QED
      BY <3>4 DEF u
  <2>3. ~IsNumber(From(w, 1))
    BY <2>2 DEF IsNumber
  <2>4. ~(digits # <<>> /\ From(w, end) = <<>>)
    <3> HIDE DEF w
    <3>1. IsNumber(From(w, 1)) <=> SubSeq(w, 1, FirstIn(w, Byte \ DigitSet, 1) - 1) # <<>>
                                   /\ From(w, FirstIn(w, Byte \ DigitSet, 1)) = <<>>
      BY <1>1, <2>1, DigitsRead
    <3> QED
      BY <2>1, <2>3, <3>1
  <2> QED
    BY <1>3, <1>4, <2>4 DEF id
<1>5. CASE w # <<>>
  <2> DEFINE t == From(w, from)
             P == IsNumber(w)
             Q == IsNumber(Tail(w))
             v == Value(w)
             vt == Value(Tail(w))
  <2>1. Len(w) >= 1 /\ from \in 1..(Len(w) + 1)
    BY <1>1, <1>5
  <2>2. /\ IsNumber(t) <=> digits # <<>> /\ From(w, end) = <<>>
        /\ From(w, end) = <<>> => digits = t
    <3> HIDE DEF w, from
    <3> QED
      BY <1>1, <2>1, DigitsRead
  <2>3. From(w, 1) = w
    <3>1. From(w, 1) \in Seq(Byte) /\ Len(From(w, 1)) = Len(w) - 1 + 1
          /\ \A k \in 1..(Len(w) - 1 + 1) : From(w, 1)[k] = w[1 + k - 1]
      BY <1>1, <2>1, FromIs
    <3>2. Len(w) - 1 + 1 = Len(w) /\ \A k \in 1..Len(w) : 1 + k - 1 = k
      BY <1>1
    <3> HIDE DEF w
    <3> QED
      BY <1>1, <3>1, <3>2, SeqEqual
  <2>4. From(w, 2) = Tail(w)
    <3>1. 2 \in 1..(Len(w) + 1)
      BY <1>1, <2>1
    <3>2. From(w, 2) \in Seq(Byte) /\ Len(From(w, 2)) = Len(w) - 2 + 1
          /\ \A k \in 1..(Len(w) - 2 + 1) : From(w, 2)[k] = w[2 + k - 1]
      BY <1>1, <3>1, FromIs
    <3> HIDE DEF w
    <3>3. /\ Tail(w) \in Seq(Byte) /\ Len(Tail(w)) = Len(w) - 1
          /\ \A k \in 1..(Len(w) - 1) : Tail(w)[k] = w[k + 1]
      BY <1>1, <1>5, HeadTailProperties
    <3>4. Len(w) - 2 + 1 = Len(w) - 1 /\ \A k \in 1..(Len(w) - 1) : 2 + k - 1 = k + 1
      BY <1>1
    <3> QED
      BY <3>2, <3>3, <3>4, SeqEqual
  <2>5. P \in BOOLEAN /\ Q \in BOOLEAN
    BY DEF IsNumber
  <2>6. P => w[1] \in DigitSet
    <3>1. 1 \in DOMAIN w
      BY <1>1, <2>1
    <3> QED
      BY <3>1 DEF IsNumber
  <2>7. Numbers(w) = ({v : x \in {x \in {w} : P}}
                        \union {vt : x \in {x \in {w} : w[1] = Plus /\ Q}}
                        \union {-vt : x \in {x \in {w} : w[1] = Minus /\ Q}}) \cap Int32
    BY DEF Numbers
  <2> DEFINE all == digits # <<>> /\ From(w, end) = <<>>
  <2>8. id.ok /\ id.rest = <<>> <=> all /\ signed \in Int32
    BY <1>3
  <2>9. all <=> IsNumber(t)
    BY <2>2
  <2>10. all => digits = t
    BY <2>2
  <2> HIDE DEF P, Q, v, vt, all, end, digits
  <2>11. CASE w[1] = Plus
    <3>1. from = 2 /\ w[1] # Minus /\ ~P
      BY <1>5, <2>5, <2>6, <2>11, SignAssumption
    <3>2. t = Tail(w)
      BY <2>4, <3>1
    <3>3. all <=> Q
      BY <2>5, <2>9, <3>2 DEF Q, all
    <3>4. all => signed = vt
      BY <2>10, <3>1, <3>2 DEF signed, vt
    <3> HIDE DEF w, t, from
    <3>5. Q => Numbers(w) = {vt} \cap Int32
      BY <2>7, <2>11, <3>1
    <3>6. ~Q => Numbers(w) = {}
      BY <2>7, <2>11, <3>1
    <3> QED
      BY <1>3, <1>5, <2>5, <2>8, <3>3, <3>4, <3>5, <3>6 DEF w, id, all
  <2>12. CASE w[1] = Minus
    <3>1. from = 2 /\ w[1] # Plus /\ ~P
      BY <1>5, <2>5, <2>6, <2>12, SignAssumption
    <3>2. t = Tail(w)
      BY <2>4, <3>1
    <3>3. all <=> Q
      BY <2>5, <2>9, <3>2 DEF Q, all
    <3>4. all => signed = -vt
      BY <1>5, <2>10, <2>12, <3>1, <3>2 DEF signed, vt
    <3> HIDE DEF w, t, from
    <3>5. Q => Numbers(w) = {-vt} \cap Int32
      BY <2>7, <2>12, <3>1
    <3>6. ~Q => Numbers(w) = {}
      BY <2>7, <2>12, <3>1
    <3> QED
      BY <1>3, <1>5, <2>5, <2>8, <3>3, <3>4, <3>5, <3>6 DEF w, id, all
  <2>13. CASE w[1] # Plus /\ w[1] # Minus
    <3>1. from = 1
      BY <2>13
    <3>2. t = w
      BY <2>3, <3>1
    <3>3. all <=> P
      BY <2>5, <2>9, <3>2 DEF P, all
    <3>4. all => signed = v
      BY <2>10, <2>13, <3>2 DEF signed, v
    <3> HIDE DEF w, t, from
    <3>5. P => Numbers(w) = {v} \cap Int32
      BY <2>7, <2>13
    <3>6. ~P => Numbers(w) = {}
      BY <2>7, <2>13
    <3> QED
      BY <1>3, <1>5, <2>5, <2>8, <3>3, <3>4, <3>5, <3>6 DEF w, id, all
  <2> QED
    BY <2>11, <2>12, <2>13
<1> QED
  BY <1>4, <1>5
-----------------------------------------------------------------------------
(* A frame that begins with another one.                                   *)
Begun(f, g) ==
    /\ f \in Seq(Byte) /\ g \in Seq(Byte) /\ Len(f) <= Len(g)
    /\ \A k \in 1..Len(f) : g[k] = f[k]

LEMMA BegunKeeps ==
  ASSUME NEW f, NEW g, Begun(f, g)
  PROVE  /\ \A t : Begins(f, t) => Begins(g, t)
         /\ \A at \in Nat : StringsAt(f, at) \subseteq StringsAt(g, at)
         /\ \A t : PairsOf(f, t) \subseteq PairsOf(g, t)
<1>1. /\ f \in Seq(Byte) /\ g \in Seq(Byte) /\ Len(f) \in Nat /\ Len(g) \in Nat
      /\ Len(f) <= Len(g) /\ \A k \in 1..Len(f) : g[k] = f[k]
      /\ DWordSize \in Nat /\ DWordSize > 0 /\ MAX_FIELD_LENGTH \in Nat
  BY PacketAssumption DEF Begun
<1>2. ASSUME NEW a \in Nat, NEW b \in Nat, a > 0, b <= Len(f)
      PROVE  SubSeq(g, a, b) = SubSeq(f, a, b)
  <2>1. b <= Len(g) /\ \A k \in 1..b : g[k] = f[k]
    BY <1>1, <1>2
  <2> QED
    BY <1>1, <1>2, <2>1, SamePart
<1>3. ASSUME NEW t, Begins(f, t)
      PROVE  Begins(g, t)
  <2>1. Len(f) >= DWordSize /\ SubSeq(f, 1, DWordSize) = htonl(t)
    BY <1>3 DEF Begins
  <2>2. SubSeq(g, 1, DWordSize) = SubSeq(f, 1, DWordSize) /\ Len(g) >= DWordSize
    BY <1>1, <1>2, <2>1
  <2> QED
    BY <2>1, <2>2 DEF Begins
<1>4. ASSUME NEW at \in Nat, NEW x \in StringsAt(f, at)
      PROVE  x \in StringsAt(g, at)
  <2>1. PICK n \in 1..(Len(f) - at - DWordSize) :
          /\ n <= MAX_FIELD_LENGTH /\ SubSeq(f, at + 1, at + DWordSize) = htonl(n)
          /\ x = <<SubSeq(f, at + DWordSize + 1, at + DWordSize + n - 1), at + DWordSize + n>>
    BY <1>4 DEF StringsAt
  <2>2. /\ at + 1 \in Nat /\ at + 1 > 0 /\ at + DWordSize \in Nat /\ at + DWordSize <= Len(f)
        /\ at + DWordSize + 1 \in Nat /\ at + DWordSize + 1 > 0
        /\ at + DWordSize + n - 1 \in Nat /\ at + DWordSize + n - 1 <= Len(f)
        /\ n \in 1..(Len(g) - at - DWordSize)
    BY <1>1, <2>1
  <2>3. SubSeq(g, at + 1, at + DWordSize) = htonl(n)
    BY <1>2, <2>1, <2>2
  <2>4. SubSeq(g, at + DWordSize + 1, at + DWordSize + n - 1)
          = SubSeq(f, at + DWordSize + 1, at + DWordSize + n - 1)
    BY <1>2, <2>2
  <2>5. x = <<SubSeq(g, at + DWordSize + 1, at + DWordSize + n - 1), at + DWordSize + n>>
    BY <2>1, <2>4
  <2> QED
    BY <2>1, <2>2, <2>3, <2>5 DEF StringsAt
<1>5. ASSUME NEW t, NEW x \in PairsOf(f, t)
      PROVE  x \in PairsOf(g, t)
  <2>1. PICK a \in {a \in StringsAt(f, DWordSize) : Begins(f, t)} :
          x \in {<<a[1], b[1], b[2]>> : b \in StringsAt(f, a[2])}
    BY <1>5 DEF PairsOf
  <2>2. PICK b \in StringsAt(f, a[2]) : x = <<a[1], b[1], b[2]>>
    BY <2>1
  <2>3. a \in StringsAt(g, DWordSize) /\ Begins(g, t)
    BY <1>1, <1>3, <1>4, <2>1
  <2>4. a[2] \in Nat
    <3>1. PICK n \in 1..(Len(f) - DWordSize - DWordSize) :
            a = <<SubSeq(f, DWordSize + DWordSize + 1, DWordSize + DWordSize + n - 1),
                  DWordSize + DWordSize + n>>
      BY <2>1 DEF StringsAt
    <3> QED
      BY <1>1, <3>1
  <2>5. b \in StringsAt(g, a[2])
    BY <1>4, <2>2, <2>4
  <2> QED
    BY <2>2, <2>3, <2>5 DEF PairsOf
<1> QED
  BY <1>3, <1>4, <1>5

LEMMA BegunTwice ==
  ASSUME NEW f, NEW g, NEW h, Begun(f, g), Begun(g, h)
  PROVE  Begun(f, h)
<1>1. Len(f) \in Nat /\ Len(g) \in Nat /\ Len(h) \in Nat
  BY DEF Begun
<1>2. \A k \in 1..Len(f) : k \in 1..Len(g)
  BY <1>1 DEF Begun
<1> QED
  BY <1>1, <1>2 DEF Begun

-----------------------------------------------------------------------------
(* A packet the client writes: the index is at its end.                    *)
AtEnd(p) == p \in Packets /\ p.m_cur = Len(p.m_buff)

LEMMA WriteAtEnd ==
  ASSUME NEW p, AtEnd(p), NEW s \in Seq(Byte)
  PROVE  LET q == writeForward(p, s)
         IN  /\ AtEnd(q) /\ Begun(p.m_buff, q.m_buff)
             /\ Len(q.m_buff) = Len(p.m_buff) + Len(s)
             /\ SubSeq(q.m_buff, Len(p.m_buff) + 1, Len(q.m_buff)) = s
<1> DEFINE q == writeForward(p, s)
           n == Len(p.m_buff)
           more == [i \in 1..(Len(s) - bytesLeft(p)) |-> 0]
<1>1. /\ p \in Packets /\ p.m_cur = n /\ n \in Nat /\ Len(s) \in Nat
      /\ p.m_buff \in Seq(Byte) /\ bytesLeft(p) = 0
  BY BytesLeftType DEF AtEnd
<1>2. /\ q \in Packets /\ q.m_cur = p.m_cur + Len(s)
      /\ \A i \in 1..p.m_cur : q.m_buff[i] = p.m_buff[i]
      /\ \A i \in 1..Len(s) : q.m_buff[p.m_cur + i] = s[i]
  BY <1>1, WriteForwardWrites
<1>3. q.m_buff \in Seq(Byte)
  BY <1>2, BytesLeftType
<1>4. Len(q.m_buff) = n + Len(s)
  <2> DEFINE r == allocateForward(p, Len(s))
  <2>1. Len(r.m_buff) = n + Len(s)
    <3>1. CASE Len(s) <= bytesLeft(p)
      <4>1. r = p
        BY <3>1 DEF allocateForward
      <4> QED
        BY <1>1, <3>1, <4>1
    <3>2. CASE ~(Len(s) <= bytesLeft(p))
      <4>1. r = [m_buff |-> p.m_buff \o more, m_cur |-> p.m_cur]
        BY <1>1, <3>2 DEF allocateForward, Packets
      <4>2. more \in Seq(Byte) /\ Len(more) = Len(s)
        <5>1. Len(s) - bytesLeft(p) = Len(s) /\ 0 \in Byte
          BY <1>1, PacketAssumption DEF Byte
        <5> QED
          BY <1>1, <5>1
      <4> HIDE DEF more
      <4>3. r.m_buff = p.m_buff \o more
        BY <4>1
      <4>4. Len(p.m_buff \o more) = Len(p.m_buff) + Len(more)
        BY <1>1, <4>2, Joined
      <4> HIDE DEF r
      <4> QED
        BY <1>1, <4>2, <4>3, <4>4
    <3> QED
      BY <3>1, <3>2
  <2>2. q.m_buff = [i \in 1..Len(r.m_buff) |->
                      IF i > p.m_cur /\ i <= p.m_cur + Len(s) THEN s[i - p.m_cur] ELSE r.m_buff[i]]
    BY DEF writeForward
  <2> HIDE DEF r, q, n
  <2>3. Len(r.m_buff) \in Nat
    BY <1>1, <2>1
  <2>4. DOMAIN q.m_buff = 1..Len(r.m_buff) /\ DOMAIN q.m_buff = 1..Len(q.m_buff)
    BY <1>3, <2>2
  <2>5. Len(q.m_buff) = Len(r.m_buff)
    BY <1>3, <2>3, <2>4
  <2> QED
    BY <2>1, <2>5
<1> HIDE DEF q
<1>5. AtEnd(q) /\ Begun(p.m_buff, q.m_buff)
  BY <1>1, <1>2, <1>3, <1>4 DEF AtEnd, Begun
<1>6. SubSeq(q.m_buff, n + 1, n + Len(s)) = s
  <2>1. /\ n + 1 \in 1..(Len(q.m_buff) + 1) /\ n + Len(s) \in 0..Len(q.m_buff)
        /\ n + 1 <= (n + Len(s)) + 1 /\ (n + Len(s)) - (n + 1) + 1 = Len(s)
        /\ \A k \in 1..Len(s) : (n + 1) + k - 1 = n + k
    BY <1>1, <1>4
  <2> DEFINE u == SubSeq(q.m_buff, n + 1, n + Len(s))
             a == n + 1
             b == n + Len(s)
  <2>2. /\ u \in Seq(Byte) /\ Len(u) = (n + Len(s)) - (n + 1) + 1
        /\ \A k \in 1..((n + Len(s)) - (n + 1) + 1) : u[k] = q.m_buff[(n + 1) + k - 1]
    <3>1. a \in 1..(Len(q.m_buff) + 1) /\ b \in 0..Len(q.m_buff) /\ a <= b + 1
      BY <2>1
    <3> HIDE DEF a, b
    <3>2. /\ SubSeq(q.m_buff, a, b) \in Seq(Byte) /\ Len(SubSeq(q.m_buff, a, b)) = b - a + 1
          /\ \A k \in 1..(b - a + 1) : SubSeq(q.m_buff, a, b)[k] = q.m_buff[a + k - 1]
      BY <1>3, <3>1, Part
    <3> QED
      BY <3>2 DEF a, b
  <2> HIDE DEF u
  <2>3. \A k \in 1..Len(s) : u[k] = s[k]
    BY <1>1, <1>2, <2>1, <2>2
  <2>4. Len(u) = Len(s)
    BY <2>1, <2>2
  <2> QED
    BY <2>2, <2>3, <2>4, SeqEqual DEF u
<1> QED
  BY <1>4, <1>5, <1>6 DEF q

(* A field that is written is there to be read, and so are the earlier     *)
(* ones.                                                                   *)
LEMMA FieldAtEnd ==
  ASSUME NEW p, AtEnd(p), NEW u \in Seq(Byte), Len(u) + 1 <= MAX_FIELD_LENGTH
  PROVE  LET q == writeForwardStringField(p, u)
         IN  /\ AtEnd(q) /\ Begun(p.m_buff, q.m_buff)
             /\ <<u, Len(q.m_buff)>> \in StringsAt(q.m_buff, Len(p.m_buff))
<1> DEFINE n == Len(u) + 1
           z == Append(u, NUL)
           r == writeForward(p, htonl(n))
           q == writeForward(r, z)
           at == Len(p.m_buff)
<1>1. writeForwardStringField(p, u) = q
  <2>1. ~(Len(u) + 1 > MAX_FIELD_LENGTH)
    BY PacketAssumption
  <2> QED
    BY <2>1 DEF writeForwardStringField, writeForwardDWord
<1>2. /\ n \in Nat /\ n >= 1 /\ n <= MAX_FIELD_LENGTH /\ at \in Nat
      /\ DWordSize \in Nat /\ DWordSize > 0 /\ MAX_FIELD_LENGTH \in Nat /\ Len(u) = n - 1
  BY PacketAssumption, BytesLeftType DEF AtEnd
<1>3. /\ z \in Seq(Byte) /\ Len(z) = n /\ \A k \in 1..Len(u) : z[k] = u[k]
  <2>1. NUL \in Byte
    BY PacketAssumption DEF Byte, NUL
  <2> QED
    BY <2>1, AppendProperties
<1>4. htonl(n) \in Seq(Byte) /\ Len(htonl(n)) = DWordSize
  BY <1>2, htonlBytes
<1> HIDE DEF n, z
<1>5. /\ AtEnd(r) /\ Begun(p.m_buff, r.m_buff)
      /\ Len(r.m_buff) = at + DWordSize
      /\ SubSeq(r.m_buff, at + 1, at + DWordSize) = htonl(n)
  <2>1. /\ AtEnd(r) /\ Begun(p.m_buff, r.m_buff)
        /\ Len(r.m_buff) = Len(p.m_buff) + Len(htonl(n))
        /\ SubSeq(r.m_buff, Len(p.m_buff) + 1, Len(r.m_buff)) = htonl(n)
    BY <1>4, WriteAtEnd
  <2> QED
    BY <1>4, <2>1
<1> HIDE DEF r
<1>6. /\ AtEnd(q) /\ Begun(r.m_buff, q.m_buff)
      /\ Len(q.m_buff) = Len(r.m_buff) + n
      /\ SubSeq(q.m_buff, Len(r.m_buff) + 1, Len(q.m_buff)) = z
  <2>1. /\ AtEnd(q) /\ Begun(r.m_buff, q.m_buff)
        /\ Len(q.m_buff) = Len(r.m_buff) + Len(z)
        /\ SubSeq(q.m_buff, Len(r.m_buff) + 1, Len(q.m_buff)) = z
    BY <1>3, <1>5, WriteAtEnd
  <2> QED
    BY <1>3, <2>1
<1> HIDE DEF q, at
<1>7. Len(q.m_buff) = at + DWordSize + n /\ n \in 1..(Len(q.m_buff) - at - DWordSize)
  BY <1>2, <1>5, <1>6
<1>8. /\ q.m_buff \in Seq(Byte) /\ r.m_buff \in Seq(Byte)
      /\ \A k \in 1..(at + DWordSize) : q.m_buff[k] = r.m_buff[k]
  BY <1>5, <1>6 DEF Begun
<1>9. SubSeq(q.m_buff, at + 1, at + DWordSize) = htonl(n)
  <2>1. /\ at + 1 \in Nat /\ at + DWordSize \in Nat /\ at + 1 > 0
        /\ at + DWordSize <= Len(q.m_buff) /\ at + DWordSize <= Len(r.m_buff)
    BY <1>2, <1>5, <1>7
  <2> QED
    BY <1>5, <1>8, <2>1, SamePart
<1>10. SubSeq(q.m_buff, at + DWordSize + 1, at + DWordSize + n - 1) = u
  <2> DEFINE v == SubSeq(q.m_buff, at + DWordSize + 1, at + DWordSize + n - 1)
             a == at + DWordSize
  <2>1. /\ a \in Nat /\ a + 1 \in 1..(Len(q.m_buff) + 1) /\ a + n - 1 \in 0..Len(q.m_buff)
        /\ a + 1 <= (a + n - 1) + 1 /\ (a + n - 1) - (a + 1) + 1 = n - 1
        /\ a + n \in 0..Len(q.m_buff) /\ a + 1 <= (a + n) + 1 /\ (a + n) - (a + 1) + 1 = n
    BY <1>2, <1>7
  <2>2. SubSeq(q.m_buff, a + 1, a + n) = z
    BY <1>5, <1>6, <1>7
  <2> HIDE DEF a
  <2>3. \A k \in 1..n : z[k] = q.m_buff[(a + 1) + k - 1]
    <3>1. \A k \in 1..((a + n) - (a + 1) + 1) :
            SubSeq(q.m_buff, a + 1, a + n)[k] = q.m_buff[(a + 1) + k - 1]
      BY <1>8, <2>1, Part
    <3> QED
      BY <2>1, <2>2, <3>1
  <2>4. /\ SubSeq(q.m_buff, a + 1, a + n - 1) \in Seq(Byte)
        /\ Len(SubSeq(q.m_buff, a + 1, a + n - 1)) = n - 1
        /\ \A k \in 1..(n - 1) :
             SubSeq(q.m_buff, a + 1, a + n - 1)[k] = q.m_buff[(a + 1) + k - 1]
    <3>1. /\ SubSeq(q.m_buff, a + 1, a + n - 1) \in Seq(Byte)
          /\ Len(SubSeq(q.m_buff, a + 1, a + n - 1)) = (a + n - 1) - (a + 1) + 1
          /\ \A k \in 1..((a + n - 1) - (a + 1) + 1) :
               SubSeq(q.m_buff, a + 1, a + n - 1)[k] = q.m_buff[(a + 1) + k - 1]
      BY <1>8, <2>1, Part
    <3> QED
      BY <2>1, <3>1
  <2>5. v = SubSeq(q.m_buff, a + 1, a + n - 1)
    BY DEF a
  <2> HIDE DEF v
  <2>6. \A k \in 1..(n - 1) : k \in 1..n /\ v[k] = u[k]
    BY <1>2, <1>3, <2>3, <2>4, <2>5
  <2> QED
    BY <1>2, <2>4, <2>5, <2>6, SeqEqual DEF v
<1>11. <<u, Len(q.m_buff)>> \in StringsAt(q.m_buff, at)
  BY <1>2, <1>7, <1>9, <1>10 DEF StringsAt
<1>12. Begun(p.m_buff, q.m_buff)
  BY <1>5, <1>6, BegunTwice
<1> QED
  BY <1>1, <1>6, <1>11, <1>12 DEF q, r, z, n, at

(* The type in front, and one or two fields behind it.                     *)
LEMMA TypeAtEnd ==
  ASSUME NEW t \in Int
  PROVE  LET p == TypePacket(t)
         IN  AtEnd(p) /\ Begins(p.m_buff, t) /\ Len(p.m_buff) = DWordSize
<1> DEFINE p == TypePacket(t)
<1>1. AtEnd(EmptyPacket) /\ EmptyPacket.m_buff = <<>> /\ Len(EmptyPacket.m_buff) = 0
  BY DEF EmptyPacket, Packets, AtEnd
<1>2. htonl(t) \in Seq(Byte) /\ Len(htonl(t)) = DWordSize /\ DWordSize \in Nat
  BY htonlBytes, PacketAssumption
<1>3. p = writeForward(EmptyPacket, htonl(t))
  BY DEF TypePacket, writeForwardDWord
<1>4. /\ AtEnd(p) /\ Len(p.m_buff) = Len(EmptyPacket.m_buff) + Len(htonl(t))
      /\ SubSeq(p.m_buff, Len(EmptyPacket.m_buff) + 1, Len(p.m_buff)) = htonl(t)
  BY <1>1, <1>2, <1>3, WriteAtEnd
<1> HIDE DEF p
<1>5. Len(p.m_buff) = DWordSize /\ Len(EmptyPacket.m_buff) + 1 = 1
  BY <1>1, <1>2, <1>4
<1>6. SubSeq(p.m_buff, 1, DWordSize) = htonl(t)
  BY <1>4, <1>5
<1> QED
  BY <1>2, <1>4, <1>5, <1>6 DEF Begins, p

LEMMA IdAtEnd ==
  ASSUME NEW t \in Int, NEW id \in Int32
  PROVE  id \in IdsOf(MailIdPacket(t, id).m_buff, t)
<1> DEFINE p == TypePacket(t)
           q == MailIdPacket(t, id)
<1>1. AtEnd(p) /\ Begins(p.m_buff, t) /\ Len(p.m_buff) = DWordSize
  BY TypeAtEnd
<1>2. id \in Int
  BY DEF Int32
<1>3. htonl(id) \in Seq(Byte) /\ Len(htonl(id)) = DWordSize /\ DWordSize \in Nat
  BY <1>2, htonlBytes, PacketAssumption
<1>4. q = writeForward(p, htonl(id))
  BY DEF MailIdPacket, writeForwardDWord
<1> HIDE DEF p, q
<1>5. /\ Begun(p.m_buff, q.m_buff)
      /\ Len(q.m_buff) = Len(p.m_buff) + Len(htonl(id))
      /\ SubSeq(q.m_buff, Len(p.m_buff) + 1, Len(q.m_buff)) = htonl(id)
  BY <1>1, <1>3, <1>4, WriteAtEnd
<1>6. Len(q.m_buff) = 2 * DWordSize
  BY <1>1, <1>3, <1>5
<1>7. Begins(q.m_buff, t)
  BY <1>1, <1>5, BegunKeeps
<1>8. SubSeq(q.m_buff, DWordSize + 1, 2 * DWordSize) = htonl(id)
  BY <1>1, <1>5, <1>6
<1> QED
  BY <1>3, <1>6, <1>7, <1>8 DEF IdsOf, q

LEMMA TwoAtEnd ==
  ASSUME NEW t \in Int, NEW u \in Seq(Byte), NEW v \in Seq(Byte),
         Len(u) + 1 <= MAX_FIELD_LENGTH, Len(v) + 1 <= MAX_FIELD_LENGTH
  PROVE  LET q == writeForwardStringField(writeForwardStringField(TypePacket(t), u), v)
         IN  AtEnd(q) /\ <<u, v, Len(q.m_buff)>> \in PairsOf(q.m_buff, t)
<1> DEFINE p == TypePacket(t)
           r == writeForwardStringField(p, u)
           q == writeForwardStringField(r, v)
<1>1. AtEnd(p) /\ Begins(p.m_buff, t) /\ Len(p.m_buff) = DWordSize
  BY TypeAtEnd
<1> HIDE DEF p
<1>2. /\ AtEnd(r) /\ Begun(p.m_buff, r.m_buff)
      /\ <<u, Len(r.m_buff)>> \in StringsAt(r.m_buff, Len(p.m_buff))
  BY <1>1, FieldAtEnd
<1> HIDE DEF r
<1>3. /\ AtEnd(q) /\ Begun(r.m_buff, q.m_buff)
      /\ <<v, Len(q.m_buff)>> \in StringsAt(q.m_buff, Len(r.m_buff))
  BY <1>2, FieldAtEnd
<1> HIDE DEF q
<1>4. <<u, Len(r.m_buff)>> \in StringsAt(q.m_buff, DWordSize) /\ Begins(q.m_buff, t)
  <2>1. DWordSize \in Nat
    BY PacketAssumption
  <2>2. Begun(p.m_buff, q.m_buff)
    BY <1>2, <1>3, BegunTwice
  <2>3. StringsAt(r.m_buff, DWordSize) \subseteq StringsAt(q.m_buff, DWordSize)
    BY <1>3, <2>1, BegunKeeps
  <2> QED
    BY <1>1, <1>2, <2>2, <2>3, BegunKeeps
<1> DEFINE a == <<u, Len(r.m_buff)>>
           b == <<v, Len(q.m_buff)>>
           A == {f \in StringsAt(q.m_buff, DWordSize) : Begins(q.m_buff, t)}
<1>5. a \in A /\ a[1] = u /\ a[2] = Len(r.m_buff) /\ b[1] = v /\ b[2] = Len(q.m_buff)
  BY <1>4
<1>6. b \in StringsAt(q.m_buff, a[2])
  BY <1>3, <1>5
<1> HIDE DEF a, b
<1>7. <<a[1], b[1], b[2]>> \in PairsOf(q.m_buff, t)
  BY <1>5, <1>6 DEF PairsOf
<1> QED
  BY <1>3, <1>5, <1>7 DEF q, r, p

(* What a frame that is understood has in it, is what is understood.       *)
LEMMA OneMeant ==
  ASSUME NEW frame \in Seq(Byte), NEW r \in Encoded(frame)
  PROVE  Means({r}, Understood(frame))
<1>1. Means(Encoded(frame), Understood(frame))
  BY FrameIsRead
<1> DEFINE u == Understood(frame)
<1> HIDE DEF u
<1>2. IF IsRequest(u) THEN \A x \in Encoded(frame) : Agree(x, u) ELSE Encoded(frame) = {}
  BY <1>1 DEF Means, u
<1>3. IF IsRequest(u) THEN {r} # {} /\ \A x \in {r} : Agree(x, u) ELSE {r} = {}
  BY <1>2
<1> QED
  BY <1>3 DEF Means, u

(* The packets of the client encode their requests.                        *)
LEMMA PlainSent ==
  /\ Plain("SHOW_INBOX") \in Encoded(TypePacket(COMMANDTYPE_SHOW_INBOX_REQ).m_buff)
  /\ Plain("QUIT") \in Encoded(TypePacket(COMMANDTYPE_QUIT_REQ).m_buff)
  /\ Plain("SHOW_ONLINE_USERS")
       \in Encoded(TypePacket(COMMANDTYPE_SHOW_ONLINE_USERS_REQ).m_buff)
<1>1. \A t \in Int : Begins(TypePacket(t).m_buff, t)
  BY TypeAtEnd
<1>2. \A frame : PlainsOf(frame) \subseteq Encoded(frame)
  BY EncodedParts
<1>3. Plain("SHOW_INBOX") \in PlainsOf(TypePacket(COMMANDTYPE_SHOW_INBOX_REQ).m_buff)
  BY <1>1, TypesAreNumbers, PlainsRead
<1>4. Plain("QUIT") \in PlainsOf(TypePacket(COMMANDTYPE_QUIT_REQ).m_buff)
  BY <1>1, TypesAreNumbers, PlainsRead
<1>5. Plain("SHOW_ONLINE_USERS")
        \in PlainsOf(TypePacket(COMMANDTYPE_SHOW_ONLINE_USERS_REQ).m_buff)
  BY <1>1, TypesAreNumbers, PlainsRead
<1> QED
  BY <1>2, <1>3, <1>4, <1>5

LEMMA MailIdSent ==
  ASSUME NEW id \in Int32
  PROVE  /\ [type |-> "GET_MAIL", id |-> id]
              \in Encoded(MailIdPacket(COMMANDTYPE_GET_MAIL_REQ, id).m_buff)
         /\ [type |-> "DELETE_MAIL", id |-> id]
              \in Encoded(MailIdPacket(COMMANDTYPE_DELETE_MAIL_REQ, id).m_buff)
<1>1. \A frame : GetsOf(frame) \union DeletesOf(frame) \subseteq Encoded(frame)
  BY EncodedParts
<1>2. [type |-> "GET_MAIL", id |-> id]
        \in GetsOf(MailIdPacket(COMMANDTYPE_GET_MAIL_REQ, id).m_buff)
  <2>1. id \in IdsOf(MailIdPacket(COMMANDTYPE_GET_MAIL_REQ, id).m_buff, COMMANDTYPE_GET_MAIL_REQ)
    BY TypesAreNumbers, IdAtEnd
  <2> QED
    BY <2>1 DEF GetsOf
<1>3. [type |-> "DELETE_MAIL", id |-> id]
        \in DeletesOf(MailIdPacket(COMMANDTYPE_DELETE_MAIL_REQ, id).m_buff)
  <2>1. id \in IdsOf(MailIdPacket(COMMANDTYPE_DELETE_MAIL_REQ, id).m_buff,
                     COMMANDTYPE_DELETE_MAIL_REQ)
    BY TypesAreNumbers, IdAtEnd
  <2> QED
    BY <2>1 DEF DeletesOf
<1> QED
  BY <1>1, <1>2, <1>3

LEMMA LoginSent ==
  ASSUME NEW u \in Seq(Byte), NEW p \in Seq(Byte),
         Len(u) + 1 <= MAX_FIELD_LENGTH, Len(p) + 1 <= MAX_FIELD_LENGTH
  PROVE  [type |-> "LOGIN", user |-> u, pass |-> p] \in Encoded(LoginPacket(u, p).m_buff)
<1> DEFINE frame == LoginPacket(u, p).m_buff
           f == <<u, p, Len(frame)>>
<1>1. f \in PairsOf(frame, COMMANDTYPE_LOGIN_REQ)
  BY TypesAreNumbers, TwoAtEnd DEF LoginPacket
<1>2. f[1] = u /\ f[2] = p
  OBVIOUS
<1> HIDE DEF frame, f
<1>3. [type |-> "LOGIN", user |-> f[1], pass |-> f[2]] \in LoginsOf(frame)
  BY <1>1 DEF LoginsOf
<1> QED
  BY <1>2, <1>3, EncodedParts DEF frame

LEMMA ChatSent ==
  ASSUME NEW to \in Seq(Byte), NEW text \in Seq(Byte),
         Len(to) + 1 <= MAX_FIELD_LENGTH, Len(text) + 1 <= MAX_FIELD_LENGTH
  PROVE  [type |-> "SEND_CHAT", to |-> to, text |-> text] \in Encoded(ChatPacket(to, text).m_buff)
<1> DEFINE frame == ChatPacket(to, text).m_buff
           f == <<to, text, Len(frame)>>
<1>1. f \in PairsOf(frame, COMMANDTYPE_SEND_CHAT_MESSAGE_REQ)
  BY TypesAreNumbers, TwoAtEnd DEF ChatPacket
<1>2. f[1] = to /\ f[2] = text
  OBVIOUS
<1> HIDE DEF frame, f
<1>3. [type |-> "SEND_CHAT", to |-> f[1], text |-> f[2]] \in ChatsOf(frame)
  BY <1>1 DEF ChatsOf
<1> QED
  BY <1>2, <1>3, EncodedParts DEF frame

LEMMA ComposeSent ==
  ASSUME NEW to \in Seq(Byte), NEW subject \in Seq(Byte), NEW body \in Seq(Byte),
         Len(to) + 1 <= MAX_FIELD_LENGTH, Len(subject) + 1 <= MAX_FIELD_LENGTH,
         Len(body) + 1 <= MAX_FIELD_LENGTH
  PROVE  [type |-> "COMPOSE", to |-> to, subject |-> subject, body |-> body]
           \in Encoded(ComposePacket(to, subject, body).m_buff)
<1> DEFINE q == writeForwardStringField(
                  writeForwardStringField(TypePacket(COMMANDTYPE_COMPOSE_REQ), to), subject)
           frame == ComposePacket(to, subject, body).m_buff
           f == <<to, subject, Len(q.m_buff)>>
           g == <<body, Len(frame)>>
<1>1. AtEnd(q) /\ f \in PairsOf(q.m_buff, COMMANDTYPE_COMPOSE_REQ)
  BY TypesAreNumbers, TwoAtEnd
<1>2. ComposePacket(to, subject, body) = writeForwardStringField(q, body)
  BY DEF ComposePacket
<1>3. f[1] = to /\ f[2] = subject /\ f[3] = Len(q.m_buff) /\ g[1] = body
  OBVIOUS
<1> HIDE DEF q, f
<1>4. /\ Begun(q.m_buff, frame)
      /\ <<body, Len(frame)>> \in StringsAt(frame, Len(q.m_buff))
  BY <1>1, <1>2, FieldAtEnd
<1>5. g \in StringsAt(frame, f[3])
  BY <1>3, <1>4
<1> HIDE DEF frame, g
<1>6. f \in PairsOf(frame, COMMANDTYPE_COMPOSE_REQ)
  BY <1>1, <1>4, BegunKeeps
<1>7. [type |-> "COMPOSE", to |-> f[1], subject |-> f[2], body |-> g[1]] \in ComposesOf(frame)
  BY <1>5, <1>6 DEF ComposesOf
<1> QED
  BY <1>3, <1>7, EncodedParts DEF frame
-----------------------------------------------------------------------------
(* The words of the commands and prefixes.                                 *)
IsWord(w) == w \in Seq(Byte \ Blank) /\ w # <<>>

LEMMA WordsKnown ==
  /\ IsWord(COMMAND_SHOW_INBOX) /\ IsWord(COMMAND_GET_MAIL) /\ IsWord(COMMAND_DELETE_MAIL)
  /\ IsWord(COMMAND_COMPOSE) /\ IsWord(COMMAND_QUIT) /\ IsWord(COMMAND_SHOW_USERS)
  /\ IsWord(COMMAND_SEND_CHAT) /\ IsWord(PREFIX_INPUT_USER) /\ IsWord(PREFIX_INPUT_PASSWORD)
  /\ IsWord(PREFIX_INPUT_TO) /\ IsWord(PREFIX_INPUT_SUBJECT) /\ IsWord(PREFIX_INPUT_TEXT)
<1> DEFINE words == <<COMMAND_SHOW_INBOX, COMMAND_GET_MAIL, COMMAND_DELETE_MAIL,
                      COMMAND_COMPOSE, COMMAND_QUIT, COMMAND_SHOW_USERS, COMMAND_SEND_CHAT,
                      PREFIX_INPUT_USER, PREFIX_INPUT_PASSWORD,
                      PREFIX_INPUT_TO, PREFIX_INPUT_SUBJECT, PREFIX_INPUT_TEXT>>
<1>1. \A i \in 1..12 : IsWord(words[i])
  BY WordAssumption DEF IsWord
<1>2. /\ IsWord(words[1]) /\ IsWord(words[2]) /\ IsWord(words[3]) /\ IsWord(words[4])
      /\ IsWord(words[5]) /\ IsWord(words[6]) /\ IsWord(words[7]) /\ IsWord(words[8])
      /\ IsWord(words[9]) /\ IsWord(words[10]) /\ IsWord(words[11]) /\ IsWord(words[12])
  <2> HIDE DEF words
  <2> QED
    BY <1>1
<1> QED
  BY <1>2

LEMMA WordsDiffer ==
  /\ COMMAND_SHOW_INBOX \notin {COMMAND_GET_MAIL, COMMAND_DELETE_MAIL, COMMAND_COMPOSE,
                                COMMAND_QUIT, COMMAND_SHOW_USERS, COMMAND_SEND_CHAT}
  /\ COMMAND_GET_MAIL \notin {COMMAND_DELETE_MAIL, COMMAND_COMPOSE,
                              COMMAND_QUIT, COMMAND_SHOW_USERS, COMMAND_SEND_CHAT}
  /\ COMMAND_DELETE_MAIL \notin {COMMAND_COMPOSE, COMMAND_QUIT, COMMAND_SHOW_USERS,
                                 COMMAND_SEND_CHAT}
  /\ COMMAND_COMPOSE \notin {COMMAND_QUIT, COMMAND_SHOW_USERS, COMMAND_SEND_CHAT,
                             PREFIX_INPUT_USER}
  /\ COMMAND_QUIT \notin {COMMAND_SHOW_USERS, COMMAND_SEND_CHAT}
  /\ COMMAND_SHOW_USERS # COMMAND_SEND_CHAT
<1> DEFINE words == <<COMMAND_SHOW_INBOX, COMMAND_GET_MAIL, COMMAND_DELETE_MAIL,
                      COMMAND_COMPOSE, COMMAND_QUIT, COMMAND_SHOW_USERS, COMMAND_SEND_CHAT,
                      PREFIX_INPUT_USER, PREFIX_INPUT_PASSWORD,
                      PREFIX_INPUT_TO, PREFIX_INPUT_SUBJECT, PREFIX_INPUT_TEXT>>
<1>1. \A i, j \in 1..12 : words[i] = words[j] => i = j
  BY WordAssumption
<1>2. /\ words[1] \notin {words[2], words[3], words[4], words[5], words[6], words[7]}
      /\ words[2] \notin {words[3], words[4], words[5], words[6], words[7]}
      /\ words[3] \notin {words[4], words[5], words[6], words[7]}
      /\ words[4] \notin {words[5], words[6], words[7], words[8]}
      /\ words[5] \notin {words[6], words[7]}
      /\ words[6] # words[7]
  <2> HIDE DEF words
  <2>1. \A i, j \in 1..12 : i # j => words[i] # words[j]
    BY <1>1
  <2> QED
    BY <2>1
<1> QED
  BY <1>2

-----------------------------------------------------------------------------
(* A line that is a command without arguments, one about a mail, a chat;   *)
(* and what each of them asks for.                                         *)
Bare(l, w) == Word(l) = w /\ AfterWord(l) = <<>>
MailAsked(l, w) == Word(l) = w /\ Numeral(AfterWord(l)).ok /\ Numeral(AfterWord(l)).rest = <<>>
MailId(l) == Numeral(AfterWord(l)).value
ChatDest(l) == Word(AfterWord(l))
ChatText(l) == SkipBlanks(AfterWord(AfterWord(l)))
ChatAsked(l) ==
    /\ Word(l) = COMMAND_SEND_CHAT
    /\ ChatDest(l) # <<>> /\ ChatDest(l)[Len(ChatDest(l))] = Colon
    /\ ChatText(l) # <<>>
ChatTo(l) == SubSeq(ChatDest(l), 1, Len(ChatDest(l)) - 1)

Spells(l, w) == UNION {Numbers(d) : d \in Fields(l, w)}

LEMMA SpellsAre ==
  ASSUME NEW l \in Seq(Byte), NEW w, IsWord(w)
  PROVE  /\ MailAsked(l, w) => Spells(l, w) = {MailId(l)} /\ MailId(l) \in Int32
         /\ ~MailAsked(l, w) => Spells(l, w) = {}
<1> DEFINE r == AfterWord(l)
           d == SkipBlanks(r)
           id == Numeral(r)
<1>1. r \in Seq(Byte) /\ (r = <<>> \/ r[1] \in Blank)
  BY AfterWordBegins
<1>2. /\ HasPrefixAndData(l, w) => Fields(l, w) = {d}
      /\ ~HasPrefixAndData(l, w) => Fields(l, w) = {}
      /\ HasPrefixAndData(l, w) <=> Word(l) = w /\ Word(r) # <<>>
  <2>1. DataOf(l) = d
    BY DEF DataOf
  <2>2. HasPrefixAndData(l, w) <=> Word(l) = w /\ Word(r) # <<>>
    BY DEF HasPrefixAndData
  <2> QED
    BY <2>1, <2>2, FieldsAre DEF IsWord
<1> HIDE DEF r
<1>3. Word(r) # <<>> <=> d # <<>>
  BY <1>1, DataIs
<1>4. /\ id.ok /\ id.rest = <<>> => d # <<>> /\ Numbers(d) = {id.value} /\ id.value \in Int32
      /\ ~(id.ok /\ id.rest = <<>>) => (d # <<>> => Numbers(d) = {})
  BY <1>1, NumberRead
<1>5. /\ MailAsked(l, w) <=> Word(l) = w /\ id.ok /\ id.rest = <<>>
      /\ MailId(l) = id.value
  BY DEF MailAsked, MailId, r
<1> HIDE DEF d, id
<1>6. CASE HasPrefixAndData(l, w)
  <2>1. Fields(l, w) = {d} /\ Word(l) = w /\ d # <<>>
    BY <1>2, <1>3, <1>6
  <2>2. Spells(l, w) = Numbers(d)
    BY <2>1 DEF Spells
  <2> QED
    BY <1>4, <1>5, <2>1, <2>2
<1>7. CASE ~HasPrefixAndData(l, w)
  <2>1. Fields(l, w) = {} /\ ~(Word(l) = w /\ d # <<>>)
    BY <1>2, <1>3, <1>7
  <2>2. Spells(l, w) = {}
    BY <2>1 DEF Spells
  <2> QED
    BY <1>4, <1>5, <2>1, <2>2
<1> QED
  BY <1>6, <1>7

(* Data that is not set off by a blank is none.                            *)
LEMMA NoData ==
  ASSUME NEW r \in Seq(Byte), r # <<>>, r[1] \notin Blank
  PROVE  DataIn(r) = {}
<1>1. ASSUME NEW i \in 2..Len(r), IsBlank(SubSeq(r, 1, i - 1))
      PROVE  FALSE
  <2>1. i \in 1..(Len(r) + 1) /\ 1 \in 1..(i - 1)
    OBVIOUS
  <2> QED
    BY <1>1, <2>1, BlankUpto
<1> QED
  BY <1>1 DEF DataIn

(* The chats in the words behind SEND_CHAT_MESSAGE.                        *)
ChatsIn(d) ==
    UNION {{[type |-> "SEND_CHAT", to |-> SubSeq(d, 1, i - 1), text |-> t] :
              t \in DataIn(From(d, i + 1))} :
             i \in {i \in DOMAIN d : d[i] = Colon /\ \A j \in 1..i : d[j] \notin Blank}}
Chatted(l) == UNION {ChatsIn(d) : d \in Fields(l, COMMAND_SEND_CHAT)}

LEMMA ChatsInAre ==
  ASSUME NEW r \in Seq(Byte), Word(r) # <<>>
  PROVE  LET dest == Word(r)
             text == SkipBlanks(AfterWord(r))
             asked == dest[Len(dest)] = Colon /\ text # <<>>
         IN  /\ asked => ChatsIn(SkipBlanks(r))
                           = {[type |-> "SEND_CHAT", to |-> SubSeq(dest, 1, Len(dest) - 1),
                               text |-> text]}
             /\ ~asked => ChatsIn(SkipBlanks(r)) = {}
<1> DEFINE dest == Word(r)
           rest == AfterWord(r)
           text == SkipBlanks(rest)
           d == SkipBlanks(r)
           m == Len(dest)
           D(i) == {[type |-> "SEND_CHAT", to |-> SubSeq(d, 1, i - 1), text |-> t] :
                      t \in DataIn(From(d, i + 1))}
           I == {i \in DOMAIN d : d[i] = Colon /\ \A j \in 1..i : d[j] \notin Blank}
           one == [type |-> "SEND_CHAT", to |-> SubSeq(dest, 1, m - 1), text |-> text]
<1>1. ChatsIn(d) = UNION {D(i) : i \in I}
  BY DEF ChatsIn
<1>2. PICK b, e : WordAt(r, b, e)
  BY WordFound
<1>3. /\ b \in 1..(Len(r) + 1) /\ e \in b..(Len(r) + 1)
      /\ \A j \in b..(e - 1) : r[j] \notin Blank
      /\ e <= Len(r) => r[e] \in Blank
      /\ d = From(r, b) /\ dest = SubSeq(r, b, e - 1) /\ rest = From(r, e)
  BY <1>2 DEF WordAt
<1>4. /\ d \in Seq(Byte) /\ dest \in Seq(Byte) /\ rest \in Seq(Byte)
      /\ Len(r) \in Nat /\ (rest = <<>> \/ rest[1] \in Blank)
  BY AfterWordBegins
<1> HIDE DEF d, dest, rest, D, I
<1>5. /\ Len(d) = Len(r) - b + 1
      /\ \A k \in 1..(Len(r) - b + 1) : d[k] = r[b + k - 1]
  BY <1>3, FromIs
<1>6. m = e - b /\ \A k \in 1..m : dest[k] = r[b + k - 1]
  <2>1. e - 1 \in 0..Len(r) /\ b <= (e - 1) + 1 /\ (e - 1) - b + 1 = e - b
    BY <1>3, <1>4
  <2>2. /\ Len(SubSeq(r, b, e - 1)) = (e - 1) - b + 1
        /\ \A k \in 1..((e - 1) - b + 1) : SubSeq(r, b, e - 1)[k] = r[b + k - 1]
    BY <1>3, <2>1, Part
  <2> QED
    BY <1>3, <2>1, <2>2
<1>7. m \in Nat /\ m >= 1 /\ m <= Len(d) /\ Len(d) \in Nat /\ b \in Nat /\ e \in Nat
  <2>1. m # 0 /\ m \in Nat
    BY <1>4 DEF dest
  <2>2. b \in 1..(Len(r) + 1) /\ e \in b..(Len(r) + 1) /\ Len(r) \in Nat
    BY <1>3, <1>4
  <2>3. m = e - b /\ Len(d) = Len(r) - b + 1
    BY <1>5, <1>6
  <2> HIDE DEF m
  <2> QED
    BY <2>1, <2>2, <2>3
<1> HIDE DEF m
<1>8. \A k \in 1..m : d[k] = dest[k] /\ d[k] \notin Blank
  <2>1. ASSUME NEW k \in 1..m
        PROVE  k \in 1..(Len(r) - b + 1) /\ b + k - 1 \in b..(e - 1)
    BY <1>3, <1>4, <1>5, <1>6, <1>7
  <2> QED
    BY <1>3, <1>5, <1>6, <2>1
<1>9. m < Len(d) => d[m + 1] \in Blank
  <2>1. b \in 1..(Len(r) + 1) /\ e \in b..(Len(r) + 1) /\ Len(r) \in Nat
    BY <1>3, <1>4
  <2>2. m = e - b /\ Len(d) = Len(r) - b + 1
    BY <1>5, <1>6
  <2>3. m < Len(d) => /\ m + 1 \in 1..(Len(r) - b + 1) /\ b + (m + 1) - 1 = e
                      /\ e <= Len(r)
    BY <1>7, <2>1, <2>2
  <2> QED
    BY <1>3, <1>5, <2>3
<1>10. From(d, m + 1) = rest
  <2>1. m + 1 \in 1..(Len(From(r, b)) + 1) /\ b + (m + 1) - 1 = e
    BY <1>3, <1>6, <1>7
  <2>2. From(From(r, b), m + 1) = From(r, b + (m + 1) - 1)
    BY <1>3, <2>1, PartOfFrom
  <2> QED
    BY <1>3, <2>1, <2>2
<1>11. SubSeq(d, 1, m - 1) = SubSeq(dest, 1, m - 1)
  <2>1. /\ 1 \in Nat /\ m - 1 \in Nat /\ 1 > 0 /\ m - 1 <= Len(d) /\ m - 1 <= Len(dest)
        /\ \A k \in 1..(m - 1) : d[k] = dest[k]
    BY <1>7, <1>8 DEF m
  <2> QED
    BY <1>4, <2>1, SamePart
<1>12. DOMAIN d = 1..Len(d)
  BY <1>4
<1>13. ASSUME NEW i \in I, i # m
       PROVE  D(i) = {}
  <2>1. i \in 1..Len(d) /\ \A j \in 1..i : d[j] \notin Blank
    BY <1>12 DEF I
  <2>2. i < m
    <3>1. ~(m + 1 \in 1..i)
      <4>1. m + 1 \in 1..i => m < Len(d)
        BY <1>7, <2>1
      <4> QED
        BY <1>9, <2>1, <4>1
    <3> QED
      BY <1>7, <1>13, <2>1, <3>1
  <2>3. i + 1 \in 1..m /\ i + 1 \in 1..(Len(d) + 1) /\ 1 \in 1..(Len(d) - (i + 1) + 1)
        /\ (i + 1) + 1 - 1 = i + 1
    BY <1>7, <2>1, <2>2
  <2> DEFINE u == From(d, i + 1)
  <2>4. u \in Seq(Byte) /\ Len(u) = Len(d) - (i + 1) + 1 /\ u[1] = d[i + 1]
    BY <1>4, <2>3, FromIs
  <2> HIDE DEF u
  <2>5. u # <<>> /\ u[1] \notin Blank
    BY <1>8, <2>3, <2>4
  <2>6. DataIn(u) = {}
    BY <2>4, <2>5, NoData
  <2> QED
    BY <2>6 DEF D, u
<1>14. m \in I <=> dest[m] = Colon
  <2>1. m \in DOMAIN d /\ m \in 1..m /\ \A j \in 1..m : d[j] \notin Blank
    BY <1>7, <1>8, <1>12
  <2> QED
    BY <1>8, <2>1 DEF I
<1>15. /\ text # <<>> => D(m) = {one}
       /\ text = <<>> => D(m) = {}
  <2>1. D(m) = {[type |-> "SEND_CHAT", to |-> SubSeq(dest, 1, m - 1), text |-> t] :
                  t \in DataIn(rest)}
    BY <1>10, <1>11 DEF D
  <2>2. /\ text # <<>> => DataIn(rest) = {text}
        /\ text = <<>> => DataIn(rest) = {}
    BY <1>4, DataIs
  <2> HIDE DEF text
  <2> QED
    BY <2>1, <2>2
<1> HIDE DEF text, one
<1>16. \A x : x \in ChatsIn(d) <=> \E i \in I : x \in D(i)
  BY <1>1
<1>17. /\ dest[m] = Colon => ChatsIn(d) = D(m)
       /\ dest[m] # Colon => ChatsIn(d) = {}
  <2>1. \A x : x \in ChatsIn(d) <=> dest[m] = Colon /\ x \in D(m)
    BY <1>13, <1>14, <1>16
  <2> QED
    BY <2>1
<1>18. /\ dest[m] = Colon /\ text # <<>> => ChatsIn(d) = {one}
       /\ ~(dest[m] = Colon /\ text # <<>>) => ChatsIn(d) = {}
  BY <1>15, <1>17
<1> QED
  BY <1>18 DEF dest, m, text, rest, d, one

LEMMA ChattedIs ==
  ASSUME NEW l \in Seq(Byte)
  PROVE  /\ ChatAsked(l) => Chatted(l) = {[type |-> "SEND_CHAT", to |-> ChatTo(l),
                                           text |-> ChatText(l)]}
         /\ ~ChatAsked(l) => Chatted(l) = {}
<1> DEFINE r == AfterWord(l)
           d == SkipBlanks(r)
           one == [type |-> "SEND_CHAT", to |-> ChatTo(l), text |-> ChatText(l)]
           asked == ChatDest(l)[Len(ChatDest(l))] = Colon /\ ChatText(l) # <<>>
<1>1. r \in Seq(Byte)
  BY AfterWordBegins
<1>2. /\ HasPrefixAndData(l, COMMAND_SEND_CHAT) => Fields(l, COMMAND_SEND_CHAT) = {d}
      /\ ~HasPrefixAndData(l, COMMAND_SEND_CHAT) => Fields(l, COMMAND_SEND_CHAT) = {}
      /\ HasPrefixAndData(l, COMMAND_SEND_CHAT)
           <=> Word(l) = COMMAND_SEND_CHAT /\ ChatDest(l) # <<>>
  <2>1. DataOf(l) = d
    BY DEF DataOf
  <2>2. HasPrefixAndData(l, COMMAND_SEND_CHAT)
          <=> Word(l) = COMMAND_SEND_CHAT /\ ChatDest(l) # <<>>
    BY DEF HasPrefixAndData, ChatDest
  <2> QED
    BY <2>1, <2>2, FieldsAre, WordsKnown DEF IsWord
<1>3. ChatDest(l) # <<>> => /\ asked => ChatsIn(d) = {one}
                            /\ ~asked => ChatsIn(d) = {}
  BY <1>1, ChatsInAre DEF ChatDest, ChatText, ChatTo
<1>4. ChatAsked(l) <=> Word(l) = COMMAND_SEND_CHAT /\ ChatDest(l) # <<>> /\ asked
  BY DEF ChatAsked
<1> HIDE DEF d, one, asked
<1>5. CASE HasPrefixAndData(l, COMMAND_SEND_CHAT)
  <2>1. Chatted(l) = ChatsIn(d)
    BY <1>2, <1>5 DEF Chatted
  <2> QED
    BY <1>2, <1>3, <1>4, <1>5, <2>1 DEF one
<1>6. CASE ~HasPrefixAndData(l, COMMAND_SEND_CHAT)
  <2>1. Chatted(l) = {}
    BY <1>2, <1>6 DEF Chatted
  <2> QED
    BY <1>2, <1>4, <1>6, <2>1
<1> QED
  BY <1>5, <1>6
-----------------------------------------------------------------------------
(* What of the lines read so far makes the promises of RequestPathProps    *)
(* hold.  A script of bytes that no line has: a NUL, or more bytes in a    *)
(* row without a line end than fit in the buffer.  It stays spoilt.        *)
Spoilt(s) ==
    \/ \E i \in DOMAIN s : s[i] = NUL
    \/ \E i \in 0..(Len(s) - (MAX_USER_INPUT_LINE - 1)) :
         \A k \in 1..(MAX_USER_INPUT_LINE - 1) : s[i + k] # NewLine

(* Whole lines only.                                                       *)
Ended(s) == s = <<>> \/ s[Len(s)] = NewLine

(* The last line was cut off by the end of the input: nothing follows it.  *)
Cut == stdin = <<>> /\ stdinEof /\ ~Ended(script)

Fits(f) == f \in Seq(Byte) /\ Len(f) + 1 <= MAX_FIELD_LENGTH

(* In between, what the client holds or has sent is what the lines L       *)
(* spell: at is the place, f the fields, sent the frame, read the request  *)
(* the server has read.                                                    *)
ToldBy(L, at, f, sent, read) ==
    /\ at = "password" => /\ Len(L) = 1 /\ Fields(L[1], PREFIX_INPUT_USER) = {f[1]}
                          /\ Fits(f[1])
    /\ at \in {"to", "subject", "text"} => Bare(L[1], COMMAND_COMPOSE)
    /\ at = "to" => Len(L) = 1
    /\ at = "subject" => Len(L) = 2
    /\ at = "text" => /\ Len(L) = 3 /\ Fields(L[3], PREFIX_INPUT_SUBJECT) = {f[2]}
                      /\ Fits(f[2])
    /\ at \in {"subject", "text"} => /\ Fields(L[2], PREFIX_INPUT_TO) = {f[1]}
                                     /\ Fits(f[1])
    /\ at = "sent" => Means(Spelled(L), Understood(sent))
    /\ at = "answered" => Means(Spelled(L), read)
    /\ at = "refused" => Spelled(L) = {}
    /\ at = "off" => \A r \in Spelled(L) : r.type # "LOGIN"
Told == Ended(script) /\ ToldBy(LinesOf(script), place, fields, wire, understood)

TypedInv ==
    /\ PathInv
    /\ place \in {"user", "command"} => script = <<>>
    /\ place # "foreign" => Spoilt(script) \/ Cut \/ Told
-----------------------------------------------------------------------------
(* What a line spells, case by case.                                       *)
LEMMA OneLineIs ==
  ASSUME NEW l \in Seq(Byte)
  PROVE  \A r : r \in OneLine(l) <=>
           \/ Bare(l, COMMAND_SHOW_INBOX) /\ r = Plain("SHOW_INBOX")
           \/ Bare(l, COMMAND_QUIT) /\ r = Plain("QUIT")
           \/ Bare(l, COMMAND_SHOW_USERS) /\ r = Plain("SHOW_ONLINE_USERS")
           \/ MailAsked(l, COMMAND_GET_MAIL) /\ r = [type |-> "GET_MAIL", id |-> MailId(l)]
           \/ MailAsked(l, COMMAND_DELETE_MAIL) /\ r = [type |-> "DELETE_MAIL", id |-> MailId(l)]
           \/ ChatAsked(l) /\ r = [type |-> "SEND_CHAT", to |-> ChatTo(l), text |-> ChatText(l)]
<1> DEFINE C == {<<COMMAND_SHOW_INBOX, "SHOW_INBOX">>, <<COMMAND_QUIT, "QUIT">>,
                 <<COMMAND_SHOW_USERS, "SHOW_ONLINE_USERS">>}
           plains == {Plain(c[2]) : c \in {c \in C : <<>> \in Rests(l, c[1])}}
           E == {<<COMMAND_GET_MAIL, "GET_MAIL">>, <<COMMAND_DELETE_MAIL, "DELETE_MAIL">>}
           mails == UNION {{[type |-> c[2], id |-> n] : n \in Spells(l, c[1])} : c \in E}
           gets == {[type |-> "GET_MAIL", id |-> n] : n \in Spells(l, COMMAND_GET_MAIL)}
           deletes == {[type |-> "DELETE_MAIL", id |-> n] : n \in Spells(l, COMMAND_DELETE_MAIL)}
<1>1. OneLine(l) = plains \union mails \union Chatted(l)
  <2> DEFINE chats ==
               UNION {UNION {{[type |-> "SEND_CHAT", to |-> SubSeq(d, 1, i - 1), text |-> t] :
                                t \in DataIn(From(d, i + 1))} :
                        i \in {i \in DOMAIN d : d[i] = Colon
                                             /\ \A j \in 1..i : d[j] \notin Blank}} :
                        d \in Fields(l, COMMAND_SEND_CHAT)}
             numbers ==
               UNION {{[type |-> c[2], id |-> n] :
                         n \in UNION {Numbers(d) : d \in Fields(l, c[1])}} : c \in E}
  <2>1. Chatted(l) = chats
    BY Zenon DEF Chatted, ChatsIn
  <2>2. mails = numbers
    BY Zenon DEF Spells
  <2>3. OneLine(l) = plains \union numbers \union chats
    BY Zenon DEF OneLine
  <2> HIDE DEF mails, numbers, chats, plains
  <2> QED
    BY <2>1, <2>2, <2>3
<1>2. \A r : r \in plains <=>
        \/ Bare(l, COMMAND_SHOW_INBOX) /\ r = Plain("SHOW_INBOX")
        \/ Bare(l, COMMAND_QUIT) /\ r = Plain("QUIT")
        \/ Bare(l, COMMAND_SHOW_USERS) /\ r = Plain("SHOW_ONLINE_USERS")
  <2>1. /\ <<>> \in Rests(l, COMMAND_SHOW_INBOX) <=> Bare(l, COMMAND_SHOW_INBOX)
        /\ <<>> \in Rests(l, COMMAND_QUIT) <=> Bare(l, COMMAND_QUIT)
        /\ <<>> \in Rests(l, COMMAND_SHOW_USERS) <=> Bare(l, COMMAND_SHOW_USERS)
    BY WordsKnown, FieldsAre DEF IsWord, Bare
  <2>2. ASSUME NEW r
        PROVE  r \in plains <=>
                 \/ <<>> \in Rests(l, COMMAND_SHOW_INBOX) /\ r = Plain("SHOW_INBOX")
                 \/ <<>> \in Rests(l, COMMAND_QUIT) /\ r = Plain("QUIT")
                 \/ <<>> \in Rests(l, COMMAND_SHOW_USERS) /\ r = Plain("SHOW_ONLINE_USERS")
    <3>1. r \in plains <=> \E c \in C : <<>> \in Rests(l, c[1]) /\ r = Plain(c[2])
      <4> HIDE DEF C
      <4> QED
        OBVIOUS
    <3> HIDE DEF plains
    <3> DEFINE Is(c) == <<>> \in Rests(l, c[1]) /\ r = Plain(c[2])
               c1 == <<COMMAND_SHOW_INBOX, "SHOW_INBOX">>
               c2 == <<COMMAND_QUIT, "QUIT">>
               c3 == <<COMMAND_SHOW_USERS, "SHOW_ONLINE_USERS">>
    <3>2. /\ Is(c1) <=> <<>> \in Rests(l, COMMAND_SHOW_INBOX) /\ r = Plain("SHOW_INBOX")
          /\ Is(c2) <=> <<>> \in Rests(l, COMMAND_QUIT) /\ r = Plain("QUIT")
          /\ Is(c3) <=> <<>> \in Rests(l, COMMAND_SHOW_USERS) /\ r = Plain("SHOW_ONLINE_USERS")
      OBVIOUS
    <3>3. C = {c1, c2, c3} /\ (r \in plains <=> \E c \in C : Is(c))
      BY <3>1
    <3> HIDE DEF C, c1, c2, c3, Is
    <3> QED
      BY <3>2, <3>3
  <2> HIDE DEF plains
  <2> QED
    BY <2>1, <2>2
<1>3. mails = gets \union deletes
  <2>1. ASSUME NEW r
        PROVE  r \in mails <=> \E c \in E : \E n \in Spells(l, c[1]) : r = [type |-> c[2], id |-> n]
    <3> HIDE DEF E
    <3> QED
      OBVIOUS
  <2> HIDE DEF mails
  <2>3. ASSUME NEW r
        PROVE  r \in mails <=> r \in gets \/ r \in deletes
    <3> DEFINE Is(c) == \E n \in Spells(l, c[1]) : r = [type |-> c[2], id |-> n]
               c1 == <<COMMAND_GET_MAIL, "GET_MAIL">>
               c2 == <<COMMAND_DELETE_MAIL, "DELETE_MAIL">>
    <3>1. (Is(c1) <=> r \in gets) /\ (Is(c2) <=> r \in deletes)
      OBVIOUS
    <3>2. E = {c1, c2} /\ (r \in mails <=> \E c \in E : Is(c))
      BY <2>1
    <3> HIDE DEF E, c1, c2, Is
    <3> QED
      BY <3>1, <3>2
  <2> HIDE DEF gets, deletes
  <2> QED
    BY <2>3
<1>4. \A r : r \in gets <=> MailAsked(l, COMMAND_GET_MAIL)
                            /\ r = [type |-> "GET_MAIL", id |-> MailId(l)]
  BY WordsKnown, SpellsAre
<1>5. \A r : r \in deletes <=> MailAsked(l, COMMAND_DELETE_MAIL)
                               /\ r = [type |-> "DELETE_MAIL", id |-> MailId(l)]
  BY WordsKnown, SpellsAre
<1>6. \A r : r \in Chatted(l) <=>
        ChatAsked(l) /\ r = [type |-> "SEND_CHAT", to |-> ChatTo(l), text |-> ChatText(l)]
  BY ChattedIs
<1> HIDE DEF plains, mails, gets, deletes
<1> QED
  BY <1>1, <1>2, <1>3, <1>4, <1>5, <1>6

(* What the client sends on a line, case by case.                          *)
LEMMA SentIs ==
  ASSUME NEW l \in Seq(Byte)
  PROVE  \A p : p \in Sent(l) <=>
           \/ Bare(l, COMMAND_SHOW_INBOX) /\ p = TypePacket(COMMANDTYPE_SHOW_INBOX_REQ)
           \/ Bare(l, COMMAND_QUIT) /\ p = TypePacket(COMMANDTYPE_QUIT_REQ)
           \/ Bare(l, COMMAND_SHOW_USERS) /\ p = TypePacket(COMMANDTYPE_SHOW_ONLINE_USERS_REQ)
           \/ MailAsked(l, COMMAND_GET_MAIL)
              /\ p = MailIdPacket(COMMANDTYPE_GET_MAIL_REQ, MailId(l))
           \/ MailAsked(l, COMMAND_DELETE_MAIL)
              /\ p = MailIdPacket(COMMANDTYPE_DELETE_MAIL_REQ, MailId(l))
           \/ ChatAsked(l) /\ p = ChatPacket(ChatTo(l), ChatText(l))
<1>1. \A p : p \in PlainRequests(l) <=>
        \/ Bare(l, COMMAND_SHOW_INBOX) /\ p = TypePacket(COMMANDTYPE_SHOW_INBOX_REQ)
        \/ Bare(l, COMMAND_QUIT) /\ p = TypePacket(COMMANDTYPE_QUIT_REQ)
        \/ Bare(l, COMMAND_SHOW_USERS) /\ p = TypePacket(COMMANDTYPE_SHOW_ONLINE_USERS_REQ)
  <2> SUFFICES ASSUME NEW p
      PROVE  p \in PlainRequests(l) <=>
               \/ Bare(l, COMMAND_SHOW_INBOX) /\ p = TypePacket(COMMANDTYPE_SHOW_INBOX_REQ)
               \/ Bare(l, COMMAND_QUIT) /\ p = TypePacket(COMMANDTYPE_QUIT_REQ)
               \/ Bare(l, COMMAND_SHOW_USERS)
                  /\ p = TypePacket(COMMANDTYPE_SHOW_ONLINE_USERS_REQ)
    OBVIOUS
  <2>1. p \in PlainRequests(l) <=>
          \E c \in PlainCommand : Bare(l, c[1]) /\ p = TypePacket(c[2])
    BY DEF PlainRequests, Bare
  <2> DEFINE Is(c) == Bare(l, c[1]) /\ p = TypePacket(c[2])
             c1 == <<COMMAND_SHOW_INBOX, COMMANDTYPE_SHOW_INBOX_REQ>>
             c2 == <<COMMAND_QUIT, COMMANDTYPE_QUIT_REQ>>
             c3 == <<COMMAND_SHOW_USERS, COMMANDTYPE_SHOW_ONLINE_USERS_REQ>>
  <2>2. /\ Is(c1) <=> /\ Bare(l, COMMAND_SHOW_INBOX)
                      /\ p = TypePacket(COMMANDTYPE_SHOW_INBOX_REQ)
        /\ Is(c2) <=> Bare(l, COMMAND_QUIT) /\ p = TypePacket(COMMANDTYPE_QUIT_REQ)
        /\ Is(c3) <=> /\ Bare(l, COMMAND_SHOW_USERS)
                      /\ p = TypePacket(COMMANDTYPE_SHOW_ONLINE_USERS_REQ)
    OBVIOUS
  <2>3. PlainCommand = {c1, c2, c3} /\ (p \in PlainRequests(l) <=> \E c \in PlainCommand : Is(c))
    BY <2>1 DEF PlainCommand
  <2> HIDE DEF c1, c2, c3, Is
  <2> QED
    BY <2>2, <2>3
<1>2. \A p : p \in MailRequests(l) <=>
        \/ MailAsked(l, COMMAND_GET_MAIL)
           /\ p = MailIdPacket(COMMANDTYPE_GET_MAIL_REQ, MailId(l))
        \/ MailAsked(l, COMMAND_DELETE_MAIL)
           /\ p = MailIdPacket(COMMANDTYPE_DELETE_MAIL_REQ, MailId(l))
  <2> SUFFICES ASSUME NEW p
      PROVE  p \in MailRequests(l) <=>
               \/ MailAsked(l, COMMAND_GET_MAIL)
                  /\ p = MailIdPacket(COMMANDTYPE_GET_MAIL_REQ, MailId(l))
               \/ MailAsked(l, COMMAND_DELETE_MAIL)
                  /\ p = MailIdPacket(COMMANDTYPE_DELETE_MAIL_REQ, MailId(l))
    OBVIOUS
  <2>1. p \in MailRequests(l) <=>
          \E c \in MailCommand : MailAsked(l, c[1]) /\ p = MailIdPacket(c[2], MailId(l))
    BY DEF MailRequests, MailAsked, MailId
  <2> DEFINE Is(c) == MailAsked(l, c[1]) /\ p = MailIdPacket(c[2], MailId(l))
             c1 == <<COMMAND_GET_MAIL, COMMANDTYPE_GET_MAIL_REQ>>
             c2 == <<COMMAND_DELETE_MAIL, COMMANDTYPE_DELETE_MAIL_REQ>>
  <2>2. /\ Is(c1) <=> /\ MailAsked(l, COMMAND_GET_MAIL)
                      /\ p = MailIdPacket(COMMANDTYPE_GET_MAIL_REQ, MailId(l))
        /\ Is(c2) <=> /\ MailAsked(l, COMMAND_DELETE_MAIL)
                      /\ p = MailIdPacket(COMMANDTYPE_DELETE_MAIL_REQ, MailId(l))
    OBVIOUS
  <2>3. MailCommand = {c1, c2} /\ (p \in MailRequests(l) <=> \E c \in MailCommand : Is(c))
    BY <2>1 DEF MailCommand
  <2> HIDE DEF c1, c2, Is
  <2> QED
    BY <2>2, <2>3
<1>3. \A p : p \in ChatRequests(l) <=> ChatAsked(l) /\ p = ChatPacket(ChatTo(l), ChatText(l))
  BY DEF ChatRequests, ChatAsked, ChatTo, ChatText, ChatDest
<1> QED
  BY <1>1, <1>2, <1>3 DEF Sent
LEMMA ChatFits ==
  ASSUME NEW l \in Seq(Byte), Len(l) + 1 <= MAX_FIELD_LENGTH, ChatDest(l) # <<>>
  PROVE  /\ ChatTo(l) \in Seq(Byte) /\ Len(ChatTo(l)) + 1 <= MAX_FIELD_LENGTH
         /\ ChatText(l) \in Seq(Byte) /\ Len(ChatText(l)) + 1 <= MAX_FIELD_LENGTH
<1> DEFINE r == AfterWord(l)
           dest == Word(r)
           rest == AfterWord(r)
           text == SkipBlanks(rest)
<1>1. r \in Seq(Byte) /\ Len(r) + Len(Word(l)) <= Len(l) /\ Word(l) \in Seq(Byte)
  BY AfterWordBegins
<1> HIDE DEF r
<1>2. /\ rest \in Seq(Byte) /\ dest \in Seq(Byte) /\ Len(rest) + Len(dest) <= Len(r)
  BY <1>1, AfterWordBegins
<1> HIDE DEF rest, dest
<1>3. text \in Seq(Byte) /\ Len(text) <= Len(rest)
  BY <1>2, AfterWordBegins
<1> HIDE DEF text
<1>4. /\ Len(l) \in Nat /\ Len(r) \in Nat /\ Len(rest) \in Nat /\ Len(dest) \in Nat
      /\ Len(text) \in Nat /\ Len(Word(l)) \in Nat
  BY <1>1, <1>2, <1>3
<1>5. dest # <<>> /\ ChatTo(l) = SubSeq(dest, 1, Len(dest) - 1) /\ ChatText(l) = text
  BY DEF ChatTo, ChatDest, ChatText, text, rest, dest, r
<1>6. Len(dest) \in 1..(Len(dest) + 1)
  BY <1>2, <1>4, <1>5
<1>7. /\ SubSeq(dest, 1, Len(dest) - 1) \in Seq(Byte)
      /\ Len(SubSeq(dest, 1, Len(dest) - 1)) = Len(dest) - 1
  BY <1>2, <1>6, UptoIsPart
<1>8. MAX_FIELD_LENGTH \in Nat
  BY PacketAssumption
<1> DEFINE a == Len(text)
           b == Len(dest)
<1>9. a + 1 <= MAX_FIELD_LENGTH /\ (b - 1) + 1 <= MAX_FIELD_LENGTH
  BY <1>1, <1>2, <1>3, <1>4, <1>8
<1> QED
  BY <1>3, <1>5, <1>7, <1>9

(* Between them a line's sending and its spelling agree: the one request   *)
(* it spells is in the packet it makes the client send, and a line that    *)
(* sends nothing spells nothing.                                           *)
LEMMA SentIsSpelled ==
  ASSUME NEW l \in Seq(Byte), Len(l) + 1 <= MAX_FIELD_LENGTH
  PROVE  /\ Sent(l) = {} => OneLine(l) = {}
         /\ \A p \in Sent(l) : \E r : OneLine(l) = {r} /\ r \in Encoded(p.m_buff)
<1> DEFINE inbox == Bare(l, COMMAND_SHOW_INBOX)
           quit == Bare(l, COMMAND_QUIT)
           users == Bare(l, COMMAND_SHOW_USERS)
           get == MailAsked(l, COMMAND_GET_MAIL)
           delete == MailAsked(l, COMMAND_DELETE_MAIL)
           chat == ChatAsked(l)
           getting == [type |-> "GET_MAIL", id |-> MailId(l)]
           deleting == [type |-> "DELETE_MAIL", id |-> MailId(l)]
           chatting == [type |-> "SEND_CHAT", to |-> ChatTo(l), text |-> ChatText(l)]
<1>1. \A r : r \in OneLine(l) <=>
        \/ inbox /\ r = Plain("SHOW_INBOX")
        \/ quit /\ r = Plain("QUIT")
        \/ users /\ r = Plain("SHOW_ONLINE_USERS")
        \/ get /\ r = getting
        \/ delete /\ r = deleting
        \/ chat /\ r = chatting
  BY OneLineIs, Zenon
<1>2. \A p : p \in Sent(l) <=>
        \/ inbox /\ p = TypePacket(COMMANDTYPE_SHOW_INBOX_REQ)
        \/ quit /\ p = TypePacket(COMMANDTYPE_QUIT_REQ)
        \/ users /\ p = TypePacket(COMMANDTYPE_SHOW_ONLINE_USERS_REQ)
        \/ get /\ p = MailIdPacket(COMMANDTYPE_GET_MAIL_REQ, MailId(l))
        \/ delete /\ p = MailIdPacket(COMMANDTYPE_DELETE_MAIL_REQ, MailId(l))
        \/ chat /\ p = ChatPacket(ChatTo(l), ChatText(l))
  BY SentIs, Zenon
<1>3. /\ inbox => Word(l) = COMMAND_SHOW_INBOX
      /\ quit => Word(l) = COMMAND_QUIT
      /\ users => Word(l) = COMMAND_SHOW_USERS
      /\ get => Word(l) = COMMAND_GET_MAIL
      /\ delete => Word(l) = COMMAND_DELETE_MAIL
      /\ chat => Word(l) = COMMAND_SEND_CHAT
  BY DEF Bare, MailAsked, ChatAsked
<1>4. get \/ delete => MailId(l) \in Int32
  BY WordsKnown, SpellsAre
<1>5. chat => ChatDest(l) # <<>>
  BY DEF ChatAsked
<1> DEFINE w == Word(l)
<1> HIDE DEF inbox, quit, users, get, delete, chat, getting, deleting, chatting, w
<1>6. /\ inbox => ~quit /\ ~users /\ ~get /\ ~delete /\ ~chat
      /\ quit => ~users /\ ~get /\ ~delete /\ ~chat
      /\ users => ~get /\ ~delete /\ ~chat
      /\ get => ~delete /\ ~chat
      /\ delete => ~chat
  <2>1. /\ inbox => w = COMMAND_SHOW_INBOX
        /\ quit => w = COMMAND_QUIT
        /\ users => w = COMMAND_SHOW_USERS
        /\ get => w = COMMAND_GET_MAIL
        /\ delete => w = COMMAND_DELETE_MAIL
        /\ chat => w = COMMAND_SEND_CHAT
    BY <1>3 DEF w
  <2> QED
    BY <2>1, WordsDiffer
<1>7. /\ inbox => OneLine(l) = {Plain("SHOW_INBOX")}
      /\ quit => OneLine(l) = {Plain("QUIT")}
      /\ users => OneLine(l) = {Plain("SHOW_ONLINE_USERS")}
      /\ get => OneLine(l) = {getting}
      /\ delete => OneLine(l) = {deleting}
      /\ chat => OneLine(l) = {chatting}
  BY <1>1, <1>6
<1>8. /\ get => getting \in Encoded(MailIdPacket(COMMANDTYPE_GET_MAIL_REQ, MailId(l)).m_buff)
      /\ delete => deleting
                     \in Encoded(MailIdPacket(COMMANDTYPE_DELETE_MAIL_REQ, MailId(l)).m_buff)
  BY <1>4, MailIdSent DEF getting, deleting
<1>9. chat => chatting \in Encoded(ChatPacket(ChatTo(l), ChatText(l)).m_buff)
  BY <1>5, ChatFits, ChatSent DEF chatting
<1>10. Sent(l) = {} => OneLine(l) = {}
  BY <1>1, <1>2
<1>11. ASSUME NEW p \in Sent(l)
       PROVE  \E r : OneLine(l) = {r} /\ r \in Encoded(p.m_buff)
  <2>1. CASE inbox /\ p = TypePacket(COMMANDTYPE_SHOW_INBOX_REQ)
    BY <1>7, <2>1, PlainSent
  <2>2. CASE quit /\ p = TypePacket(COMMANDTYPE_QUIT_REQ)
    BY <1>7, <2>2, PlainSent
  <2>3. CASE users /\ p = TypePacket(COMMANDTYPE_SHOW_ONLINE_USERS_REQ)
    BY <1>7, <2>3, PlainSent
  <2>4. CASE get /\ p = MailIdPacket(COMMANDTYPE_GET_MAIL_REQ, MailId(l))
    BY <1>7, <1>8, <2>4
  <2>5. CASE delete /\ p = MailIdPacket(COMMANDTYPE_DELETE_MAIL_REQ, MailId(l))
    BY <1>7, <1>8, <2>5
  <2>6. CASE chat /\ p = ChatPacket(ChatTo(l), ChatText(l))
    BY <1>7, <1>9, <2>6
  <2> QED
    BY <1>2, <2>1, <2>2, <2>3, <2>4, <2>5, <2>6
<1> QED
  BY <1>10, <1>11

(* The line that begins a mail spells no request and no user; and a line   *)
(* alone is no login.                                                      *)
LEMMA ComposeSpells ==
  ASSUME NEW l \in Seq(Byte), Bare(l, COMMAND_COMPOSE)
  PROVE  OneLine(l) = {} /\ Fields(l, PREFIX_INPUT_USER) = {}
<1>1. Word(l) = COMMAND_COMPOSE
  BY DEF Bare
<1>2. /\ ~Bare(l, COMMAND_SHOW_INBOX) /\ ~Bare(l, COMMAND_QUIT) /\ ~Bare(l, COMMAND_SHOW_USERS)
      /\ ~MailAsked(l, COMMAND_GET_MAIL) /\ ~MailAsked(l, COMMAND_DELETE_MAIL) /\ ~ChatAsked(l)
  BY <1>1, WordsDiffer DEF Bare, MailAsked, ChatAsked
<1>3. ~HasPrefixAndData(l, PREFIX_INPUT_USER)
  BY <1>1, WordsDiffer DEF HasPrefixAndData
<1> QED
  BY <1>2, <1>3, OneLineIs, WordsKnown, FieldsAre DEF IsWord

LEMMA OneLineNoLogin ==
  ASSUME NEW l \in Seq(Byte), NEW r \in OneLine(l)
  PROVE  r.type # "LOGIN"
<1>1. r.type \in {"SHOW_INBOX", "QUIT", "SHOW_ONLINE_USERS", "GET_MAIL", "DELETE_MAIL", "SEND_CHAT"}
  BY OneLineIs DEF Plain
<1> QED
  BY <1>1
-----------------------------------------------------------------------------
(* The pieces of a text.  The one of rank k begins where as many begin up  *)
(* to there, and ends before the next c.                                   *)
LEMMA PieceIs ==
  ASSUME NEW T, NEW s \in Seq(T), NEW c, NEW i \in PieceStarts(s, c), NEW e,
         StopsAt(s, {c}, i, e)
  PROVE  LET k == Rank(PieceStarts(s, c), i)
         IN  /\ k \in 1..Cardinality(PieceStarts(s, c))
             /\ Pieces(s, c)[k] = SubSeq(s, i, e - 1)
<1> DEFINE S == PieceStarts(s, c)
           k == Rank(S, i)
<1>1. S \subseteq Nat /\ IsFiniteSet(S) /\ Len(s) \in Nat /\ i \in 1..Len(s)
  BY PieceStartsType
<1>2. k \in 1..Cardinality(S) /\ \A j \in S : Rank(S, j) = k => j = i
  BY <1>1, Ranked
<1>3. PieceAt(s, c, k) \in S /\ Rank(S, PieceAt(s, c, k)) = k
  BY <1>2, PieceFound
<1>4. PieceAt(s, c, k) = i
  BY <1>2, <1>3
<1>5. FirstIn(s, {c}, i) = e
  <2>1. i \in 1..(Len(s) + 1)
    BY <1>1
  <2> QED
    BY <2>1, FirstInIs
<1>6. Pieces(s, c)[k] = SubSeq(s, PieceAt(s, c, k), PieceEnd(s, c, k) - 1)
  BY <1>2, PieceFound
<1>7. PieceEnd(s, c, k) = e
  BY <1>4, <1>5 DEF PieceEnd
<1> HIDE DEF k, S
<1>8. k \in 1..Cardinality(S) /\ Pieces(s, c)[k] = SubSeq(s, i, e - 1)
  BY <1>2, <1>4, <1>6, <1>7
<1> QED
  BY <1>8 DEF k, S

(* One more line is one more piece.                                        *)
LEMMA PieceJoins ==
  ASSUME NEW T, NEW c \in T, NEW s \in Seq(T), s = <<>> \/ s[Len(s)] = c,
         NEW l \in Seq(T), \A i \in 1..Len(l) : l[i] # c
  PROVE  /\ Pieces(s \o Append(l, c), c) = Append(Pieces(s, c), l)
         /\ Pieces(s, c) \in Seq(Seq(T))
<1> DEFINE n == Len(s)
           h == Len(l)
           t == s \o Append(l, c)
           S == PieceStarts(s, c)
           U == PieceStarts(t, c)
           m == Cardinality(S)
<1>1. /\ t \in Seq(T) /\ n \in Nat /\ h \in Nat /\ Len(t) = n + h + 1
      /\ \A k \in 1..n : t[k] = s[k]
      /\ \A k \in 1..h : t[n + k] = l[k]
      /\ t[n + h + 1] = c
  <2> DEFINE u == Append(l, c)
  <2>1. /\ u \in Seq(T) /\ Len(u) = h + 1 /\ h \in Nat
        /\ \A k \in 1..h : u[k] = l[k]
        /\ u[h + 1] = c
    BY AppendProperties
  <2> HIDE DEF u, h
  <2>2. /\ s \o u \in Seq(T) /\ n \in Nat /\ Len(s \o u) = n + Len(u)
        /\ \A k \in 1..n : (s \o u)[k] = s[k]
        /\ \A k \in 1..Len(u) : (s \o u)[n + k] = u[k]
    BY <2>1, Joined
  <2>3. t = s \o u
    BY DEF u
  <2> HIDE DEF t, n
  <2>4. /\ Len(t) = n + h + 1
        /\ \A k \in 1..(h + 1) : t[n + k] = u[k]
    BY <2>1, <2>2, <2>3
  <2>5. h + 1 \in 1..(h + 1) /\ n + (h + 1) = n + h + 1 /\ \A k \in 1..h : k \in 1..(h + 1)
    BY <2>1, <2>2
  <2> QED
    BY <2>1, <2>2, <2>3, <2>4, <2>5
<1>2. n # 0 => s[n] = c
  OBVIOUS
<1>3. /\ S \subseteq Nat /\ S \subseteq 1..n /\ IsFiniteSet(S) /\ m \in Nat
      /\ \A i \in S : i \in 1..n /\ (i = 1 \/ s[i - 1] = c)
      /\ \A i \in 1..n : i = 1 \/ s[i - 1] = c => i \in S
  BY PieceStartsType
<1> HIDE DEF t
<1>4. /\ U \subseteq Nat /\ U \subseteq 1..(n + h + 1) /\ IsFiniteSet(U)
      /\ \A i \in U : i \in 1..(n + h + 1) /\ (i = 1 \/ t[i - 1] = c)
      /\ \A i \in 1..(n + h + 1) : i = 1 \/ t[i - 1] = c => i \in U
  BY <1>1, PieceStartsType
<1> HIDE DEF S, U, n, h, m
<1>5. U = S \union {n + 1}
  <2>1. ASSUME NEW i \in S
        PROVE  i \in U
    <3>1. i \in 1..n /\ (i = 1 \/ s[i - 1] = c)
      BY <1>3
    <3>2. i \in 1..(n + h + 1) /\ (i # 1 => i - 1 \in 1..n)
      BY <1>1, <3>1
    <3> QED
      BY <1>1, <1>4, <3>1, <3>2
  <2>2. n + 1 \in U
    <3>1. /\ n + 1 \in 1..(n + h + 1) /\ (n + 1) - 1 = n
          /\ n # 0 => n \in 1..n
          /\ n = 0 => n + 1 = 1
      BY <1>1
    <3> QED
      BY <1>1, <1>2, <1>4, <3>1
  <2>3. ASSUME NEW i \in U, i # n + 1
        PROVE  i \in S
    <3>1. i \in 1..(n + h + 1) /\ (i = 1 \/ t[i - 1] = c)
      BY <1>4
    <3>2. ~(i > n + 1)
      <4>1. ASSUME i > n + 1
            PROVE  FALSE
        <5> DEFINE k == (i - 1) - n
        <5>1. k \in 1..h /\ n + k = i - 1 /\ i # 1
          BY <1>1, <3>1, <4>1
        <5> HIDE DEF k
        <5>2. t[i - 1] = l[k] /\ l[k] # c
          BY <1>1, <5>1 DEF h
        <5> QED
          BY <3>1, <5>1, <5>2
      <4> QED
        BY <4>1
    <3>3. i \in 1..n /\ (i # 1 => i - 1 \in 1..n)
      BY <1>1, <2>3, <3>1, <3>2
    <3> QED
      BY <1>1, <1>3, <3>1, <3>3
  <2> QED
    BY <2>1, <2>2, <2>3
<1>6. Cardinality(U) = m + 1
  <2>1. n + 1 \notin S
    BY <1>1, <1>3
  <2> QED
    BY <1>3, <1>5, <2>1, FS_AddElement DEF m
<1>7. \A i \in S : Rank(U, i) = Rank(S, i)
  <2>1. ASSUME NEW i \in S
        PROVE  {j \in U : j <= i} = {j \in S : j <= i}
    <3>1. i \in 1..n /\ ~(n + 1 <= i)
      BY <1>1, <1>3
    <3> QED
      BY <1>5, <3>1
  <2> QED
    BY <2>1 DEF Rank
<1>8. Rank(U, n + 1) = m + 1
  <2>1. \A j \in U : j <= n + 1
    BY <1>1, <1>3, <1>5
  <2>2. {j \in U : j <= n + 1} = U
    BY <2>1
  <2> QED
    BY <1>6, <2>2 DEF Rank
<1>9. ASSUME NEW k \in 1..m
      PROVE  Pieces(t, c)[k] = Pieces(s, c)[k] /\ Pieces(s, c)[k] \in Seq(T)
  <2> DEFINE i == PieceAt(s, c, k)
             e == PieceEnd(s, c, k)
  <2>1. /\ i \in S /\ Rank(S, i) = k /\ i \in 1..n /\ e \in i..(n + 1)
        /\ \A j \in i..(e - 1) : s[j] # c
        /\ e <= n => s[e] = c
        /\ Pieces(s, c)[k] = SubSeq(s, i, e - 1) /\ Pieces(s, c)[k] \in Seq(T)
    BY <1>9, PieceFound DEF m, S, n
  <2> HIDE DEF i, e
  <2>2. e <= n
    <3>1. e = n + 1 => n \in i..(e - 1) /\ n # 0
      BY <1>1, <2>1
    <3> QED
      BY <1>1, <1>2, <2>1, <3>1
  <2>3. /\ e \in i..(Len(t) + 1) /\ e \in 1..n /\ \A j \in i..(e - 1) : j \in 1..n
    BY <1>1, <2>1, <2>2
  <2>4. StopsAt(t, {c}, i, e)
    BY <1>1, <2>1, <2>2, <2>3 DEF StopsAt
  <2>5. i \in U /\ Rank(U, i) = k
    BY <1>5, <1>7, <2>1
  <2>6. Pieces(t, c)[k] = SubSeq(t, i, e - 1)
    <3>1. t \in Seq(T) /\ i \in PieceStarts(t, c)
      BY <1>1, <2>5 DEF U
    <3>2. Pieces(t, c)[Rank(PieceStarts(t, c), i)] = SubSeq(t, i, e - 1)
      BY <2>4, <3>1, PieceIs
    <3> QED
      BY <2>5, <3>2 DEF U
  <2>7. SubSeq(s, i, e - 1) = SubSeq(t, i, e - 1)
    <3>1. /\ i \in Nat /\ e - 1 \in Nat /\ i > 0 /\ e - 1 <= Len(s) /\ e - 1 <= Len(t)
          /\ \A j \in 1..(e - 1) : s[j] = t[j]
      BY <1>1, <2>1, <2>2 DEF n
    <3>2. t \in Seq(T)
      BY <1>1
    <3> DEFINE f == e - 1
    <3>3. /\ f \in Nat /\ f <= Len(s) /\ f <= Len(t) /\ \A j \in 1..f : s[j] = t[j]
      BY <3>1
    <3> HIDE DEF f
    <3>4. SubSeq(s, i, f) = SubSeq(t, i, f)
      BY <3>1, <3>2, <3>3, SamePart
    <3> QED
      BY <3>4 DEF f
  <2> QED
    BY <2>1, <2>6, <2>7
<1>10. Pieces(t, c)[m + 1] = l
  <2> DEFINE e == n + h + 1
  <2>1. /\ n + 1 \in 1..(Len(t) + 1) /\ e - 1 \in 0..Len(t) /\ n + 1 <= (e - 1) + 1
        /\ (e - 1) - (n + 1) + 1 = h
        /\ e \in (n + 1)..(Len(t) + 1)
    BY <1>1
  <2>2. ASSUME NEW j \in (n + 1)..(e - 1)
        PROVE  t[j] # c
    <3>1. j - n \in 1..h /\ n + (j - n) = j
      BY <1>1
    <3> HIDE DEF e
    <3>2. t[j] = l[j - n] /\ l[j - n] # c
      BY <1>1, <3>1 DEF h
    <3> QED
      BY <3>2
  <2>3. StopsAt(t, {c}, n + 1, e)
    <3>1. t[e] = c
      BY <1>1
    <3> HIDE DEF e
    <3> QED
      BY <2>1, <2>2, <3>1 DEF StopsAt
  <2>4. n + 1 \in U
    BY <1>5
  <2> HIDE DEF e
  <2>5. Pieces(t, c)[m + 1] = SubSeq(t, n + 1, e - 1)
    <3>1. t \in Seq(T) /\ n + 1 \in PieceStarts(t, c)
      BY <1>1, <2>4 DEF U
    <3>2. Pieces(t, c)[Rank(PieceStarts(t, c), n + 1)] = SubSeq(t, n + 1, e - 1)
      BY <2>3, <3>1, PieceIs
    <3> QED
      BY <1>8, <3>2 DEF U
  <2>6. /\ SubSeq(t, n + 1, e - 1) \in Seq(T) /\ Len(SubSeq(t, n + 1, e - 1)) = h
        /\ \A k \in 1..h : SubSeq(t, n + 1, e - 1)[k] = t[(n + 1) + k - 1]
    <3>1. /\ SubSeq(t, n + 1, e - 1) \in Seq(T)
          /\ Len(SubSeq(t, n + 1, e - 1)) = (e - 1) - (n + 1) + 1
          /\ \A k \in 1..((e - 1) - (n + 1) + 1) :
               SubSeq(t, n + 1, e - 1)[k] = t[(n + 1) + k - 1]
      BY <1>1, <2>1, Part
    <3> QED
      BY <2>1, <3>1
  <2>7. \A k \in 1..h : SubSeq(t, n + 1, e - 1)[k] = l[k]
    <3>1. \A k \in 1..h : (n + 1) + k - 1 = n + k
      BY <1>1
    <3> QED
      BY <1>1, <2>6, <3>1
  <2> DEFINE u == SubSeq(t, n + 1, e - 1)
  <2>8. u \in Seq(T) /\ Len(u) = Len(l) /\ \A k \in 1..Len(u) : u[k] = l[k]
    BY <2>6, <2>7 DEF h
  <2> HIDE DEF u
  <2>9. u = l
    BY <2>8, SeqEqual
  <2> QED
    BY <2>5, <2>9 DEF u
<1> DEFINE p == Pieces(s, c)
           q == Pieces(t, c)
<1>11. p \in Seq(Seq(T)) /\ Len(p) = m
  <2>1. p = [k \in 1..m |-> p[k]]
    BY DEF Pieces, m, S
  <2>2. \A k \in 1..m : p[k] \in Seq(T)
    BY <1>9
  <2> HIDE DEF p
  <2>3. p \in [1..m -> Seq(T)]
    BY <2>1, <2>2
  <2> QED
    BY <1>3, <2>3
<1>12. q \in Seq(Seq(T)) /\ Len(q) = m + 1
  <2>1. q = [k \in 1..(m + 1) |-> q[k]]
    BY <1>6 DEF Pieces, U
  <2>2. \A k \in 1..(m + 1) : q[k] \in Seq(T)
    <3>1. \A k \in 1..(m + 1) : k \in 1..m \/ k = m + 1
      BY <1>3
    <3> QED
      BY <1>9, <1>10, <3>1
  <2> HIDE DEF q
  <2>3. q \in [1..(m + 1) -> Seq(T)] /\ m + 1 \in Nat
    BY <1>3, <2>1, <2>2
  <2> QED
    BY <2>3
<1>13. /\ \A k \in 1..m : q[k] = p[k]
       /\ q[m + 1] = l
  BY <1>9, <1>10
<1> HIDE DEF p, q
<1>14. q = Append(p, l)
  <2> DEFINE a == Append(p, l)
  <2>1. /\ a \in Seq(Seq(T)) /\ Len(a) = m + 1 /\ a[m + 1] = l
        /\ \A k \in 1..m : a[k] = p[k]
    BY <1>11, AppendProperties
  <2> HIDE DEF a
  <2>2. \A k \in 1..Len(q) : q[k] = a[k]
    <3>1. \A k \in 1..(m + 1) : k \in 1..m \/ k = m + 1
      BY <1>3
    <3> QED
      BY <1>12, <1>13, <2>1, <3>1
  <2>3. q = a
    BY <1>12, <2>1, <2>2, SeqEqual
  <2> QED
    BY <2>3 DEF a
<1> QED
  BY <1>11, <1>14 DEF p, q, t
-----------------------------------------------------------------------------
(* One less than the size of the line buffer.                              *)
K == MAX_USER_INPUT_LINE - 1

LEMMA KIs == K \in Nat \ {0} /\ MAX_USER_INPUT_LINE = K + 1 /\ K < MAX_FIELD_LENGTH
<1>1. MAX_USER_INPUT_LINE \in 2..MAX_FIELD_LENGTH /\ MAX_FIELD_LENGTH \in Nat
  BY LimitAssumption, PacketAssumption
<1> QED
  BY <1>1 DEF K

(* A spoilt script has a byte or a line that Intact does not allow, and    *)
(* more lines do not mend it.                                              *)
LEMMA SpoiltStays ==
  ASSUME NEW s \in Seq(Byte), NEW t \in Seq(Byte), Spoilt(s) \/ Spoilt(t)
  PROVE  Spoilt(s \o t)
<1> DEFINE n == Len(s)
           u == s \o t
           Run(v, i) == \A k \in 1..K : v[i + k] # NewLine
<1>1. /\ u \in Seq(Byte) /\ n \in Nat /\ Len(t) \in Nat /\ Len(u) = n + Len(t)
      /\ \A k \in 1..n : u[k] = s[k]
      /\ \A k \in 1..Len(t) : u[n + k] = t[k]
  BY Joined
<1> HIDE DEF u
<1>2. DOMAIN s = 1..n /\ DOMAIN t = 1..Len(t) /\ DOMAIN u = 1..(n + Len(t))
  BY <1>1
<1>3. \A v : Spoilt(v) <=> \/ \E i \in DOMAIN v : v[i] = NUL
                           \/ \E i \in 0..(Len(v) - K) : Run(v, i)
  BY DEF Spoilt, K
<1>4. ASSUME NEW i \in DOMAIN s, s[i] = NUL
      PROVE  \E j \in DOMAIN u : u[j] = NUL
  <2>1. i \in 1..n /\ i \in 1..(n + Len(t))
    BY <1>1, <1>2
  <2> QED
    BY <1>1, <1>2, <1>4, <2>1
<1>5. ASSUME NEW i \in DOMAIN t, t[i] = NUL
      PROVE  \E j \in DOMAIN u : u[j] = NUL
  <2>1. i \in 1..Len(t) /\ n + i \in 1..(n + Len(t))
    BY <1>1, <1>2
  <2> QED
    BY <1>1, <1>2, <1>5, <2>1
<1>6. ASSUME NEW i \in 0..(n - K), Run(s, i)
      PROVE  \E j \in 0..(Len(u) - K) : Run(u, j)
  <2>1. i \in 0..(Len(u) - K) /\ \A k \in 1..K : i + k \in 1..n
    BY <1>1, KIs
  <2>2. Run(u, i)
    BY <1>1, <1>6, <2>1
  <2> QED
    BY <2>1, <2>2
<1>7. ASSUME NEW i \in 0..(Len(t) - K), Run(t, i)
      PROVE  \E j \in 0..(Len(u) - K) : Run(u, j)
  <2>1. /\ n + i \in 0..(Len(u) - K)
        /\ \A k \in 1..K : i + k \in 1..Len(t) /\ n + (i + k) = (n + i) + k
    BY <1>1, KIs
  <2>2. Run(u, n + i)
    BY <1>1, <1>7, <2>1
  <2> QED
    BY <2>1, <2>2
<1> HIDE DEF Run, n
<1>8. Spoilt(u)
  BY <1>3, <1>4, <1>5, <1>6, <1>7 DEF n
<1> QED
  BY <1>8 DEF u

LEMMA RankKeepsOrder ==
  ASSUME NEW S, IsFiniteSet(S), S \subseteq Nat, NEW i \in Nat, NEW j \in Nat, i <= j
  PROVE  Rank(S, i) <= Rank(S, j) /\ Rank(S, i) \in Nat /\ Rank(S, j) \in Nat
<1> DEFINE I == {x \in S : x <= i}
           J == {x \in S : x <= j}
<1>1. I \subseteq J /\ J \subseteq S
  <2>1. ASSUME NEW x \in S, x <= i
        PROVE  x <= j
    <3>1. x \in Nat
      OBVIOUS
    <3> QED
      BY <2>1, <3>1
  <2> QED
    BY <2>1
<1>2. IsFiniteSet(J) /\ IsFiniteSet(I) /\ Cardinality(I) <= Cardinality(J)
  BY <1>1, FS_Subset
<1>3. Cardinality(I) \in Nat /\ Cardinality(J) \in Nat
  BY <1>2, FS_CardinalityType
<1> QED
  BY <1>2, <1>3 DEF Rank

LEMMA SpoiltIsNotIntact ==
  ASSUME NEW s \in Seq(Byte), Spoilt(s)
  PROVE  ~Intact(s)
<1> SUFFICES ASSUME Intact(s) PROVE FALSE
  OBVIOUS
<1>1. /\ \A i \in DOMAIN s : s[i] # NUL
      /\ \A k \in DOMAIN LinesOf(s) : Len(LinesOf(s)[k]) + 2 <= MAX_USER_INPUT_LINE
  BY DEF Intact
<1> DEFINE n == Len(s)
           S == PieceStarts(s, NewLine)
           Run(i) == \A k \in 1..K : s[i + k] # NewLine
<1>2. PICK i \in 0..(n - K) : Run(i)
  <2>1. Spoilt(s) <=> \/ \E i \in DOMAIN s : s[i] = NUL
                      \/ \E i \in 0..(n - K) : Run(i)
    BY DEF Spoilt, K
  <2> HIDE DEF Run
  <2> QED
    BY <1>1, <2>1
<1>3. /\ S \subseteq Nat /\ IsFiniteSet(S) /\ Cardinality(S) \in Nat
      /\ \A j \in S : j \in 1..n
      /\ \A j \in 1..n : j = 1 \/ s[j - 1] = NewLine => j \in S
  BY PieceStartsType
<1>4. n \in Nat /\ i \in Nat /\ i + K <= n /\ i + 1 \in 1..n /\ 1 \in 1..n
  BY <1>2, KIs
<1> DEFINE m == Rank(S, i + 1)
<1> HIDE DEF S, n, m
<1>5. 1 \in S
  BY <1>3, <1>4
<1>6. m \in 1..Cardinality(S)
  <2>1. Rank(S, 1) \in 1..Cardinality(S)
    BY <1>3, <1>5, Ranked
  <2>2. 1 \in Nat /\ i + 1 \in Nat /\ 1 <= i + 1
    BY <1>4
  <2>3. Rank(S, 1) <= m /\ m \in Nat
    BY <1>3, <2>2, RankKeepsOrder DEF m
  <2>4. Rank(S, i + 1) \in 0..Cardinality(S)
    BY <1>3, <2>2, RankStep
  <2> QED
    BY <1>3, <2>1, <2>3, <2>4 DEF m
<1>7. PICK p \in S : Rank(S, p) = m
  BY <1>3, <1>6, Ranked
<1>8. p \in 1..n
  BY <1>3
<1>9. p <= i + 1
  <2>1. i + 1 \in Nat
    BY <1>4
  <2>2. i + 1 < p => Rank(S, i + 1) < Rank(S, p)
    BY <1>3, <2>1, RankGrows
  <2> QED
    BY <1>4, <1>6, <1>7, <1>8, <2>2 DEF m
<1>10. PICK e : StopsAt(s, {NewLine}, p, e)
  <2>1. p \in 1..(Len(s) + 1)
    BY <1>4, <1>8 DEF n
  <2> QED
    BY <2>1, StopsSomewhere
<1>11. /\ e \in p..(n + 1)
       /\ e <= n => s[e] = NewLine
  BY <1>10 DEF StopsAt, n
<1>12. e > i + K
  <2>1. SUFFICES ASSUME e <= i + K PROVE FALSE
    BY <1>4, <1>8, <1>11, KIs
  <2>2. e \in 1..n /\ s[e] = NewLine
    BY <1>4, <1>8, <1>11, <2>1, KIs
  <2>3. ~(e > i)
    <3>1. e > i => e - i \in 1..K /\ i + (e - i) = e
      BY <1>4, <2>1, <2>2, KIs
    <3> QED
      BY <1>2, <2>2, <3>1
  <2>4. e + 1 \in 1..n /\ (e + 1) - 1 = e /\ e + 1 <= i + 1 /\ p < e + 1
    BY <1>4, <1>8, <1>11, <2>2, <2>3, KIs
  <2>5. e + 1 \in S
    BY <1>3, <2>2, <2>4
  <2>6. p \in Nat /\ e + 1 \in Nat /\ i + 1 \in Nat
    BY <1>4, <1>8, <2>2
  <2>7. Rank(S, p) < Rank(S, e + 1)
    BY <1>3, <2>4, <2>5, <2>6, RankGrows
  <2>8. Rank(S, e + 1) <= m /\ Rank(S, e + 1) \in Nat
    BY <1>3, <2>4, <2>6, RankKeepsOrder DEF m
  <2> QED
    BY <1>6, <1>7, <2>7, <2>8
<1>13. LinesOf(s)[m] = SubSeq(s, p, e - 1)
  <2>1. p \in PieceStarts(s, NewLine)
    BY DEF S
  <2>2. Pieces(s, NewLine)[Rank(PieceStarts(s, NewLine), p)] = SubSeq(s, p, e - 1)
    BY <1>10, <2>1, PieceIs
  <2> QED
    BY <1>7, <2>2 DEF S, LinesOf
<1>14. m \in DOMAIN LinesOf(s)
  BY <1>6 DEF LinesOf, Pieces, S
<1>15. Len(SubSeq(s, p, e - 1)) = (e - 1) - p + 1
  <2>1. p \in 1..(Len(s) + 1) /\ e - 1 \in 0..Len(s) /\ p <= (e - 1) + 1
    BY <1>4, <1>8, <1>11 DEF n
  <2> QED
    BY <2>1, Part
<1>16. (e - 1) - p + 1 + 2 <= MAX_USER_INPUT_LINE
  BY <1>1, <1>13, <1>14, <1>15
<1> QED
  BY <1>4, <1>8, <1>9, <1>11, <1>12, <1>16, KIs
-----------------------------------------------------------------------------
(* What fgets leaves in the buffer: a part that spoils the script, the     *)
(* last characters of the input, or a line and its end.                    *)
IsLine(l) ==
    /\ l \in Seq(Byte) /\ Len(l) + 2 <= MAX_USER_INPUT_LINE
    /\ \A i \in 1..Len(l) : l[i] # NewLine

LEMMA BufferIs ==
  ASSUME NEW s \in Seq(Byte), NEW eof \in BOOLEAN, LineReady(s, eof)
  PROVE  LET buf == SubSeq(s, 1, LineLength(s))
         IN  /\ buf \in Seq(Byte)
             /\ \/ Spoilt(buf)
                \/ /\ eof /\ From(s, LineLength(s) + 1) = <<>>
                   /\ Len(buf) \in Nat \ {0} /\ buf[Len(buf)] # NewLine
                \/ buf = Append(Input(buf), NewLine) /\ IsLine(Input(buf))
<1> DEFINE n == LineLength(s)
           buf == SubSeq(s, 1, n)
<1>1. /\ s # <<>>
      /\ eof \/ Len(s) >= K \/ \E i \in DOMAIN s : s[i] = NewLine
  BY DEF LineReady, K
<1>2. /\ n \in 1..Len(s) /\ n <= K
      /\ \A j \in 1..(n - 1) : s[j] # NewLine
      /\ s[n] = NewLine \/ n = K \/ n = Len(s)
  BY <1>1, LineLengthIs DEF K
<1> HIDE DEF n
<1>3. Len(s) \in Nat /\ DOMAIN s = 1..Len(s) /\ n \in Nat /\ n >= 1 /\ n <= Len(s)
  <2>1. Len(s) \in Nat /\ n \in 1..Len(s)
    BY <1>2
  <2> QED
    BY <2>1
<1>4. /\ buf \in Seq(Byte) /\ Len(buf) = n
      /\ \A k \in 1..n : buf[k] = s[k]
  <2> DEFINE i == n + 1
  <2>1. i \in 1..(Len(s) + 1) /\ i - 1 = n
    BY <1>3
  <2> HIDE DEF i
  <2>2. /\ SubSeq(s, 1, i - 1) \in Seq(Byte) /\ Len(SubSeq(s, 1, i - 1)) = i - 1
        /\ \A k \in 1..(i - 1) : SubSeq(s, 1, i - 1)[k] = s[k]
    BY <2>1, UptoIsPart
  <2> QED
    BY <2>1, <2>2
<1> HIDE DEF buf
<1>5. n \in Nat /\ n >= 1 /\ DOMAIN buf = 1..n /\ n \in 1..n
  <2>1. n \in 1..n
    BY <1>3
  <2> QED
    BY <1>3, <1>4, <2>1
<1>6. /\ (\E i \in 1..n : buf[i] = NUL) => Spoilt(buf)
      /\ n = K /\ (\A k \in 1..K : buf[k] # NewLine) => Spoilt(buf)
  <2>1. (\E i \in 1..n : buf[i] = NUL) => Spoilt(buf)
    BY <1>5 DEF Spoilt
  <2>2. ASSUME n = K, \A k \in 1..K : buf[k] # NewLine
        PROVE  \E i \in 0..(Len(buf) - K) : \A k \in 1..K : buf[i + k] # NewLine
    <3>1. 0 \in 0..(Len(buf) - K) /\ \A k \in 1..K : 0 + k = k
      BY <1>4, <1>5, <2>2, KIs
    <3> QED
      BY <2>2, <3>1
  <2>3. (\E i \in 0..(Len(buf) - K) : \A k \in 1..K : buf[i + k] # NewLine) => Spoilt(buf)
    BY DEF Spoilt, K
  <2> QED
    BY <2>1, <2>2, <2>3
<1>7. CASE s[n] = NewLine /\ \A i \in 1..n : buf[i] # NUL
  <2>1. StopsAt(buf, {NUL}, 1, n + 1)
    <3>1. n + 1 \in 1..(Len(buf) + 1) /\ ~(n + 1 <= Len(buf)) /\ (n + 1) - 1 = n
      BY <1>4, <1>5
    <3> QED
      BY <1>7, <3>1 DEF StopsAt
  <2>2. FirstIn(buf, {NUL}, 1) = n + 1
    <3>1. 1 \in 1..(Len(buf) + 1)
      BY <1>4, <1>5
    <3> QED
      BY <1>4, <2>1, <3>1, FirstInIs
  <2>3. (n + 1) - 2 = n - 1 /\ n \in 1..(Len(buf) + 1) /\ n - 1 \in Nat
    BY <1>4, <1>5
  <2> DEFINE l == SubSeq(buf, 1, n - 1)
  <2>4. Input(buf) = l
    BY <2>2, <2>3 DEF Input
  <2>5. /\ l \in Seq(Byte) /\ Len(l) = n - 1
        /\ \A k \in 1..(n - 1) : l[k] = buf[k]
    BY <1>4, <2>3, UptoIsPart
  <2> HIDE DEF l
  <2>6. IsLine(l)
    <3>1. (n - 1) + 2 <= MAX_USER_INPUT_LINE
      BY <1>2, <1>5, KIs
    <3>2. \A k \in 1..(n - 1) : k \in 1..n
      BY <1>5
    <3>3. \A k \in 1..(n - 1) : l[k] = s[k]
      BY <1>4, <2>5, <3>2
    <3> QED
      BY <1>2, <2>5, <3>1, <3>3 DEF IsLine
  <2>7. buf = Append(l, NewLine)
    <3> DEFINE u == Append(l, NewLine)
    <3>1. NewLine \in Byte
      BY InputAssumption
    <3>2. /\ u \in Seq(Byte) /\ Len(u) = Len(l) + 1
          /\ \A i \in 1..Len(l) : u[i] = l[i]
          /\ u[Len(l) + 1] = NewLine
      BY <2>5, <3>1, AppendProperties
    <3> HIDE DEF u
    <3>3. Len(u) = n /\ u[n] = NewLine /\ \A i \in 1..(n - 1) : u[i] = buf[i]
      <4>1. Len(l) + 1 = n
        BY <1>5, <2>5
      <4> QED
        BY <2>5, <3>2, <4>1
    <3>4. \A i \in 1..n : i = n \/ i \in 1..(n - 1)
      BY <1>5
    <3>5. \A i \in 1..Len(buf) : buf[i] = u[i]
      BY <1>4, <1>5, <1>7, <3>3, <3>4
    <3>6. buf = u
      BY <1>4, <3>2, <3>3, <3>5, SeqEqual
    <3> QED
      BY <3>6 DEF u
  <2> QED
    BY <1>4, <2>4, <2>6, <2>7 DEF buf, n
<1>8. CASE s[n] # NewLine /\ n # K
  <2>1. n = Len(s) /\ n < K
    BY <1>2, <1>5, <1>8, KIs
  <2>2. ~(Len(s) >= K)
    BY <1>3, <2>1, KIs
  <2>3. ~\E i \in DOMAIN s : s[i] = NewLine
    <3>1. \A i \in 1..n : i = n \/ i \in 1..(n - 1)
      BY <1>5
    <3> QED
      BY <1>2, <1>3, <1>8, <2>1, <3>1
  <2>4. eof
    BY <1>1, <2>2, <2>3
  <2>5. From(s, n + 1) = <<>>
    <3>1. n + 1 \in 1..(Len(s) + 1) /\ Len(s) - (n + 1) + 1 = 0
      BY <1>3, <2>1
    <3>2. From(s, n + 1) \in Seq(Byte) /\ Len(From(s, n + 1)) = 0
      BY <3>1, FromIs
    <3> QED
      BY <3>2
  <2>6. Len(buf) \in Nat \ {0} /\ buf[Len(buf)] # NewLine
    BY <1>4, <1>5, <1>8
  <2> QED
    BY <1>4, <2>4, <2>5, <2>6 DEF buf, n
<1>9. CASE s[n] # NewLine /\ n = K
  <2>1. \A i \in 1..n : i = n \/ i \in 1..(n - 1)
    BY <1>5
  <2>2. \A i \in 1..n : buf[i] # NewLine
    BY <1>2, <1>4, <1>9, <2>1
  <2>3. Spoilt(buf)
    BY <1>6, <1>9, <2>2
  <2> QED
    BY <1>4, <2>3 DEF buf, n
<1>10. CASE \E i \in 1..n : buf[i] = NUL
  BY <1>4, <1>6, <1>10 DEF buf, n
<1> QED
  BY <1>7, <1>8, <1>9, <1>10
-----------------------------------------------------------------------------
(* A step to a state of which this is known keeps the invariant.           *)
LEMMA TypedInvNextParts ==
  ASSUME PathInv', place' \in {"user", "command"} => script' = <<>>,
         place' # "foreign" =>
           \/ Spoilt(script')
           \/ stdin' = <<>> /\ stdinEof' /\ ~Ended(script')
           \/ Ended(script') /\ ToldBy(LinesOf(script'), place', fields', wire', understood')
  PROVE  TypedInv'
BY DEF TypedInv, Cut, Told
(* No lines; and one more line after whole ones.                           *)
LEMMA NoLines == LinesOf(<<>>) = <<>> /\ Spelled(<<>>) = {}
<1>1. NewLine \in Byte
  BY InputAssumption
<1>2. <<>> \in Seq(Byte) /\ \A i \in 1..Len(<<>>) : <<>>[i] # NewLine
  OBVIOUS
<1>3. Pieces(<<>>, NewLine) \in Seq(Seq(Byte))
  BY <1>1, <1>2, PieceJoins
<1>4. Len(Pieces(<<>>, NewLine)) = 0
  BY <1>2, PiecesInRow
<1>5. LinesOf(<<>>) = <<>>
  BY <1>3, <1>4 DEF LinesOf
<1>6. Spelled(<<>>) = {}
  BY DEF Spelled
<1> QED
  BY <1>5, <1>6

LEMMA LinesKnown ==
  ASSUME NEW s \in Seq(Byte), Ended(s)
  PROVE  LinesOf(s) \in Seq(Seq(Byte))
<1>1. NewLine \in Byte
  BY InputAssumption
<1>2. <<>> \in Seq(Byte) /\ \A i \in 1..Len(<<>>) : <<>>[i] # NewLine
  OBVIOUS
<1> QED
  BY <1>1, <1>2, PieceJoins DEF LinesOf, Ended

LEMMA LineJoins ==
  ASSUME NEW s \in Seq(Byte), Ended(s), NEW l, IsLine(l)
  PROVE  LET t == s \o Append(l, NewLine)
         IN  Ended(t) /\ LinesOf(t) = Append(LinesOf(s), l)
<1> DEFINE u == Append(l, NewLine)
           t == s \o u
<1>1. NewLine \in Byte /\ l \in Seq(Byte) /\ \A i \in 1..Len(l) : l[i] # NewLine
  BY InputAssumption DEF IsLine
<1>2. u \in Seq(Byte) /\ Len(u) = Len(l) + 1 /\ u[Len(l) + 1] = NewLine /\ Len(l) \in Nat
  BY <1>1, AppendProperties
<1> HIDE DEF u
<1>3. /\ Len(s) \in Nat /\ Len(t) = Len(s) + Len(u)
      /\ \A k \in 1..Len(u) : t[Len(s) + k] = u[k]
  <2>1. u \in Seq(Byte)
    BY <1>2
  <2> QED
    BY <2>1, Joined
<1> HIDE DEF t
<1>4. Len(l) + 1 \in 1..Len(u)
  BY <1>2
<1>5. t[Len(t)] = NewLine
  BY <1>2, <1>3, <1>4
<1>6. LinesOf(t) = Append(LinesOf(s), l)
  BY <1>1, PieceJoins DEF LinesOf, Ended, t, u
<1> QED
  BY <1>5, <1>6 DEF Ended, t, u

(* When the client reads a line: what the invariant asks for after the     *)
(* step has to be shown of whole lines only, the new one among them.       *)
LEMMA LineTaken ==
  ASSUME TypedInv, place \in Reading, RecvLine(script), PathInv',
         place' \notin {"user", "command", "foreign"},
         Told /\ IsLine(Line) /\ LinesOf(script) \in Seq(Seq(Byte)) =>
           ToldBy(Append(LinesOf(script), Line), place', fields', wire', understood')
  PROVE  TypedInv'
<1>1. /\ stdin \in Seq(Byte) /\ stdinEof \in BOOLEAN /\ script \in Seq(Byte)
      /\ place # "foreign"
  BY PathInvParts DEF TypedInv, Reading
<1>2. /\ LineReady(stdin, stdinEof) /\ stdin # <<>>
      /\ stdin' = From(stdin, LineLength(stdin) + 1) /\ script' = script \o Buffer
      /\ stdinEof' = stdinEof
  BY DEF RecvLine, LineReady
<1>3. Spoilt(script) \/ Told
  BY <1>1, <1>2 DEF TypedInv, Cut
<1>4. /\ Buffer \in Seq(Byte)
      /\ \/ Spoilt(Buffer)
         \/ /\ stdinEof /\ stdin' = <<>>
            /\ Len(Buffer) \in Nat \ {0} /\ Buffer[Len(Buffer)] # NewLine
         \/ Buffer = Append(Line, NewLine) /\ IsLine(Line)
  BY <1>1, <1>2, BufferIs DEF Buffer, Line
<1>5. CASE Spoilt(script) \/ Spoilt(Buffer)
  <2>1. Spoilt(script')
    BY <1>1, <1>2, <1>4, <1>5, SpoiltStays
  <2> QED
    BY <2>1, TypedInvNextParts
<1>6. CASE /\ stdinEof /\ stdin' = <<>>
           /\ Len(Buffer) \in Nat \ {0} /\ Buffer[Len(Buffer)] # NewLine
  <2>1. ~Ended(script')
    <3> DEFINE u == Buffer
               t == script \o u
    <3>1. /\ Len(script) \in Nat /\ Len(t) = Len(script) + Len(u)
          /\ \A k \in 1..Len(u) : t[Len(script) + k] = u[k]
      BY <1>1, <1>4, Joined
    <3>2. Len(u) \in Nat \ {0} /\ u[Len(u)] # NewLine
      BY <1>6
    <3> HIDE DEF u, t
    <3>3. Len(u) \in 1..Len(u) /\ Len(t) # 0
      BY <3>1, <3>2
    <3>4. t[Len(t)] # NewLine /\ t # <<>>
      BY <3>1, <3>2, <3>3
    <3> QED
      BY <1>2, <3>4 DEF Ended, t, u
  <2> QED
    BY <1>2, <1>6, <2>1, TypedInvNextParts
<1>7. CASE Told /\ Buffer = Append(Line, NewLine) /\ IsLine(Line)
  <2>1. Ended(script)
    BY <1>7 DEF Told
  <2>2. LinesOf(script) \in Seq(Seq(Byte))
    BY <1>1, <2>1, LinesKnown
  <2>3. ToldBy(Append(LinesOf(script), Line), place', fields', wire', understood')
    BY <1>7, <2>2
  <2>4. /\ Ended(script \o Append(Line, NewLine))
        /\ LinesOf(script \o Append(Line, NewLine)) = Append(LinesOf(script), Line)
    BY <1>1, <1>7, <2>1, LineJoins
  <2>5. Ended(script') /\ LinesOf(script') = Append(LinesOf(script), Line)
    BY <1>2, <1>7, <2>4
  <2> QED
    BY <2>3, <2>5, TypedInvNextParts
<1> QED
  BY <1>3, <1>4, <1>5, <1>6, <1>7
-----------------------------------------------------------------------------
(* The field of a line, with what the client takes out of it.              *)
LEMMA FieldTaken ==
  ASSUME NEW l, IsLine(l), NEW w, IsWord(w)
  PROVE  /\ HasPrefixAndData(l, w) => Fields(l, w) = {DataOf(l)} /\ Fits(DataOf(l))
         /\ ~HasPrefixAndData(l, w) => Fields(l, w) = {}
<1> DEFINE r == AfterWord(l)
           d == SkipBlanks(r)
<1>1. l \in Seq(Byte) /\ Len(l) + 2 <= MAX_USER_INPUT_LINE
  BY DEF IsLine
<1>2. r \in Seq(Byte) /\ Len(r) + Len(Word(l)) <= Len(l) /\ Word(l) \in Seq(Byte)
  BY <1>1, AfterWordBegins
<1> HIDE DEF r
<1>3. d \in Seq(Byte) /\ Len(d) <= Len(r)
  BY <1>2, AfterWordBegins
<1> HIDE DEF d
<1>4. Len(l) \in Nat /\ Len(r) \in Nat /\ Len(Word(l)) \in Nat /\ Len(d) \in Nat
  BY <1>1, <1>2, <1>3
<1>5. MAX_USER_INPUT_LINE \in Nat /\ MAX_FIELD_LENGTH \in Nat
      /\ MAX_USER_INPUT_LINE <= MAX_FIELD_LENGTH
  BY LimitAssumption, PacketAssumption
<1> DEFINE n == Len(Word(l))
<1>6. Len(d) + 1 <= MAX_FIELD_LENGTH
  <2>1. n \in Nat /\ Len(r) + n <= Len(l)
    BY <1>2, <1>4
  <2> HIDE DEF n
  <2> QED
    BY <1>1, <1>3, <1>4, <1>5, <2>1
<1>7. DataOf(l) = d
  BY DEF DataOf, d, r
<1> QED
  BY <1>1, <1>3, <1>6, <1>7, FieldsAre DEF IsWord, Fits

LEMMA LineFits ==
  ASSUME NEW l, IsLine(l)
  PROVE  l \in Seq(Byte) /\ Len(l) + 1 <= MAX_FIELD_LENGTH
<1>1. l \in Seq(Byte) /\ Len(l) + 2 <= MAX_USER_INPUT_LINE /\ Len(l) \in Nat
  BY DEF IsLine
<1>2. MAX_USER_INPUT_LINE \in Nat /\ MAX_FIELD_LENGTH \in Nat
      /\ MAX_USER_INPUT_LINE <= MAX_FIELD_LENGTH
  BY LimitAssumption, PacketAssumption
<1> QED
  BY <1>1, <1>2

(* What the lines of a script spell, by their number.                      *)
LEMMA OneSpelled ==
  ASSUME NEW L, Len(L) = 1
  PROVE  Spelled(L) = OneLine(L[1])
BY DEF Spelled

LEMMA TwoSpelled ==
  ASSUME NEW L, Len(L) = 2
  PROVE  /\ Fields(L[1], PREFIX_INPUT_USER) = {} => Spelled(L) = {}
         /\ Fields(L[2], PREFIX_INPUT_PASSWORD) = {} => Spelled(L) = {}
         /\ \A u, p : /\ Fields(L[1], PREFIX_INPUT_USER) = {u}
                      /\ Fields(L[2], PREFIX_INPUT_PASSWORD) = {p}
                      => Spelled(L) = {[type |-> "LOGIN", user |-> u, pass |-> p]}
<1> DEFINE U == Fields(L[1], PREFIX_INPUT_USER)
           P == Fields(L[2], PREFIX_INPUT_PASSWORD)
<1>1. Spelled(L) = {[type |-> "LOGIN", user |-> u, pass |-> p] : u \in U, p \in P}
  BY DEF Spelled
<1> HIDE DEF U, P
<1>2. /\ U = {} => Spelled(L) = {}
      /\ P = {} => Spelled(L) = {}
      /\ \A u, p : U = {u} /\ P = {p}
                     => Spelled(L) = {[type |-> "LOGIN", user |-> u, pass |-> p]}
  BY <1>1
<1> QED
  BY <1>2 DEF U, P

LEMMA ThreeSpelled ==
  ASSUME NEW L, Len(L) = 3
  PROVE  Spelled(L) = {}
BY DEF Spelled

LEMMA FourSpelled ==
  ASSUME NEW L, Len(L) = 4, L[1] \in Seq(Byte), Bare(L[1], COMMAND_COMPOSE)
  PROVE  Spelled(L) = {[type |-> "COMPOSE", to |-> t, subject |-> s, body |-> b] :
                         t \in Fields(L[2], PREFIX_INPUT_TO),
                         s \in Fields(L[3], PREFIX_INPUT_SUBJECT),
                         b \in Fields(L[4], PREFIX_INPUT_TEXT)}
<1>1. <<>> \in Rests(L[1], COMMAND_COMPOSE)
  BY WordsKnown, FieldsAre DEF IsWord, Bare
<1> QED
  BY <1>1 DEF Spelled

LEMMA NoMailSpelled ==
  ASSUME NEW L, Len(L) = 4, L[1] \in Seq(Byte), Bare(L[1], COMMAND_COMPOSE),
         Fields(L[4], PREFIX_INPUT_TEXT) = {}
  PROVE  Spelled(L) = {}
<1> DEFINE T == Fields(L[2], PREFIX_INPUT_TO)
           S == Fields(L[3], PREFIX_INPUT_SUBJECT)
<1>1. Spelled(L) = {[type |-> "COMPOSE", to |-> t, subject |-> s, body |-> b] :
                      t \in T, s \in S, b \in {}}
  BY FourSpelled
<1> HIDE DEF T, S
<1> QED
  BY <1>1

(* One mail of known parts.                                                *)
LEMMA OneMail ==
  ASSUME NEW u, NEW v, NEW w
  PROVE  {[type |-> "COMPOSE", to |-> t, subject |-> s, body |-> b] :
            t \in {u}, s \in {v}, b \in {w}}
         = {[type |-> "COMPOSE", to |-> u, subject |-> v, body |-> w]}
OBVIOUS

LEMMA OneMore ==
  ASSUME NEW L \in Seq(Seq(Byte)), NEW l \in Seq(Byte)
  PROVE  LET M == Append(L, l)
         IN  /\ Len(L) = 0 => Len(M) = 1 /\ M[1] = l
             /\ Len(L) = 1 => Len(M) = 2 /\ M[1] = L[1] /\ M[2] = l
             /\ Len(L) = 2 => Len(M) = 3 /\ M[1] = L[1] /\ M[2] = L[2] /\ M[3] = l
             /\ Len(L) = 3 => /\ Len(M) = 4 /\ M[1] = L[1] /\ M[2] = L[2] /\ M[3] = L[3]
                              /\ M[4] = l
             /\ Len(L) > 0 => L[1] \in Seq(Byte)
<1> DEFINE M == Append(L, l)
           n == Len(L)
<1>1. /\ n \in Nat /\ Len(M) = n + 1 /\ M[n + 1] = l
      /\ \A k \in 1..n : M[k] = L[k]
  BY AppendProperties
<1>2. \A k \in 1..n : L[k] \in Seq(Byte)
  BY ElementOfSeq
<1> HIDE DEF M, n
<1>3. /\ n >= 1 => M[1] = L[1]
      /\ n >= 2 => M[2] = L[2]
      /\ n >= 3 => M[3] = L[3]
  BY <1>1
<1>4. /\ n = 0 => Len(M) = 1 /\ M[1] = l
      /\ n = 1 => Len(M) = 2 /\ M[1] = L[1] /\ M[2] = l
      /\ n = 2 => Len(M) = 3 /\ M[1] = L[1] /\ M[2] = L[2] /\ M[3] = l
      /\ n = 3 => Len(M) = 4 /\ M[1] = L[1] /\ M[2] = L[2] /\ M[3] = L[3] /\ M[4] = l
  BY <1>1, <1>3
<1>5. n > 0 => L[1] \in Seq(Byte)
  BY <1>1, <1>2
<1> QED
  BY <1>4, <1>5 DEF M, n
-----------------------------------------------------------------------------
(* The steps that read a line.                                             *)
LEMMA LoginTells == TypedInv /\ CommandLogin => TypedInv'
<1> SUFFICES ASSUME TypedInv, CommandLogin PROVE TypedInv'
  OBVIOUS
<1> DEFINE L == LinesOf(script)
           M == Append(L, Line)
<1>1. PathInv /\ PathInv'
  BY LoginKeeps DEF TypedInv
<1>2. /\ script \in Seq(Byte) /\ fields \in Seq(Seq(Byte)) /\ Len(fields) = FieldsHeld(place)
  BY <1>1, PathInvParts
<1>3. CASE RecvArg("user", <<>>, PREFIX_INPUT_USER, "password", "off")
  <2>1. /\ place = "user" /\ RecvLine(<<>>)
        /\ IF HasPrefixAndData(Line, PREFIX_INPUT_USER)
           THEN GoOn("password", Append(fields, DataOf(Line))) ELSE GoOn("off", <<>>)
    BY <1>3 DEF RecvArg
  <2>2. script = <<>> /\ L = <<>> /\ place \in Reading
    BY <2>1, NoLines DEF TypedInv, Reading
  <2>3. RecvLine(script)
    BY <2>1, <2>2
  <2>4. place' \in {"password", "off"}
    BY <2>1 DEF GoOn
  <2>5. ASSUME IsLine(Line), L \in Seq(Seq(Byte))
        PROVE  ToldBy(M, place', fields', wire', understood')
    <3>1. Line \in Seq(Byte)
      BY <2>5, LineFits
    <3>2. Len(M) = 1 /\ M[1] = Line
      BY <2>2, <2>5, <3>1, OneMore
    <3> HIDE DEF L, M
    <3>3. CASE HasPrefixAndData(Line, PREFIX_INPUT_USER)
      <4> DEFINE d == DataOf(Line)
      <4>1. place' = "password" /\ fields' = Append(fields, d)
        BY <2>1, <3>3 DEF GoOn
      <4>2. Fields(Line, PREFIX_INPUT_USER) = {d} /\ Fits(d)
        BY <2>5, <3>3, FieldTaken, WordsKnown
      <4> HIDE DEF d
      <4>3. fields'[1] = d
        <5>1. Len(fields) = 0 /\ d \in Seq(Byte)
          BY <1>2, <2>1, <4>2 DEF FieldsHeld, Fits
        <5>2. Append(fields, d)[Len(fields) + 1] = d
          BY <1>2, <5>1, AppendProperties
        <5> QED
          BY <4>1, <5>1, <5>2
      <4> QED
        BY <3>2, <4>1, <4>2, <4>3 DEF ToldBy
    <3>4. CASE ~HasPrefixAndData(Line, PREFIX_INPUT_USER)
      <4>1. place' = "off"
        BY <2>1, <3>4 DEF GoOn
      <4>2. \A r \in Spelled(M) : r.type # "LOGIN"
        BY <3>1, <3>2, OneSpelled, OneLineNoLogin
      <4> QED
        BY <4>1, <4>2 DEF ToldBy
    <3> QED
      BY <3>3, <3>4
  <2> QED
    BY <1>1, <2>2, <2>3, <2>4, <2>5, LineTaken
<1>4. CASE RecvLastArg("password", PREFIX_INPUT_PASSWORD,
                       LAMBDA data : LoginPacket(fields[1], data), "off")
  <2>1. /\ place = "password" /\ RecvLine(script)
        /\ IF HasPrefixAndData(Line, PREFIX_INPUT_PASSWORD)
           THEN Send(LoginPacket(fields[1], DataOf(Line))) ELSE GoOn("off", <<>>)
    BY <1>4 DEF RecvLastArg
  <2>2. place \in Reading
    BY <2>1 DEF Reading
  <2>3. place' \in {"sent", "off"}
    BY <2>1 DEF GoOn, Send
  <2>4. ASSUME Told, IsLine(Line), L \in Seq(Seq(Byte))
        PROVE  ToldBy(M, place', fields', wire', understood')
    <3>1. Line \in Seq(Byte)
      BY <2>4, LineFits
    <3>2. Len(L) = 1 /\ Fields(L[1], PREFIX_INPUT_USER) = {fields[1]} /\ Fits(fields[1])
      BY <2>1, <2>4 DEF Told, ToldBy
    <3> HIDE DEF L
    <3>3. Len(M) = 2 /\ M[1] = L[1] /\ M[2] = Line
      BY <2>4, <3>1, <3>2, OneMore
    <3> HIDE DEF M
    <3>4. CASE HasPrefixAndData(Line, PREFIX_INPUT_PASSWORD)
      <4> DEFINE d == DataOf(Line)
                 u == fields[1]
                 frame == LoginPacket(u, d).m_buff
                 r == [type |-> "LOGIN", user |-> u, pass |-> d]
      <4>1. place' = "sent" /\ wire' = frame
        BY <2>1, <3>4 DEF Send
      <4>2. Fields(Line, PREFIX_INPUT_PASSWORD) = {d} /\ Fits(d)
        BY <2>4, <3>4, FieldTaken, WordsKnown
      <4> HIDE DEF d
      <4>3. Spelled(M) = {r}
        BY <3>2, <3>3, <4>2, TwoSpelled
      <4>4. r \in Encoded(frame)
        BY <3>2, <4>2, LoginSent DEF Fits
      <4>5. frame \in Seq(Byte)
        BY <3>2, <4>2, PacketsMade DEF Fits
      <4> HIDE DEF r, frame
      <4>6. Means(Spelled(M), Understood(wire'))
        BY <4>1, <4>3, <4>4, <4>5, OneMeant
      <4> QED
        BY <4>1, <4>6 DEF ToldBy
    <3>5. CASE ~HasPrefixAndData(Line, PREFIX_INPUT_PASSWORD)
      <4>1. place' = "off"
        BY <2>1, <3>5 DEF GoOn
      <4>2. Fields(Line, PREFIX_INPUT_PASSWORD) = {}
        BY <2>4, <3>5, FieldTaken, WordsKnown
      <4>3. Spelled(M) = {}
        BY <3>3, <4>2, TwoSpelled
      <4> QED
        BY <4>1, <4>3 DEF ToldBy
    <3> QED
      BY <3>4, <3>5
  <2> QED
    BY <1>1, <2>1, <2>2, <2>3, <2>4, LineTaken
<1> QED
  BY <1>3, <1>4 DEF CommandLogin

LEMMA UserRequestTells == TypedInv /\ HandleUserRequest => TypedInv'
<1> SUFFICES ASSUME TypedInv, HandleUserRequest PROVE TypedInv'
  OBVIOUS
<1> DEFINE L == LinesOf(script)
           M == Append(L, Line)
<1>1. PathInv /\ PathInv'
  BY UserRequestKeeps DEF TypedInv
<1>2. /\ place = "command" /\ RecvLine(<<>>)
      /\ IF StartsCompose(Line) THEN GoOn("to", <<>>)
         ELSE IF Sent(Line) = {} THEN GoOn("refused", <<>>)
         ELSE \E packet \in Sent(Line) : Send(packet)
  BY DEF HandleUserRequest
<1>3. script = <<>> /\ L = <<>> /\ place \in Reading
  BY <1>2, NoLines DEF TypedInv, Reading
<1>4. RecvLine(script)
  BY <1>2, <1>3
<1>5. place' \in {"to", "refused", "sent"}
  BY <1>2 DEF GoOn, Send
<1>6. ASSUME IsLine(Line), L \in Seq(Seq(Byte))
      PROVE  ToldBy(M, place', fields', wire', understood')
  <2>1. Line \in Seq(Byte) /\ Len(Line) + 1 <= MAX_FIELD_LENGTH
    BY <1>6, LineFits
  <2>2. Len(M) = 1 /\ M[1] = Line
    BY <1>3, <1>6, <2>1, OneMore
  <2> HIDE DEF L, M
  <2>3. Spelled(M) = OneLine(Line)
    BY <2>2, OneSpelled
  <2>4. CASE StartsCompose(Line)
    <3>1. place' = "to" /\ Bare(Line, COMMAND_COMPOSE)
      BY <1>2, <2>4 DEF GoOn, StartsCompose, Bare
    <3> QED
      BY <2>2, <3>1 DEF ToldBy
  <2>5. CASE ~StartsCompose(Line) /\ Sent(Line) = {}
    <3>1. place' = "refused"
      BY <1>2, <2>5 DEF GoOn
    <3>2. Spelled(M) = {}
      BY <2>1, <2>3, <2>5, SentIsSpelled
    <3> QED
      BY <3>1, <3>2 DEF ToldBy
  <2>6. CASE ~StartsCompose(Line) /\ Sent(Line) # {}
    <3>1. PICK packet \in Sent(Line) : Send(packet)
      BY <1>2, <2>6
    <3>2. place' = "sent" /\ wire' = packet.m_buff
      BY <3>1 DEF Send
    <3>3. PICK r : OneLine(Line) = {r} /\ r \in Encoded(packet.m_buff)
      BY <2>1, SentIsSpelled
    <3>4. packet.m_buff \in Seq(Byte)
      BY <2>1, SentType
    <3>5. Means(Spelled(M), Understood(wire'))
      BY <2>3, <3>2, <3>3, <3>4, OneMeant
    <3> QED
      BY <3>2, <3>5 DEF ToldBy
  <2> QED
    BY <2>4, <2>5, <2>6
<1> QED
  BY <1>1, <1>3, <1>4, <1>5, <1>6, LineTaken
LEMMA ComposeTells == TypedInv /\ CommandCompose => TypedInv'
<1> SUFFICES ASSUME TypedInv, CommandCompose PROVE TypedInv'
  OBVIOUS
<1> DEFINE L == LinesOf(script)
           M == Append(L, Line)
<1>1. PathInv /\ PathInv'
  BY ComposeKeeps DEF TypedInv
<1>2. /\ script \in Seq(Byte) /\ fields \in Seq(Seq(Byte)) /\ Len(fields) = FieldsHeld(place)
  BY <1>1, PathInvParts
<1>3. CASE RecvArg("to", script, PREFIX_INPUT_TO, "subject", "refused")
  <2>1. /\ place = "to" /\ RecvLine(script)
        /\ IF HasPrefixAndData(Line, PREFIX_INPUT_TO)
           THEN GoOn("subject", Append(fields, DataOf(Line))) ELSE GoOn("refused", <<>>)
    BY <1>3 DEF RecvArg
  <2>2. place \in Reading /\ place' \in {"subject", "refused"}
    BY <2>1 DEF GoOn, Reading
  <2>3. ASSUME Told, IsLine(Line), L \in Seq(Seq(Byte))
        PROVE  ToldBy(M, place', fields', wire', understood')
    <3>1. Line \in Seq(Byte)
      BY <2>3, LineFits
    <3>2. Len(L) = 1 /\ Bare(L[1], COMMAND_COMPOSE)
      BY <2>1, <2>3 DEF Told, ToldBy
    <3> HIDE DEF L
    <3>3. /\ Len(M) = 2 /\ M[1] = L[1] /\ M[2] = Line
          /\ L[1] \in Seq(Byte)
      BY <2>3, <3>1, <3>2, OneMore
    <3> HIDE DEF M
    <3>4. CASE HasPrefixAndData(Line, PREFIX_INPUT_TO)
      <4> DEFINE d == DataOf(Line)
      <4>1. place' = "subject" /\ fields' = Append(fields, d)
        BY <2>1, <3>4 DEF GoOn
      <4>2. Fields(Line, PREFIX_INPUT_TO) = {d} /\ Fits(d)
        BY <2>3, <3>4, FieldTaken, WordsKnown
      <4> HIDE DEF d
      <4>3. fields'[1] = d
        <5>1. Len(fields) = 0 /\ d \in Seq(Byte)
          BY <1>2, <2>1, <4>2 DEF FieldsHeld, Fits
        <5>2. Append(fields, d)[Len(fields) + 1] = d
          BY <1>2, <5>1, AppendProperties
        <5> QED
          BY <4>1, <5>1, <5>2
      <4> QED
        BY <3>2, <3>3, <4>1, <4>2, <4>3 DEF ToldBy
    <3>5. CASE ~HasPrefixAndData(Line, PREFIX_INPUT_TO)
      <4>1. place' = "refused"
        BY <2>1, <3>5 DEF GoOn
      <4>2. Fields(M[1], PREFIX_INPUT_USER) = {}
        BY <3>2, <3>3, ComposeSpells
      <4>3. Spelled(M) = {}
        BY <3>3, <4>2, TwoSpelled
      <4> QED
        BY <4>1, <4>3 DEF ToldBy
    <3> QED
      BY <3>4, <3>5
  <2> QED
    BY <1>1, <2>1, <2>2, <2>3, LineTaken
<1>4. CASE RecvArg("subject", script, PREFIX_INPUT_SUBJECT, "text", "refused")
  <2>1. /\ place = "subject" /\ RecvLine(script)
        /\ IF HasPrefixAndData(Line, PREFIX_INPUT_SUBJECT)
           THEN GoOn("text", Append(fields, DataOf(Line))) ELSE GoOn("refused", <<>>)
    BY <1>4 DEF RecvArg
  <2>2. place \in Reading /\ place' \in {"text", "refused"}
    BY <2>1 DEF GoOn, Reading
  <2>3. ASSUME Told, IsLine(Line), L \in Seq(Seq(Byte))
        PROVE  ToldBy(M, place', fields', wire', understood')
    <3>1. Line \in Seq(Byte)
      BY <2>3, LineFits
    <3>2. /\ Len(L) = 2 /\ Bare(L[1], COMMAND_COMPOSE)
          /\ Fields(L[2], PREFIX_INPUT_TO) = {fields[1]} /\ Fits(fields[1])
      BY <2>1, <2>3 DEF Told, ToldBy
    <3> HIDE DEF L
    <3>3. Len(M) = 3 /\ M[1] = L[1] /\ M[2] = L[2] /\ M[3] = Line
      BY <2>3, <3>1, <3>2, OneMore
    <3> HIDE DEF M
    <3>4. CASE HasPrefixAndData(Line, PREFIX_INPUT_SUBJECT)
      <4> DEFINE d == DataOf(Line)
      <4>1. place' = "text" /\ fields' = Append(fields, d)
        BY <2>1, <3>4 DEF GoOn
      <4>2. Fields(Line, PREFIX_INPUT_SUBJECT) = {d} /\ Fits(d)
        BY <2>3, <3>4, FieldTaken, WordsKnown
      <4> HIDE DEF d
      <4>3. fields'[1] = fields[1] /\ fields'[2] = d
        <5>1. Len(fields) = 1 /\ d \in Seq(Byte)
          BY <1>2, <2>1, <4>2 DEF FieldsHeld, Fits
        <5>2. fields \in Seq(Seq(Byte)) /\ d \in Seq(Byte)
          BY <1>2, <5>1
        <5>3. /\ Append(fields, d)[Len(fields) + 1] = d
              /\ \A k \in 1..Len(fields) : Append(fields, d)[k] = fields[k]
          BY <5>2, AppendProperties
        <5> QED
          BY <4>1, <5>1, <5>3
      <4> QED
        BY <3>2, <3>3, <4>1, <4>2, <4>3 DEF ToldBy
    <3>5. CASE ~HasPrefixAndData(Line, PREFIX_INPUT_SUBJECT)
      <4>1. place' = "refused"
        BY <2>1, <3>5 DEF GoOn
      <4>2. Spelled(M) = {}
        BY <3>3, ThreeSpelled
      <4> QED
        BY <4>1, <4>2 DEF ToldBy
    <3> QED
      BY <3>4, <3>5
  <2> QED
    BY <1>1, <2>1, <2>2, <2>3, LineTaken
<1>5. CASE RecvLastArg("text", PREFIX_INPUT_TEXT,
                       LAMBDA data : ComposePacket(fields[1], fields[2], data), "refused")
  <2>1. /\ place = "text" /\ RecvLine(script)
        /\ IF HasPrefixAndData(Line, PREFIX_INPUT_TEXT)
           THEN Send(ComposePacket(fields[1], fields[2], DataOf(Line)))
           ELSE GoOn("refused", <<>>)
    BY <1>5 DEF RecvLastArg
  <2>2. place \in Reading /\ place' \in {"sent", "refused"}
    BY <2>1 DEF GoOn, Send, Reading
  <2>3. ASSUME Told, IsLine(Line), L \in Seq(Seq(Byte))
        PROVE  ToldBy(M, place', fields', wire', understood')
    <3>1. Line \in Seq(Byte)
      BY <2>3, LineFits
    <3>2. /\ Len(L) = 3 /\ Bare(L[1], COMMAND_COMPOSE)
          /\ Fields(L[2], PREFIX_INPUT_TO) = {fields[1]} /\ Fits(fields[1])
          /\ Fields(L[3], PREFIX_INPUT_SUBJECT) = {fields[2]} /\ Fits(fields[2])
      BY <2>1, <2>3 DEF Told, ToldBy
    <3> HIDE DEF L
    <3>3. /\ Len(M) = 4 /\ M[1] = L[1] /\ M[2] = L[2] /\ M[3] = L[3] /\ M[4] = Line
          /\ L[1] \in Seq(Byte)
      BY <2>3, <3>1, <3>2, OneMore
    <3> HIDE DEF M
    <3>4. CASE HasPrefixAndData(Line, PREFIX_INPUT_TEXT)
      <4> DEFINE d == DataOf(Line)
                 t == fields[1]
                 s == fields[2]
                 frame == ComposePacket(t, s, d).m_buff
                 r == [type |-> "COMPOSE", to |-> t, subject |-> s, body |-> d]
      <4>1. place' = "sent" /\ wire' = frame
        BY <2>1, <3>4 DEF Send
      <4>2. Fields(Line, PREFIX_INPUT_TEXT) = {d} /\ Fits(d)
        BY <2>3, <3>4, FieldTaken, WordsKnown
      <4> HIDE DEF d
      <4>3. Spelled(M) = {r}
        <5>1. /\ Len(M) = 4 /\ M[1] \in Seq(Byte) /\ Bare(M[1], COMMAND_COMPOSE)
              /\ Fields(M[2], PREFIX_INPUT_TO) = {t}
              /\ Fields(M[3], PREFIX_INPUT_SUBJECT) = {s}
              /\ Fields(M[4], PREFIX_INPUT_TEXT) = {d}
          BY <3>2, <3>3, <4>2
        <5> HIDE DEF t, s, r
        <5>2. Spelled(M) = {[type |-> "COMPOSE", to |-> a, subject |-> b, body |-> c] :
                              a \in Fields(M[2], PREFIX_INPUT_TO),
                              b \in Fields(M[3], PREFIX_INPUT_SUBJECT),
                              c \in Fields(M[4], PREFIX_INPUT_TEXT)}
          BY <5>1, FourSpelled
        <5>3. {[type |-> "COMPOSE", to |-> a, subject |-> b, body |-> c] :
                 a \in {t}, b \in {s}, c \in {d}} = {r}
          BY OneMail DEF r
        <5> QED
          BY <5>1, <5>2, <5>3
      <4>4. r \in Encoded(frame)
        BY <3>2, <4>2, ComposeSent DEF Fits
      <4>5. frame \in Seq(Byte)
        BY <3>2, <4>2, PacketsMade DEF Fits
      <4> HIDE DEF r, frame
      <4>6. Means(Spelled(M), Understood(wire'))
        BY <4>1, <4>3, <4>4, <4>5, OneMeant
      <4> QED
        BY <4>1, <4>6 DEF ToldBy
    <3>5. CASE ~HasPrefixAndData(Line, PREFIX_INPUT_TEXT)
      <4>1. place' = "refused"
        BY <2>1, <3>5 DEF GoOn
      <4>2. Fields(Line, PREFIX_INPUT_TEXT) = {}
        BY <2>3, <3>5, FieldTaken, WordsKnown
      <4>3. Spelled(M) = {}
        BY <3>2, <3>3, <4>2, NoMailSpelled
      <4> QED
        BY <4>1, <4>3 DEF ToldBy
    <3> QED
      BY <3>4, <3>5
  <2> QED
    BY <1>1, <2>1, <2>2, <2>3, LineTaken
<1> QED
  BY <1>3, <1>4, <1>5 DEF CommandCompose

(* The steps that read none.                                               *)
LEMMA InputEndsTells == TypedInv /\ InputEnds => TypedInv'
<1> SUFFICES ASSUME TypedInv, InputEnds PROVE TypedInv'
  OBVIOUS
<1> DEFINE L == LinesOf(script)
<1>1. PathInv /\ PathInv'
  BY InputEndsKeeps DEF TypedInv
<1>2. /\ place \in Reading /\ stdin = <<>> /\ stdinEof
      /\ place' = (IF place \in {"to", "subject", "text"} THEN "refused" ELSE "off")
      /\ fields' = <<>> /\ wire' = wire /\ stdin' = stdin /\ stdinEof' = stdinEof
      /\ script' = script /\ understood' = understood
  BY DEF InputEnds, GoOn, inputVars
<1>3. script \in Seq(Byte)
  BY <1>1, PathInvParts
<1>4. ASSUME Told
      PROVE  ToldBy(L, place', fields', wire', understood')
  <2>1. Ended(script) /\ ToldBy(L, place, fields, wire, understood)
    BY <1>4 DEF Told
  <2>2. L \in Seq(Seq(Byte))
    BY <1>3, <2>1, LinesKnown
  <2>3. place \in {"user", "command"} => Spelled(L) = {}
    BY NoLines DEF TypedInv
  <2> HIDE DEF L
  <2>4. Len(L) > 0 => L[1] \in Seq(Byte)
    <3>1. <<>> \in Seq(Byte)
      OBVIOUS
    <3> QED
      BY <2>2, <3>1, OneMore
  <2>5. CASE place \in {"user", "command"}
    <3>1. place' = "off"
      BY <1>2, <2>5
    <3> QED
      BY <2>3, <2>5, <3>1 DEF ToldBy
  <2>6. CASE place = "password"
    <3>1. place' = "off" /\ Len(L) = 1 /\ L[1] \in Seq(Byte)
      BY <1>2, <2>1, <2>4, <2>6 DEF ToldBy
    <3>2. \A r \in Spelled(L) : r.type # "LOGIN"
      BY <3>1, OneSpelled, OneLineNoLogin
    <3> QED
      BY <3>1, <3>2 DEF ToldBy
  <2>7. CASE place \in {"to", "subject", "text"}
    <3>1. place' = "refused"
      BY <1>2, <2>7
    <3>2. Bare(L[1], COMMAND_COMPOSE) /\ Len(L) \in {1, 2, 3} /\ L[1] \in Seq(Byte)
      BY <2>1, <2>4, <2>7 DEF ToldBy
    <3>3. OneLine(L[1]) = {} /\ Fields(L[1], PREFIX_INPUT_USER) = {}
      BY <3>2, ComposeSpells
    <3>4. Spelled(L) = {}
      BY <3>2, <3>3, OneSpelled, TwoSpelled, ThreeSpelled
    <3> QED
      BY <3>1, <3>4 DEF ToldBy
  <2> QED
    BY <1>2, <2>5, <2>6, <2>7 DEF Reading
<1>5. place' \in {"refused", "off"}
  BY <1>2
<1>6. Spoilt(script) \/ Cut \/ Told
  BY <1>2 DEF TypedInv, Reading
<1> QED
  BY <1>1, <1>2, <1>4, <1>5, <1>6, TypedInvNextParts DEF Cut, Told

LEMMA ServerReadsTells == TypedInv /\ ServerReads => TypedInv'
<1> SUFFICES ASSUME TypedInv, ServerReads PROVE TypedInv'
  OBVIOUS
<1>1. PathInv'
  BY ServerReadsKeeps DEF TypedInv
<1>2. /\ place \in {"sent", "foreign"} /\ place' = IF place = "sent" THEN "answered" ELSE place
      /\ understood' = Understood(wire)
      /\ fields' = fields /\ wire' = wire /\ stdin' = stdin /\ stdinEof' = stdinEof
      /\ script' = script
  BY DEF ServerReads, inputVars
<1>3. CASE place = "sent"
  <2>1. Spoilt(script) \/ Cut \/ Told
    BY <1>3 DEF TypedInv
  <2>2. Told => ToldBy(LinesOf(script), place', fields', wire', understood')
    BY <1>2, <1>3 DEF Told, ToldBy
  <2> QED
    BY <1>1, <1>2, <1>3, <2>1, <2>2, TypedInvNextParts DEF Cut, Told
<1>4. CASE place = "foreign"
  BY <1>1, <1>2, <1>4, TypedInvNextParts
<1> QED
  BY <1>2, <1>3, <1>4

LEMMA ShowResultTells == TypedInv /\ ShowResult => TypedInv'
<1> SUFFICES ASSUME TypedInv, ShowResult PROVE TypedInv'
  OBVIOUS
<1>1. PathInv'
  BY ShowResultKeeps DEF TypedInv
<1>2. place' \in {"command", "off"} /\ script' = <<>>
  BY DEF ShowResult
<1>3. Ended(script') /\ Spelled(LinesOf(script')) = {}
  BY <1>2, NoLines DEF Ended
<1>4. ToldBy(LinesOf(script'), place', fields', wire', understood')
  BY <1>2, <1>3 DEF ToldBy
<1> QED
  BY <1>1, <1>2, <1>3, <1>4, TypedInvNextParts

(* Nothing is typed after the end of the input.                            *)
LEMMA TypingTells ==
  ASSUME TypedInv, PathInv', UNCHANGED <<script, place, fields, wire, understood>>,
         ~stdinEof \/ UNCHANGED inputVars
  PROVE  TypedInv'
<1>1. /\ script' = script /\ place' = place /\ fields' = fields /\ wire' = wire
      /\ understood' = understood
      /\ ~stdinEof \/ (stdin' = stdin /\ stdinEof' = stdinEof)
  BY DEF inputVars
<1>2. /\ place \in {"user", "command"} => script = <<>>
      /\ place # "foreign" => Spoilt(script) \/ Cut \/ Told
  BY DEF TypedInv
<1> QED
  BY <1>1, <1>2, TypedInvNextParts DEF Cut, Told

LEMMA TypedInvInit == PathInit => TypedInv
<1> SUFFICES ASSUME PathInit PROVE TypedInv
  OBVIOUS
<1>1. PathInv
  BY PathInvInit
<1>2. script = <<>> /\ place \in {"user", "foreign"}
  BY DEF PathInit
<1>3. place = "user" => Told
  BY <1>2 DEF Told, ToldBy, Ended
<1> QED
  BY <1>1, <1>2, <1>3 DEF TypedInv

LEMMA TypedInvNext == TypedInv /\ [PathNext]_textVars => TypedInv'
<1> SUFFICES ASSUME TypedInv, [PathNext]_textVars PROVE TypedInv'
  OBVIOUS
<1>1. PathInv'
  BY PathInvNext DEF TypedInv
<1>2. CASE \E chunk \in Chunks : TypeChunk(chunk)
  BY <1>1, <1>2, TypingTells DEF TypeChunk, AtKeyboard
<1>3. CASE CloseStdin
  BY <1>1, <1>3, TypingTells DEF CloseStdin, AtKeyboard
<1>4. CASE ProgramStep
  BY <1>4, LoginTells, UserRequestTells, ComposeTells, InputEndsTells, ServerReadsTells,
     ShowResultTells DEF ProgramStep
<1>5. CASE UNCHANGED textVars
  BY <1>1, <1>5, TypingTells DEF textVars, inputVars
<1> QED
  BY <1>2, <1>3, <1>4, <1>5 DEF PathNext

LEMMA TypedInvariant == PathSpec => []TypedInv
  BY TypedInvInit, TypedInvNext, PTL DEF PathSpec

-----------------------------------------------------------------------------
LEMMA IntactIsTold ==
  ASSUME TypedInv, place # "foreign", Intact(script)
  PROVE  Told
<1>1. script \in Seq(Byte)
  BY PathInvParts DEF TypedInv
<1>2. ~Spoilt(script)
  BY <1>1, SpoiltIsNotIntact
<1>3. Ended(script)
  BY DEF Intact, Ended, Last
<1> QED
  BY <1>2, <1>3 DEF TypedInv, Cut

(* From the keyboard to the handler (Common.cpp, Client.cpp, Packet.cpp,   *)
(* Server.cpp), for words, digits, limits and inputs of any kind: when the *)
(* lines are whole, free of NUL and short enough, the request the server   *)
(* has read is the one they spell.                                         *)
THEOREM RequestsAreUnderstood == PathSpec => []UnderstoodAsTyped
<1>1. TypedInv => UnderstoodAsTyped
  <2> SUFFICES ASSUME TypedInv, place = "answered", Intact(script)
               PROVE  Means(Spelled(LinesOf(script)), understood)
    BY DEF UnderstoodAsTyped
  <2>1. Told
    BY IntactIsTold
  <2> QED
    BY <2>1 DEF Told, ToldBy
<1> QED
  BY <1>1, TypedInvariant, PTL

(* And what the client refuses, or leaves on before the login, without     *)
(* having sent anything spells no request (Client.cpp).                    *)
THEOREM NothingIsLost == PathSpec => []RefusedSpellsNothing
<1>1. TypedInv => RefusedSpellsNothing
  <2> SUFFICES ASSUME TypedInv, script # <<>>, Intact(script)
               PROVE  /\ place = "refused" => Spelled(LinesOf(script)) = {}
                      /\ place = "off" => \A r \in Spelled(LinesOf(script)) : r.type # "LOGIN"
    BY DEF RefusedSpellsNothing
  <2>1. place \in {"refused", "off"} => Told
    BY IntactIsTold
  <2> QED
    BY <2>1 DEF Told, ToldBy
<1> QED
  BY <1>1, TypedInvariant, PTL
=============================================================================
