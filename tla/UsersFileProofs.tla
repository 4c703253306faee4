--------------------------- MODULE UsersFileProofs ---------------------------
(***************************************************************************)
(* UsersFileParser for every file and whatever new memory holds: the users *)
(* loaded are those of the lines in the right format, and come from their  *)
(* lines although the buffer holds earlier ones, up to a last line that    *)
(* nothing ends.                                                           *)
(***************************************************************************)
EXTENDS UsersFileParser, SeqLemmas, FiniteSetTheorems

-----------------------------------------------------------------------------
(* The scan of getUserFromLine.                                            *)
LEMMA UptoStops ==
  ASSUME NEW T, NEW s \in Seq(T), NEW S, NEW i \in 1..(Len(s) + 1)
  PROVE  StopsAt(s, S, i, Upto(s, S, i))
<1>1. PICK j : StopsAt(s, S, i, j)
  BY StopsSomewhere
<1> QED
  BY <1>1 DEF Upto, StopsAt

LEMMA UptoIs ==
  ASSUME NEW T, NEW s \in Seq(T), NEW S, NEW i \in 1..(Len(s) + 1),
         NEW j, StopsAt(s, S, i, j)
  PROVE  Upto(s, S, i) = j
<1>1. StopsAt(s, S, i, Upto(s, S, i))
  BY UptoStops
<1> QED
  BY <1>1, StopsOnce

-----------------------------------------------------------------------------
(* The buffer after getline.                                               *)
HoldsLine(b, l) ==
    /\ b \in Seq(FileChar) /\ l \in Seq(FileChar)
    /\ Len(l) \in 1..(Len(b) - 1)
    /\ \A k \in 1..Len(l) : b[k] = l[k]
    /\ b[Len(l) + 1] = Zero

(* A line: its end, if it has one, is its last character.                  *)
EndsOnce(l) == \A k \in 1..(Len(l) - 1) : l[k] # EOL

(* A user read from l whose buffer holds other things behind it.           *)
FromLine(u, l) ==
    IF Unseparated(l) THEN l[Len(l)] # EOL /\ u.user = l
    ELSE \E c \in {Tabulator, CRet, Zero} : IsPrefix(u.user \o <<c>> \o u.pass, l)

(* The scan for the end of the name stays within the line and its NUL; so  *)
(* does the one for the end of the password, if the name ends before.      *)
LEMMA NameStops ==
  ASSUME NEW b, NEW l, HoldsLine(b, l)
  PROVE  /\ NameEnd(b) \in 1..(Len(l) + 1)
         /\ StopsAt(b, {Zero, CRet, EOL, Tabulator}, 1, NameEnd(b))
<1> DEFINE S == {Zero, CRet, EOL, Tabulator}
           e == NameEnd(b)
<1>1. b \in Seq(FileChar) /\ Len(b) \in Nat /\ Len(l) \in Nat /\ Len(l) + 1 \in 1..Len(b)
  BY DEF HoldsLine
<1>2. StopsAt(b, S, 1, e)
  BY <1>1, UptoStops DEF NameEnd
<1> HIDE DEF e
<1>3. ~(e > Len(l) + 1)
  <2> SUFFICES ASSUME e > Len(l) + 1
               PROVE  FALSE
    OBVIOUS
  <2>1. Len(l) + 1 \in 1..(e - 1)
    BY <1>1, <1>2 DEF StopsAt
  <2> QED
    BY <1>2, <2>1 DEF StopsAt, HoldsLine
<1> QED
  BY <1>1, <1>2, <1>3 DEF StopsAt, e

LEMMA PassStops ==
  ASSUME NEW b, NEW l, HoldsLine(b, l), NameEnd(b) <= Len(l)
  PROVE  /\ PassEnd(b) \in (NameEnd(b) + 1)..(Len(l) + 1)
         /\ StopsAt(b, {Zero, CRet, EOL}, NameEnd(b) + 1, PassEnd(b))
<1> DEFINE S == {Zero, CRet, EOL}
           e == NameEnd(b)
           p == PassEnd(b)
<1>1. b \in Seq(FileChar) /\ Len(b) \in Nat /\ Len(l) \in Nat /\ Len(l) + 1 \in 1..Len(b)
  BY DEF HoldsLine
<1>2. e \in 1..Len(l)
  BY <1>1, NameStops
<1>3. StopsAt(b, S, e + 1, p)
  BY <1>1, <1>2, UptoStops DEF PassEnd
<1> HIDE DEF e, p
<1>4. ~(p > Len(l) + 1)
  <2> SUFFICES ASSUME p > Len(l) + 1
               PROVE  FALSE
    OBVIOUS
  <2>1. Len(l) + 1 \in (e + 1)..(p - 1)
    BY <1>1, <1>2, <1>3 DEF StopsAt
  <2> QED
    BY <1>3, <2>1 DEF StopsAt, HoldsLine
<1> QED
  BY <1>1, <1>2, <1>3, <1>4 DEF StopsAt, e, p

(* Two parts of a line with one character between them make up its prefix. *)
LEMMA PartsOfPrefix ==
  ASSUME NEW T, NEW l \in Seq(T), NEW e \in 1..Len(l), NEW p \in (e + 1)..(Len(l) + 1),
         NEW user \in Seq(T), NEW pass \in Seq(T),
         Len(user) = e - 1, \A k \in 1..(e - 1) : user[k] = l[k],
         Len(pass) = p - 1 - e, \A k \in 1..(p - 1 - e) : pass[k] = l[e + k]
  PROVE  IsPrefix(user \o <<l[e]>> \o pass, l)
<1> DEFINE q == user \o <<l[e]>>
           r == q \o pass
           n == p - 1
<1>0. Len(l) \in Nat /\ e \in Nat /\ p \in Nat /\ l[e] \in T /\ n \in 0..Len(l)
  BY ElementOfSeq
<1>1. /\ q \in Seq(T) /\ Len(q) = e
      /\ \A k \in 1..e : q[k] = l[k]
  <2>1. <<l[e]>> \in Seq(T) /\ Len(<<l[e]>>) = 1 /\ <<l[e]>>[1] = l[e]
    BY <1>0
  <2>2. /\ q \in Seq(T) /\ Len(q) = e
        /\ \A k \in 1..e : q[k] = IF k <= e - 1 THEN user[k] ELSE <<l[e]>>[k - (e - 1)]
    <3>1. /\ q \in Seq(T) /\ Len(q) = Len(user) + Len(<<l[e]>>)
          /\ \A k \in 1..(Len(user) + Len(<<l[e]>>)) :
               q[k] = IF k <= Len(user) THEN user[k] ELSE <<l[e]>>[k - Len(user)]
      BY <2>1, ConcatProperties
    <3>2. Len(user) + Len(<<l[e]>>) = e
      BY <1>0, <2>1
    <3> QED
      BY <3>1, <3>2
  <2>3. ASSUME NEW k \in 1..e
        PROVE  q[k] = l[k]
    <3>1. k <= e - 1 \/ k = e
      BY <1>0
    <3> QED
      BY <1>0, <2>1, <2>2, <3>1
  <2> QED
    BY <2>2, <2>3
<1> HIDE DEF q
<1>2. /\ r \in Seq(T) /\ Len(r) = n
      /\ \A k \in 1..n : r[k] = l[k]
  <2>1. /\ r \in Seq(T) /\ Len(r) = n
        /\ \A k \in 1..n : r[k] = IF k <= e THEN q[k] ELSE pass[k - e]
    <3>1. /\ r \in Seq(T) /\ Len(r) = Len(q) + Len(pass)
          /\ \A k \in 1..(Len(q) + Len(pass)) :
               r[k] = IF k <= Len(q) THEN q[k] ELSE pass[k - Len(q)]
      BY <1>1, ConcatProperties
    <3>2. Len(q) + Len(pass) = n
      BY <1>0, <1>1
    <3> QED
      BY <1>1, <3>1, <3>2
  <2>2. ASSUME NEW k \in 1..n
        PROVE  r[k] = l[k]
    <3>1. CASE k <= e
      BY <1>0, <1>1, <2>1, <3>1
    <3>2. CASE k > e
      <4>1. k - e \in 1..(p - 1 - e) /\ e + (k - e) = k /\ ~(k <= e)
        BY <1>0, <3>2
      <4> QED
        BY <2>1, <4>1
    <3>3. k <= e \/ k > e
      BY <1>0
    <3> QED
      BY <3>1, <3>2, <3>3
  <2> QED
    BY <2>1, <2>2
<1> HIDE DEF r
<1>3. SubSeq(r, 1, n) = SubSeq(l, 1, n)
  <2>1. /\ SubSeq(r, 1, n) \in Seq(T) /\ Len(SubSeq(r, 1, n)) = n
        /\ \A k \in 1..n : SubSeq(r, 1, n)[k] = r[k]
    BY <1>0, <1>2, Part
  <2>2. /\ SubSeq(l, 1, n) \in Seq(T) /\ Len(SubSeq(l, 1, n)) = n
        /\ \A k \in 1..n : SubSeq(l, 1, n)[k] = l[k]
    BY <1>0, Part
  <2> QED
    BY <1>2, <2>1, <2>2, SeqEqual
<1>4. IsPrefix(r, l)
  BY <1>0, <1>2, <1>3 DEF IsPrefix
<1> QED
  BY <1>4 DEF r, q
(* The user read from a buffer comes from its line, whatever lies behind   *)
(* the line's NUL.                                                         *)
LEMMA UserReadFromLine ==
  ASSUME NEW b, NEW l, HoldsLine(b, l), EndsOnce(l), IsUser(b)
  PROVE  /\ UserOf(b) \in [user : Seq(FileChar), pass : Seq(FileChar)]
         /\ FromLine(UserOf(b), l)
<1> DEFINE e == NameEnd(b)
           p == PassEnd(b)
           user == SubSeq(b, 1, e - 1)
           pass == SubSeq(b, e + 1, p - 1)
<1>0. /\ b \in Seq(FileChar) /\ l \in Seq(FileChar)
      /\ Len(b) \in Nat /\ Len(l) \in Nat /\ Len(l) >= 1 /\ Len(l) + 1 <= Len(b)
      /\ \A k \in 1..Len(l) : b[k] = l[k]
      /\ b[Len(l) + 1] = Zero
  BY DEF HoldsLine
<1>1. e \in 1..(Len(l) + 1) /\ StopsAt(b, {Zero, CRet, EOL, Tabulator}, 1, e)
  BY NameStops
<1>2. e > 1 /\ e < Len(b) /\ p > e + 1
  BY DEF IsUser
<1>3. p \in (e + 1)..(Len(b) + 1) /\ StopsAt(b, {Zero, CRet, EOL}, e + 1, p)
  BY <1>0, <1>1, <1>2, UptoStops DEF PassEnd, StopsAt
<1> HIDE DEF e, p
<1>4. /\ user \in Seq(FileChar) /\ Len(user) = e - 1
      /\ \A k \in 1..(e - 1) : user[k] = b[k]
  BY <1>0, <1>1, <1>2, Part
<1>5. /\ pass \in Seq(FileChar) /\ Len(pass) = p - 1 - e
      /\ \A k \in 1..(p - 1 - e) : pass[k] = b[e + k]
  <2>1. e + 1 \in 1..(Len(b) + 1) /\ p - 1 \in 0..Len(b) /\ e + 1 <= (p - 1) + 1
    BY <1>0, <1>1, <1>2, <1>3
  <2>2. /\ pass \in Seq(FileChar) /\ Len(pass) = (p - 1) - (e + 1) + 1
        /\ \A k \in 1..((p - 1) - (e + 1) + 1) : pass[k] = b[(e + 1) + k - 1]
    BY <1>0, <2>1, Part
  <2>3. (p - 1) - (e + 1) + 1 = p - 1 - e /\ \A k \in Int : (e + 1) + k - 1 = e + k
    BY <1>1, <1>3
  <2> QED
    BY <2>2, <2>3
<1> HIDE DEF user, pass
<1>6. /\ UserOf(b) = [user |-> user, pass |-> pass]
      /\ UserOf(b).user = user /\ UserOf(b).pass = pass
      /\ UserOf(b) \in [user : Seq(FileChar), pass : Seq(FileChar)]
  <2>1. UserOf(b) = [user |-> user, pass |-> pass]
    BY DEF UserOf, user, pass, e, p
  <2> QED
    BY <1>4, <1>5, <2>1
<1>7. CASE e <= Len(l)
  <2>1. p \in (e + 1)..(Len(l) + 1) /\ e \in 1..Len(l)
    BY <1>1, <1>7, PassStops DEF e, p
  <2>2. \A k \in 1..(e - 1) : user[k] = l[k]
    BY <1>0, <1>4, <2>1
  <2>3. \A k \in 1..(p - 1 - e) : pass[k] = l[e + k]
    <3>1. \A k \in 1..(p - 1 - e) : e + k \in 1..Len(l)
      BY <1>0, <2>1
    <3> QED
      BY <1>0, <1>5, <3>1
  <2>4. IsPrefix(user \o <<l[e]>> \o pass, l)
    BY <1>0, <1>4, <1>5, <2>1, <2>2, <2>3, PartsOfPrefix
  <2>5. l[e] \in {Tabulator, CRet, Zero}
    <3>1. l[e] \in {Zero, CRet, EOL, Tabulator}
      BY <1>0, <1>1, <2>1 DEF StopsAt
    <3>2. ASSUME l[e] = EOL
          PROVE  FALSE
      <4>1. e = Len(l)
        BY <1>0, <2>1, <3>2 DEF EndsOnce
      <4> QED
        BY <1>0, <1>2, <2>1, <4>1
    <3> QED
      BY <3>1, <3>2
  <2>6. ~Unseparated(l)
    BY <1>0, <2>1, <2>5 DEF Unseparated, Free
  <2> QED
    BY <1>6, <2>4, <2>5, <2>6 DEF FromLine
<1>8. CASE e = Len(l) + 1
  <2>1. \A k \in 1..Len(l) : user[k] = l[k] /\ l[k] \notin {Zero, CRet, EOL, Tabulator}
    BY <1>0, <1>1, <1>4, <1>8 DEF StopsAt
  <2>2. user = l
    BY <1>0, <1>4, <1>8, <2>1, SeqEqual
  <2>3. l[Len(l)] # EOL /\ Unseparated(l)
    BY <1>0, <2>1 DEF Unseparated, Free
  <2> QED
    BY <1>6, <2>2, <2>3 DEF FromLine
<1> QED
  BY <1>0, <1>1, <1>7, <1>8
(* A line in the right format is read as the one user it stands for.       *)
LEMMA GoodLineRead ==
  ASSUME NEW b, NEW l, HoldsLine(b, l), NEW u \in LineUsers(l)
  PROVE  IsUser(b) /\ UserOf(b) = u
<1>0. /\ b \in Seq(FileChar) /\ l \in Seq(FileChar)
      /\ Len(b) \in Nat /\ Len(l) \in Nat /\ Len(l) >= 1 /\ Len(l) + 1 <= Len(b)
      /\ \A k \in 1..Len(l) : b[k] = l[k]
      /\ b[Len(l) + 1] = Zero
      /\ Tabulator \in FileChar /\ CRet \in FileChar /\ EOL \in FileChar
  BY CharAssumption DEF HoldsLine
<1>1. PICK i \in 1..Len(l), j \in 1..Len(l) :
        /\ u = [user |-> SubSeq(l, 1, i - 1), pass |-> SubSeq(l, i + 1, j)]
        /\ u.user # <<>> /\ Free(u.user, {Tabulator, Zero, CRet, EOL})
        /\ u.pass # <<>> /\ Free(u.pass, {Zero, CRet, EOL})
        /\ \E end \in Ends : l = u.user \o <<Tabulator>> \o u.pass \o end
  <2>1. PICK i \in DOMAIN l, j \in DOMAIN l :
          u = [user |-> SubSeq(l, 1, i - 1), pass |-> SubSeq(l, i + 1, j)]
    BY DEF LineUsers
  <2>2. SpelledBy(l, u)
    BY DEF LineUsers
  <2>3. i \in 1..Len(l) /\ j \in 1..Len(l)
    BY <1>0
  <2> QED
    BY <2>1, <2>2, <2>3 DEF SpelledBy
<1>2. PICK end \in Ends : l = u.user \o <<Tabulator>> \o u.pass \o end
  BY <1>1
<1> DEFINE user == SubSeq(l, 1, i - 1)
           pass == SubSeq(l, i + 1, j)
<1>3. u.user = user /\ u.pass = pass
  BY <1>1
<1>4. /\ user \in Seq(FileChar) /\ Len(user) = i - 1
      /\ \A k \in 1..(i - 1) : user[k] = l[k]
  BY <1>0, Part
<1>5. i + 1 <= j
  <2> SUFFICES ASSUME ~(i + 1 <= j)
               PROVE  FALSE
    OBVIOUS
  <2>1. pass = <<>>
    BY <1>0
  <2> QED
    BY <1>1, <1>3, <2>1
<1>6. /\ pass \in Seq(FileChar) /\ Len(pass) = j - i
      /\ \A k \in 1..(j - i) : pass[k] = l[i + k]
  <2>1. i + 1 \in 1..(Len(l) + 1) /\ j \in 0..Len(l) /\ i + 1 <= j + 1
    BY <1>0, <1>5
  <2>2. /\ pass \in Seq(FileChar) /\ Len(pass) = j - (i + 1) + 1
        /\ \A k \in 1..(j - (i + 1) + 1) : pass[k] = l[(i + 1) + k - 1]
    BY <1>0, <2>1, Part
  <2> HIDE DEF pass
  <2>3. j - (i + 1) + 1 = j - i
    BY <1>0
  <2>4. ASSUME NEW k \in 1..(j - i)
        PROVE  pass[k] = l[i + k]
    <3>1. (i + 1) + k - 1 = i + k
      BY <1>0
    <3> QED
      BY <2>2, <2>3, <3>1
  <2> QED
    BY <2>2, <2>3, <2>4
<1> HIDE DEF user, pass
<1>7. /\ end \in Seq(FileChar) /\ Len(end) \in Nat
      /\ end # <<>> => Len(end) >= 1 /\ end[1] \in {EOL, CRet}
  <2>1. CASE end = <<>>
    BY <2>1
  <2>2. CASE end = <<EOL>>
    BY <1>0, <2>2
  <2>3. CASE end = <<CRet, EOL>>
    BY <1>0, <2>3
  <2> QED
    BY <2>1, <2>2, <2>3 DEF Ends
<1>8. /\ l[i] = Tabulator
      /\ Len(l) = j + Len(end)
      /\ \A k \in 1..Len(end) : l[j + k] = end[k]
  <2> DEFINE q == user \o <<Tabulator>>
             r == q \o pass
  <2>1. <<Tabulator>> \in Seq(FileChar) /\ Len(<<Tabulator>>) = 1 /\ <<Tabulator>>[1] = Tabulator
    BY <1>0
  <2>2. q \in Seq(FileChar) /\ Len(q) = i /\ q[i] = Tabulator
    <3>1. /\ q \in Seq(FileChar) /\ Len(q) = Len(user) + 1
          /\ \A k \in 1..1 : q[Len(user) + k] = <<Tabulator>>[k]
      BY <1>4, <2>1, Joined
    <3>2. Len(user) + 1 = i /\ 1 \in 1..1
      BY <1>4
    <3> QED
      BY <2>1, <3>1, <3>2
  <2> HIDE DEF q
  <2>3. r \in Seq(FileChar) /\ Len(r) = j /\ r[i] = Tabulator
    <3>1. /\ r \in Seq(FileChar) /\ Len(r) = Len(q) + Len(pass)
          /\ \A k \in 1..Len(q) : r[k] = q[k]
      BY <1>6, <2>2, Joined
    <3>2. Len(q) + Len(pass) = j /\ i \in 1..Len(q)
      BY <1>6, <2>2
    <3> QED
      BY <2>2, <3>1, <3>2
  <2> HIDE DEF r
  <2>4. l = r \o end
    BY <1>2, <1>3 DEF q, r
  <2>5. i \in 1..Len(r)
    BY <1>5, <2>3
  <2>6. /\ Len(r \o end) = Len(r) + Len(end)
        /\ \A k \in 1..Len(r) : (r \o end)[k] = r[k]
        /\ \A k \in 1..Len(end) : (r \o end)[Len(r) + k] = end[k]
    <3>1. r \in Seq(FileChar) /\ end \in Seq(FileChar)
      BY <1>7, <2>3
    <3> QED
      BY <3>1, Joined
  <2> QED
    BY <2>3, <2>4, <2>5, <2>6
<1>9. StopsAt(b, {Zero, CRet, EOL, Tabulator}, 1, i)
  <2>1. i \in 1..(Len(b) + 1) /\ b[i] = Tabulator
    BY <1>0, <1>8
  <2>2. ASSUME NEW k \in 1..(i - 1)
        PROVE  b[k] \notin {Zero, CRet, EOL, Tabulator}
    <3>1. k \in DOMAIN user /\ b[k] = user[k]
      BY <1>0, <1>4
    <3> QED
      BY <1>1, <1>3, <3>1 DEF Free
  <2> QED
    BY <2>1, <2>2 DEF StopsAt
<1>10. StopsAt(b, {Zero, CRet, EOL}, i + 1, j + 1)
  <2>1. j + 1 \in (i + 1)..(Len(b) + 1) /\ b[j + 1] \in {Zero, CRet, EOL}
    <3>1. CASE end = <<>>
      BY <1>0, <1>5, <1>8, <3>1
    <3>2. CASE end # <<>>
      <4>1. l[j + 1] = end[1] /\ j + 1 \in 1..Len(l)
        BY <1>0, <1>7, <1>8, <3>2
      <4> QED
        BY <1>0, <1>5, <1>7, <3>2, <4>1
    <3> QED
      BY <3>1, <3>2
  <2>2. ASSUME NEW k \in (i + 1)..((j + 1) - 1)
        PROVE  b[k] \notin {Zero, CRet, EOL}
    <3>1. /\ k - i \in 1..(j - i) /\ i + (k - i) = k /\ k \in 1..Len(l)
      BY <1>0
    <3>2. DOMAIN pass = 1..(j - i) /\ pass[k - i] = l[i + (k - i)]
      BY <1>6, <3>1
    <3>3. b[k] = l[k]
      BY <1>0, <3>1
    <3>4. k - i \in DOMAIN pass /\ b[k] = pass[k - i]
      BY <3>1, <3>2, <3>3
    <3> QED
      BY <1>1, <1>3, <3>4 DEF Free
  <2> QED
    BY <2>1, <2>2 DEF StopsAt
<1>11. NameEnd(b) = i
  BY <1>0, <1>9, UptoIs DEF NameEnd
<1>12. PassEnd(b) = j + 1
  <2>1. i + 1 \in 1..(Len(b) + 1)
    BY <1>0
  <2> QED
    BY <1>0, <1>10, <1>11, <2>1, UptoIs DEF PassEnd
<1>13. IsUser(b)
  <2>1. i > 1
    <3>1. i - 1 # 0
      BY <1>1, <1>3, <1>4, EmptySeq
    <3> QED
      BY <3>1
  <2> QED
    BY <1>0, <1>5, <1>11, <1>12, <2>1 DEF IsUser
<1>14. SubSeq(b, 1, i - 1) = user
  <2>1. /\ SubSeq(b, 1, i - 1) \in Seq(FileChar) /\ Len(SubSeq(b, 1, i - 1)) = i - 1
        /\ \A k \in 1..(i - 1) : SubSeq(b, 1, i - 1)[k] = b[k]
    BY <1>0, Part
  <2>2. \A k \in 1..(i - 1) : b[k] = user[k]
    BY <1>0, <1>4
  <2> QED
    BY <1>4, <2>1, <2>2, SeqEqual
<1>15. SubSeq(b, i + 1, j) = pass
  <2>1. i + 1 \in 1..(Len(b) + 1) /\ j \in 0..Len(b) /\ i + 1 <= j + 1
    BY <1>0, <1>5
  <2>2. /\ SubSeq(b, i + 1, j) \in Seq(FileChar) /\ Len(SubSeq(b, i + 1, j)) = j - (i + 1) + 1
        /\ \A k \in 1..(j - (i + 1) + 1) : SubSeq(b, i + 1, j)[k] = b[(i + 1) + k - 1]
    BY <1>0, <2>1, Part
  <2>3. j - (i + 1) + 1 = j - i /\ \A k \in Int : (i + 1) + k - 1 = i + k
    BY <1>0
  <2>4. \A k \in 1..(j - i) : i + k \in 1..Len(l)
    BY <1>0
  <2>5. \A k \in 1..(j - i) : SubSeq(b, i + 1, j)[k] = pass[k]
    BY <1>0, <1>6, <2>2, <2>3, <2>4
  <2> QED
    BY <1>6, <2>2, <2>3, <2>5, SeqEqual
<1>16. UserOf(b) = [user |-> user, pass |-> pass]
  <2>1. (j + 1) - 1 = j
    BY <1>0
  <2> QED
    BY <1>11, <1>12, <1>14, <1>15, <2>1 DEF UserOf
<1> QED
  BY <1>1, <1>13, <1>16 DEF user, pass
-----------------------------------------------------------------------------
(* The lines of the file and their numbers.                                *)
LEMMA LineStartsType ==
  ASSUME users_file \in Seq(FileChar)
  PROVE  /\ IsFiniteSet(LineStarts) /\ Cardinality(LineStarts) \in Nat
         /\ LineStarts \subseteq 1..Len(users_file) /\ Len(users_file) \in Nat
         /\ \A k \in LineStarts : k \in Int
<1>1. LineStarts \subseteq 1..Len(users_file) /\ Len(users_file) \in Nat
  BY DEF LineStarts
<1>2. IsFiniteSet(1..Len(users_file))
  BY <1>1, FS_Interval
<1>3. IsFiniteSet(LineStarts)
  BY <1>1, <1>2, FS_Subset
<1>4. Cardinality(LineStarts) \in Nat
  BY <1>3, FS_CardinalityType
<1>5. \A k \in LineStarts : k \in Int
  BY <1>1
<1> QED
  BY <1>1, <1>3, <1>4, <1>5

LEMMA LineCounts ==
  ASSUME users_file \in Seq(FileChar), NEW i \in Int
  PROVE  /\ IsFiniteSet({j \in LineStarts : j <= i})
         /\ LinesUpto(i) \in 0..Cardinality(LineStarts)
<1>1. {j \in LineStarts : j <= i} \in SUBSET LineStarts
  OBVIOUS
<1>2. IsFiniteSet(LineStarts) /\ Cardinality(LineStarts) \in Nat
  BY LineStartsType
<1>3. /\ IsFiniteSet({j \in LineStarts : j <= i})
      /\ Cardinality({j \in LineStarts : j <= i}) <= Cardinality(LineStarts)
  BY <1>1, <1>2, FS_Subset
<1>4. Cardinality({j \in LineStarts : j <= i}) \in Nat
  BY <1>3, FS_CardinalityType
<1> QED
  BY <1>2, <1>3, <1>4 DEF LinesUpto

LEMMA LineNumbersDiffer ==
  ASSUME users_file \in Seq(FileChar), NEW i \in LineStarts, NEW j \in LineStarts, i < j
  PROVE  LinesUpto(i) # LinesUpto(j)
<1> DEFINE A == {k \in LineStarts : k <= i}
           B == {k \in LineStarts : k <= j}
<1>1. i \in Int /\ j \in Int /\ \A k \in LineStarts : k \in Int
  BY LineStartsType
<1>2. A \in SUBSET B /\ j \in B /\ j \notin A
  <2>1. ASSUME NEW k \in LineStarts, k <= i
        PROVE  k <= j
    BY <1>1, <2>1
  <2>2. j <= j /\ ~(j <= i)
    BY <1>1
  <2> QED
    BY <2>1, <2>2
<1>3. IsFiniteSet(B)
  BY <1>1, LineCounts
<1> HIDE DEF A, B
<1>4. Cardinality(B) = Cardinality(A) => B = A
  BY <1>2, <1>3, FS_Subset
<1> QED
  BY <1>2, <1>4 DEF LinesUpto, A, B

LEMMA LineNumbered ==
  ASSUME users_file \in Seq(FileChar), NEW i \in LineStarts
  PROVE  /\ LinesUpto(i) \in 1..Cardinality(LineStarts)
         /\ FileLines[LinesUpto(i)] = LineFrom(i)
         /\ Len(FileLines) = Cardinality(LineStarts)
<1> DEFINE A == {k \in LineStarts : k <= i}
           n == Cardinality(LineStarts)
           number == LinesUpto(i)
<1>1. i \in Int /\ \A k \in LineStarts : k \in Int
  BY LineStartsType
<1>2. IsFiniteSet(A) /\ i \in A /\ n \in Nat /\ number \in 0..n
  BY <1>1, LineStartsType, LineCounts
<1>3. number = Cardinality(A)
  BY DEF LinesUpto
<1> HIDE DEF A, n, number
<1>4. number # 0
  BY <1>2, <1>3, FS_EmptySet
<1>5. number \in 1..n
  BY <1>2, <1>4
<1>6. (CHOOSE j \in LineStarts : LinesUpto(j) = number) = i
  <2> DEFINE j == CHOOSE j \in LineStarts : LinesUpto(j) = number
  <2>1. j \in LineStarts /\ LinesUpto(j) = LinesUpto(i)
    BY DEF number
  <2> HIDE DEF j
  <2>2. ~(i < j) /\ ~(j < i)
    BY <2>1, LineNumbersDiffer
  <2>3. j = i
    BY <1>1, <2>1, <2>2
  <2> QED
    BY <2>3 DEF j
<1>7. FileLines = [k \in 1..n |-> LineFrom(CHOOSE j \in LineStarts : LinesUpto(j) = k)]
  BY DEF FileLines, n
<1>8. FileLines[number] = LineFrom(i)
  BY <1>5, <1>6, <1>7
<1>9. Len(FileLines) = n
  BY <1>2, <1>7
<1> QED
  BY <1>5, <1>8, <1>9 DEF number, n

LEMMA FileLinesLength ==
  ASSUME users_file \in Seq(FileChar)
  PROVE  /\ Len(FileLines) = Cardinality(LineStarts) /\ Len(FileLines) \in Nat
         /\ LinesUpto(Len(users_file)) = Len(FileLines)
         /\ LinesUpto(0) = 0
<1>1. Cardinality(LineStarts) \in Nat /\ Len(users_file) \in Nat
  BY LineStartsType
<1>2. Len(FileLines) = Cardinality(LineStarts)
  BY <1>1 DEF FileLines
<1>3. \A j \in LineStarts : j <= Len(users_file) /\ ~(j <= 0)
  BY LineStartsType
<1>4. {j \in LineStarts : j <= Len(users_file)} = LineStarts
  BY <1>3
<1>5. {j \in LineStarts : j <= 0} = {}
  BY <1>3
<1> QED
  BY <1>1, <1>2, <1>4, <1>5, FS_EmptySet DEF LinesUpto
-----------------------------------------------------------------------------
(* The reader is between two lines, and has room for the next.             *)
BetweenLines ==
    position = 0 \/ position = Len(users_file) \/ users_file[position] = EOL

(* Every user loaded so far is that of the line with his number.           *)
LoadedRight(k) ==
    LET l == FileLines[k]
        u == user_list[k]
    IN  /\ k <= Len(FileLines)
        /\ LineUsers(l) \subseteq {u}
        /\ IF Unseparated(l) THEN k = Len(FileLines) /\ u.user = l
           ELSE \E c \in {Tabulator, CRet, Zero} : IsPrefix(u.user \o <<c>> \o u.pass, l)

(* All lines read have given a user, but the one that stopped the loop,    *)
(* which is in no right format.                                            *)
LinesCounted ==
    \/ LinesUpto(position) = Len(user_list) /\ (loading \/ position = Len(users_file))
    \/ /\ ~loading /\ Len(user_list) < Len(FileLines)
       /\ LineUsers(FileLines[Len(user_list) + 1]) = {}

ParserInv ==
    /\ ParserTypeOK
    /\ HasRoom(Len(buf), users_file)
    /\ loading => BetweenLines
    /\ LinesCounted
    /\ \A k \in 1..Len(user_list) : LoadedRight(k)

(* Where the line that getline reads next begins and ends.                 *)
LEMMA NextLineEnds ==
  ASSUME ParserTypeOK, BetweenLines, position < Len(users_file)
  PROVE  LET i == position + 1
             n == position + Len(NextLine)
         IN  /\ i \in LineStarts /\ n \in i..Len(users_file)
             /\ NextLine = LineFrom(i) /\ NextLine \in Seq(FileChar)
             /\ Len(NextLine) \in Nat /\ Len(NextLine) >= 1
             /\ users_file[n] = EOL \/ n = Len(users_file)
             /\ \A k \in i..(n - 1) : users_file[k] # EOL
             /\ \A k \in 1..Len(NextLine) : NextLine[k] = users_file[position + k]
<1> DEFINE i == position + 1
           m == Upto(users_file, {EOL}, i)
           n == IF m <= Len(users_file) THEN m ELSE m - 1
           ends == {j \in i..Len(users_file) : users_file[j] = EOL} \union {Len(users_file)}
<1>1. /\ users_file \in Seq(FileChar) /\ Len(users_file) \in Nat /\ position \in Nat
      /\ i \in 1..Len(users_file)
  BY DEF ParserTypeOK
<1>2. i \in LineStarts
  <2>1. i = 1 \/ users_file[i - 1] = EOL
    <3>1. (position + 1) - 1 = position
      BY <1>1
    <3> QED
      BY <1>1, <3>1 DEF BetweenLines
  <2>2. i \in DOMAIN users_file
    BY <1>1
  <2> QED
    BY <2>1, <2>2 DEF LineStarts
<1>3. StopsAt(users_file, {EOL}, i, m)
  BY <1>1, UptoStops
<1> HIDE DEF m
<1>4. /\ n \in i..Len(users_file)
      /\ users_file[n] = EOL \/ n = Len(users_file)
      /\ \A k \in i..(n - 1) : users_file[k] # EOL
  BY <1>1, <1>3 DEF StopsAt
<1>5. NextLine = SubSeq(users_file, i, n)
  BY DEF NextLine, m
<1> HIDE DEF n
<1>6. Min(ends) = n
  <2>1. ends \subseteq Nat /\ ends # {}
    BY <1>1
  <2>2. Min(ends) \in ends /\ \A y \in ends : Min(ends) <= y
    BY <2>1, MinIsLeast
  <2>3. n \in ends
    BY <1>4
  <2>4. \A y \in ends : ~(y < n)
    BY <1>1, <1>4
  <2> HIDE DEF ends
  <2>5. Min(ends) \in Nat /\ n \in Nat /\ Min(ends) <= n /\ ~(Min(ends) < n)
    BY <2>1, <2>2, <2>3, <2>4
  <2> QED
    BY <2>5
<1>7. NextLine = LineFrom(i)
  BY <1>5, <1>6 DEF LineFrom
<1>8. /\ NextLine \in Seq(FileChar) /\ Len(NextLine) = n - i + 1
      /\ \A k \in 1..(n - i + 1) : NextLine[k] = users_file[i + k - 1]
  <2>1. i \in 1..(Len(users_file) + 1) /\ n \in 0..Len(users_file) /\ i <= n + 1
    BY <1>1, <1>4
  <2> QED
    BY <1>1, <1>5, <2>1, Part
<1>9. /\ Len(NextLine) \in Nat /\ Len(NextLine) >= 1
      /\ position + Len(NextLine) = n
  BY <1>1, <1>4, <1>8
<1>10. ASSUME NEW k \in 1..Len(NextLine)
       PROVE  NextLine[k] = users_file[position + k]
  <2>1. i + k - 1 = position + k
    BY <1>1, <1>9
  <2> QED
    BY <1>8, <2>1
<1> QED
  BY <1>2, <1>4, <1>7, <1>8, <1>9, <1>10

(* Reading a line counts one more.                                         *)
LEMMA OneMoreLine ==
  ASSUME ParserTypeOK, BetweenLines, position < Len(users_file)
  PROVE  /\ LinesUpto(position + 1) = LinesUpto(position) + 1
         /\ LinesUpto(position + Len(NextLine)) = LinesUpto(position + 1)
<1> DEFINE i == position + 1
           n == position + Len(NextLine)
           A == {j \in LineStarts : j <= position}
           B == {j \in LineStarts : j <= i}
           C == {j \in LineStarts : j <= n}
<1>1. /\ users_file \in Seq(FileChar) /\ Len(users_file) \in Nat /\ position \in Nat
  BY DEF ParserTypeOK
<1>2. /\ i \in LineStarts /\ n \in i..Len(users_file)
      /\ \A k \in i..(n - 1) : users_file[k] # EOL
  BY NextLineEnds
<1>3. \A k \in LineStarts : k \in Int
  BY <1>1, LineStartsType
<1>4. IsFiniteSet(A)
  BY <1>1, LineCounts
<1>5. B = A \union {i} /\ i \notin A
  BY <1>1, <1>2, <1>3
<1>6. C = B
  <2>1. ASSUME NEW j \in LineStarts, j <= n
        PROVE  j <= i
    <3>1. CASE j = 1
      BY <1>1, <3>1
    <3>2. CASE users_file[j - 1] = EOL
      <4>1. j - 1 \notin i..(n - 1)
        BY <1>2, <3>2
      <4> QED
        BY <1>1, <1>2, <1>3, <2>1, <4>1
    <3> QED
      BY <3>1, <3>2 DEF LineStarts
  <2>2. ASSUME NEW j \in LineStarts, j <= i
        PROVE  j <= n
    BY <1>1, <1>2, <1>3, <2>2
  <2> QED
    BY <2>1, <2>2
<1> HIDE DEF A, B, C
<1>7. Cardinality(B) = Cardinality(A) + 1
  BY <1>4, <1>5, FS_AddElement
<1> QED
  BY <1>6, <1>7 DEF LinesUpto, A, B, C

(* The buffer holds the line that getline has read.                        *)
LEMMA LineInBuffer ==
  ASSUME ParserTypeOK, BetweenLines, position < Len(users_file),
         HasRoom(Len(buf), users_file)
  PROVE  /\ HoldsLine(Getline(NextLine), NextLine) /\ EndsOnce(NextLine)
         /\ Len(Getline(NextLine)) = Len(buf)
<1> DEFINE l == NextLine
           b == Getline(l)
           i == position + 1
           n == position + Len(l)
<1>1. /\ users_file \in Seq(FileChar) /\ Len(users_file) \in Nat /\ position \in Nat
      /\ buf \in Seq(FileChar) /\ Len(buf) \in Nat
  BY DEF ParserTypeOK
<1>2. /\ i \in 1..Len(users_file) /\ n \in i..Len(users_file)
      /\ l \in Seq(FileChar) /\ Len(l) \in Nat /\ Len(l) >= 1
      /\ \A k \in i..(n - 1) : users_file[k] # EOL
      /\ \A k \in 1..Len(l) : l[k] = users_file[position + k]
  BY <1>1, NextLineEnds, LineStartsType
<1>3. Len(l) < Len(buf)
  <2>1. i \in DOMAIN users_file /\ n \in DOMAIN users_file /\ i <= n
    BY <1>1, <1>2
  <2>2. n - i + 1 < Len(buf)
    BY <1>2, <2>1 DEF HasRoom
  <2> QED
    BY <1>1, <1>2, <2>2
<1>4. EndsOnce(l)
  <2> SUFFICES ASSUME NEW k \in 1..(Len(l) - 1)
               PROVE  l[k] # EOL
    BY DEF EndsOnce
  <2>1. position + k \in i..(n - 1) /\ k \in 1..Len(l)
    BY <1>1, <1>2
  <2> QED
    BY <1>2, <2>1
<1> HIDE DEF l
<1>5. b = [k \in 1..Len(buf) |->
             IF k <= Len(l) THEN l[k] ELSE IF k = Len(l) + 1 THEN Zero ELSE buf[k]]
  BY <1>1 DEF Getline
<1>6. \A k \in 1..Len(buf) : b[k] \in FileChar
  <2>1. \A k \in 1..Len(buf) : k <= Len(l) => k \in 1..Len(l)
    BY <1>1, <1>2
  <2>2. \A k \in 1..Len(l) : l[k] \in FileChar
    BY <1>2, ElementOfSeq
  <2>3. \A k \in 1..Len(buf) : buf[k] \in FileChar
    BY <1>1, ElementOfSeq
  <2> QED
    BY <1>5, <2>1, <2>2, <2>3, CharAssumption
<1>7. b \in Seq(FileChar) /\ Len(b) = Len(buf)
  BY <1>1, <1>5, <1>6
<1>8. (\A k \in 1..Len(l) : b[k] = l[k]) /\ b[Len(l) + 1] = Zero
  BY <1>1, <1>2, <1>3, <1>5
<1> HIDE DEF b
<1>9. HoldsLine(b, l)
  BY <1>1, <1>2, <1>3, <1>7, <1>8 DEF HoldsLine
<1> QED
  BY <1>4, <1>7, <1>9 DEF b, l
-----------------------------------------------------------------------------
(* ParserInv is inductive.                                                 *)
LEMMA ParserInitInv == ParserInit => ParserInv
<1> SUFFICES ASSUME ParserInit
             PROVE  ParserInv
  OBVIOUS
<1>1. /\ users_file \in UsersFiles /\ position = 0 /\ buf \in FreshBuffers
      /\ user_list = <<>> /\ loading = TRUE
  BY DEF ParserInit
<1>2. /\ users_file \in Seq(FileChar) /\ buf \in Seq(FileChar)
      /\ HasRoom(Len(buf), users_file)
  BY <1>1, FileAssumption, BufferAssumption
<1>3. ParserTypeOK
  <2>1. 0 \in 0..Len(users_file)
    BY <1>2
  <2>2. <<>> \in Seq([user : Seq(FileChar), pass : Seq(FileChar)])
    OBVIOUS
  <2> QED
    BY <1>1, <1>2, <2>1, <2>2 DEF ParserTypeOK
<1>4. Len(user_list) = 0 /\ LinesUpto(position) = 0
  BY <1>1, <1>2, FileLinesLength
<1> QED
  BY <1>1, <1>2, <1>3, <1>4 DEF ParserInv, BetweenLines, LinesCounted

LEMMA EndOfFileInv ==
  ASSUME ParserInv, EndOfFile
  PROVE  ParserInv'
<1>1. /\ UNCHANGED <<users_file, position, buf, user_list>>
      /\ loading /\ ~loading' /\ loading' \in BOOLEAN /\ position = Len(users_file)
  BY DEF EndOfFile
<1>2. ParserTypeOK'
  BY <1>1 DEF ParserInv, ParserTypeOK
<1>3. UNCHANGED <<LinesUpto(position), FileLines>>
  BY <1>1 DEF LinesUpto, LineStarts, FileLines, LineFrom
<1>4. LinesCounted'
  <2>1. LinesUpto(position) = Len(user_list)
    BY <1>1 DEF ParserInv, LinesCounted
  <2> QED
    BY <1>1, <1>3, <2>1 DEF LinesCounted
<1>5. (\A k \in 1..Len(user_list) : LoadedRight(k))'
  BY <1>1, <1>3 DEF ParserInv, LoadedRight
<1>6. HasRoom(Len(buf), users_file)'
  BY <1>1 DEF ParserInv
<1> QED
  BY <1>1, <1>2, <1>4, <1>5, <1>6 DEF ParserInv

LEMMA ReadUserInv ==
  ASSUME ParserInv, ReadUser
  PROVE  ParserInv'
<1> DEFINE l == NextLine
           i == position + 1
           k == LinesUpto(i)
           User == [user : Seq(FileChar), pass : Seq(FileChar)]
<1>1. /\ ParserTypeOK /\ BetweenLines /\ position < Len(users_file) /\ loading
      /\ HasRoom(Len(buf), users_file)
      /\ buf' = Getline(l) /\ position' = position + Len(l) /\ users_file' = users_file
      /\ \A h \in 1..Len(user_list) : LoadedRight(h)
  BY DEF ReadUser, ParserInv
<1>2. /\ i \in LineStarts /\ position' \in i..Len(users_file)
      /\ l = LineFrom(i)
      /\ users_file[position'] = EOL \/ position' = Len(users_file)
      /\ \A h \in 1..Len(l) : l[h] = users_file[position + h]
      /\ Len(l) \in Nat /\ Len(l) >= 1
  BY <1>1, NextLineEnds
<1>3. /\ users_file \in Seq(FileChar) /\ Len(users_file) \in Nat /\ position \in Nat
      /\ user_list \in Seq(User) /\ Len(user_list) \in Nat
  BY <1>1 DEF ParserTypeOK
<1>4. HoldsLine(buf', l) /\ EndsOnce(l) /\ Len(buf') = Len(buf)
  BY <1>1, LineInBuffer
<1>5. k = Len(user_list) + 1 /\ LinesUpto(position + Len(l)) = k
  <2>1. LinesUpto(position) = Len(user_list)
    BY <1>1 DEF ParserInv, LinesCounted
  <2> QED
    BY <1>1, <2>1, OneMoreLine
<1>6. /\ k \in 1..Len(FileLines) /\ FileLines[k] = l /\ Len(FileLines) \in Nat
  BY <1>2, <1>3, LineNumbered, FileLinesLength
<1>7. /\ FileLines' = FileLines
      /\ LinesUpto(position)' = k
  <2>1. LinesUpto(position)' = LinesUpto(position')
    BY <1>1 DEF LinesUpto, LineStarts
  <2> QED
    BY <1>1, <1>5, <2>1 DEF FileLines, LineStarts, LinesUpto, LineFrom
<1>8. /\ users_file' \in Seq(FileChar) /\ position' \in 0..Len(users_file')
      /\ buf' \in Seq(FileChar)
      /\ HasRoom(Len(buf'), users_file') /\ BetweenLines'
  <2>1. buf' \in Seq(FileChar)
    BY <1>4 DEF HoldsLine
  <2>2. position' \in 0..Len(users_file)
    BY <1>2, <1>3
  <2> QED
    BY <1>1, <1>2, <1>3, <1>4, <2>1, <2>2 DEF BetweenLines
<1>9. \A u \in LineUsers(l) : IsUser(buf') /\ UserOf(buf') = u
  BY <1>4, GoodLineRead
<1> HIDE DEF l, i, k, User
<1>10. CASE IsUser(buf')
  <2> DEFINE u == UserOf(buf')
  <2>1. user_list' = Append(user_list, u) /\ loading' = loading
    BY <1>10 DEF ReadUser
  <2>2. u \in User /\ FromLine(u, l)
    BY <1>4, <1>10, UserReadFromLine DEF User
  <2>3. LineUsers(l) \subseteq {u}
    BY <1>9
  <2> HIDE DEF u
  <2>4. /\ user_list' \in Seq(User) /\ Len(user_list') = Len(user_list) + 1
        /\ \A h \in 1..Len(user_list) : user_list'[h] = user_list[h]
        /\ user_list'[k] = u
    BY <1>3, <1>5, <2>1, <2>2, AppendProperties
  <2>5. ParserTypeOK'
    BY <1>1, <1>8, <2>1, <2>4 DEF ParserTypeOK, User
  <2>6. LinesCounted'
    BY <1>1, <1>5, <1>7, <2>1, <2>4 DEF LinesCounted
  <2>7. ASSUME NEW h \in 1..Len(user_list')
        PROVE  LoadedRight(h)'
    <3>1. CASE h \in 1..Len(user_list)
      BY <1>1, <1>7, <2>4, <3>1 DEF LoadedRight
    <3>2. CASE h = k
      <4>1. IF Unseparated(l) THEN k = Len(FileLines) /\ u.user = l
            ELSE \E c \in {Tabulator, CRet, Zero} : IsPrefix(u.user \o <<c>> \o u.pass, l)
        <5>1. CASE Unseparated(l) /\ l[Len(l)] # EOL /\ u.user = l
          <6>1. Len(l) \in 1..Len(l) /\ position' = position + Len(l)
            BY <1>1, <1>2
          <6>2. users_file[position'] # EOL
            BY <1>2, <5>1, <6>1
          <6>3. position' = Len(users_file)
            BY <1>2, <6>2
          <6>4. k = Len(FileLines)
            BY <1>1, <1>3, <1>5, <6>3, FileLinesLength
          <6> QED
            BY <5>1, <6>4
        <5> QED
          BY <2>2, <5>1 DEF FromLine
      <4> QED
        BY <1>6, <1>7, <2>3, <2>4, <3>2, <4>1 DEF LoadedRight
    <3> QED
      BY <1>3, <1>5, <2>4, <3>1, <3>2
  <2> QED
    BY <1>8, <2>5, <2>6, <2>7 DEF ParserInv
<1>11. CASE ~IsUser(buf')
  <2>1. user_list' = user_list /\ loading' = FALSE
    BY <1>11 DEF ReadUser
  <2>2. LineUsers(l) = {}
    BY <1>9, <1>11
  <2>3. ParserTypeOK'
    BY <1>1, <1>8, <2>1 DEF ParserTypeOK
  <2>4. LinesCounted'
    <3>1. Len(user_list) < Len(FileLines)
      BY <1>3, <1>5, <1>6
    <3> QED
      BY <1>5, <1>6, <1>7, <2>1, <2>2, <3>1 DEF LinesCounted
  <2>5. (\A h \in 1..Len(user_list) : LoadedRight(h))'
    BY <1>1, <1>7, <2>1 DEF LoadedRight
  <2> QED
    BY <1>8, <2>1, <2>3, <2>4, <2>5 DEF ParserInv
<1> QED
  BY <1>10, <1>11

LEMMA ParserNextInv == ParserInv /\ [ParserNext]_parserVars => ParserInv'
<1> SUFFICES ASSUME ParserInv, [ParserNext]_parserVars
             PROVE  ParserInv'
  OBVIOUS
<1>1. CASE ReadUser
  BY <1>1, ReadUserInv
<1>2. CASE EndOfFile
  BY <1>2, EndOfFileInv
<1>3. CASE UNCHANGED parserVars
  <2>1. UNCHANGED <<users_file, position, buf, user_list, loading>>
    BY <1>3 DEF parserVars
  <2>2. UNCHANGED <<LinesUpto(position), FileLines>>
    BY <2>1 DEF LinesUpto, LineStarts, FileLines, LineFrom
  <2> QED
    BY <2>1, <2>2 DEF ParserInv, ParserTypeOK, BetweenLines, LinesCounted, LoadedRight
<1> QED
  BY <1>1, <1>2, <1>3 DEF ParserNext

(* How many lines of the file are in the right format before the first     *)
(* that is not.                                                            *)
LEMMA GoodLinesCount ==
  ASSUME ParserTypeOK
  PROVE  /\ GoodLines \in 0..Len(FileLines)
         /\ \A k \in 1..GoodLines : LineUsers(FileLines[k]) # {}
         /\ GoodLines < Len(FileLines) => LineUsers(FileLines[GoodLines + 1]) = {}
<1> DEFINE N == Len(FileLines)
           bad == {k \in 1..N : LineUsers(FileLines[k]) = {}} \union {N + 1}
           n == Min(bad) - 1
<1>1. N \in Nat
  BY FileLinesLength DEF ParserTypeOK
<1>2. bad \subseteq Nat /\ bad # {}
  BY <1>1
<1>3. Min(bad) \in bad /\ \A y \in bad : Min(bad) <= y
  BY <1>2, MinIsLeast
<1>4. n \in 0..N
  BY <1>1, <1>3
<1>5. ASSUME NEW k \in 1..n
      PROVE  LineUsers(FileLines[k]) # {}
  <2>1. k \in 1..N /\ ~(Min(bad) <= k)
    BY <1>1, <1>3, <1>4
  <2> QED
    BY <1>3, <2>1
<1>6. ASSUME n < N
      PROVE  LineUsers(FileLines[n + 1]) = {}
  <2>1. n + 1 = Min(bad) /\ Min(bad) # N + 1
    BY <1>1, <1>3, <1>4, <1>6
  <2> QED
    BY <1>3, <2>1
<1> HIDE DEF n
<1>7. \E x \in 0..Len(FileLines) :
        /\ \A k \in 1..x : LineUsers(FileLines[k]) # {}
        /\ x < Len(FileLines) => LineUsers(FileLines[x + 1]) = {}
  BY <1>4, <1>5, <1>6
<1> QED
  BY <1>7 DEF GoodLines

-----------------------------------------------------------------------------
(* The variables of the parser keep their types: in particular every user  *)
(* loaded is one, whatever the file.                                       *)
THEOREM ParserTypeCorrect == ParserSpec => []ParserTypeOK
<1>1. ParserInv => ParserTypeOK
  BY DEF ParserInv
<1> QED
  BY <1>1, ParserInitInv, ParserNextInv, PTL DEF ParserSpec

(* getUsersFromFile, for every file: the users of the lines up to the      *)
(* first one in a wrong format are loaded, in order, and of a file without *)
(* such a line nobody else is.                                             *)
THEOREM UsersOfGoodLinesAreLoaded == ParserSpec => []GoodLinesAreLoaded
<1>1. ASSUME ParserInv
      PROVE  GoodLinesAreLoaded
  <2> SUFFICES ASSUME ~loading
               PROVE  /\ Len(user_list) >= GoodLines
                      /\ \A k \in 1..GoodLines : LineUsers(FileLines[k]) = {user_list[k]}
                      /\ GoodLines = Len(FileLines) => Len(user_list) = GoodLines
    BY DEF GoodLinesAreLoaded
  <2>1. /\ ParserTypeOK /\ Len(user_list) \in Nat
        /\ \A k \in 1..Len(user_list) : LineUsers(FileLines[k]) \subseteq {user_list[k]}
    <3>1. ParserTypeOK /\ \A k \in 1..Len(user_list) : LoadedRight(k)
      BY <1>1 DEF ParserInv
    <3>2. Len(user_list) \in Nat
      BY <3>1 DEF ParserTypeOK
    <3> QED
      BY <3>1, <3>2 DEF LoadedRight
  <2>2. /\ GoodLines \in 0..Len(FileLines) /\ Len(FileLines) \in Nat
        /\ \A k \in 1..GoodLines : LineUsers(FileLines[k]) # {}
    BY <2>1, GoodLinesCount, FileLinesLength DEF ParserTypeOK
  <2>3. /\ Len(user_list) >= GoodLines
        /\ GoodLines = Len(FileLines) => Len(user_list) = GoodLines
    <3>1. CASE LinesUpto(position) = Len(user_list) /\ position = Len(users_file)
      <4>1. Len(user_list) = Len(FileLines)
        BY <2>1, <3>1, FileLinesLength DEF ParserTypeOK
      <4> QED
        BY <2>2, <4>1
    <3>2. CASE /\ Len(user_list) < Len(FileLines)
               /\ LineUsers(FileLines[Len(user_list) + 1]) = {}
      <4>1. Len(user_list) + 1 \notin 1..GoodLines
        BY <2>2, <3>2
      <4> QED
        BY <2>1, <2>2, <3>2, <4>1
    <3> QED
      BY <1>1, <3>1, <3>2 DEF ParserInv, LinesCounted
  <2>4. ASSUME NEW k \in 1..GoodLines
        PROVE  LineUsers(FileLines[k]) = {user_list[k]}
    <3>1. k \in 1..Len(user_list)
      BY <2>1, <2>2, <2>3
    <3> QED
      BY <2>1, <2>2, <3>1
  <2> QED
    BY <2>3, <2>4
<1> QED
  BY <1>1, ParserInitInv, ParserNextInv, PTL DEF ParserSpec

(* getUserFromLine, whatever the buffer holds behind the line: a user and  *)
(* his password are two parts of one line, for every line of every file    *)
(* but a last one with neither a tab nor an end, of which only the name is *)
(* right.                                                                  *)
THEOREM UsersAreReadFromTheirLines == ParserSpec => []UsersComeFromTheirLines
<1>1. ASSUME ParserInv
      PROVE  UsersComeFromTheirLines
  <2>1. DOMAIN user_list = 1..Len(user_list)
    BY <1>1 DEF ParserInv, ParserTypeOK
  <2> QED
    BY <1>1, <2>1 DEF UsersComeFromTheirLines, ParserInv, LoadedRight
<1> QED
  BY <1>1, ParserInitInv, ParserNextInv, PTL DEF ParserSpec
=============================================================================
