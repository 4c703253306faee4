--------------------------- MODULE UsersFileParser ---------------------------
(***************************************************************************)
(* getUsersFromFile and getUserFromLine of Server.cpp: the file of users   *)
(* is read line by line with getline, which keeps one buffer for all lines *)
(* and leaves in it, behind the NUL of a line, what was there before.  A   *)
(* line without a user ends the reading.                                   *)
(***************************************************************************)
EXTENDS Integers, SequencesExt, FiniteSetsExt

CONSTANTS FileChar,       \* what a character of the file can be
          EOL, CRet, Tabulator, Zero,   \* the characters that matter
          UsersFiles,     \* the files that may be given to the server
          FreshBuffers    \* what newly allocated memory may hold

ASSUME CharAssumption ==
    {EOL, CRet, Tabulator, Zero} \subseteq FileChar
ASSUME FileAssumption == UsersFiles \subseteq Seq(FileChar)

(* The buffer has room for every line and its NUL: what getline makes sure *)
(* of.                                                                     *)
HasRoom(size, f) ==
    \A i, j \in DOMAIN f :
      i <= j /\ (\A k \in i..(j - 1) : f[k] # EOL) => j - i + 1 < size
ASSUME BufferAssumption ==
    /\ FreshBuffers \subseteq Seq(FileChar)
    /\ \A b \in FreshBuffers, f \in UsersFiles : HasRoom(Len(b), f)

VARIABLES
    users_file, \* the file
    position,   \* how many of its characters have been read
    buf,        \* the buffer of getline, all that is allocated
    user_list,  \* the users loaded so far
    loading     \* the loop still runs

parserVars == <<users_file, position, buf, user_list, loading>>

(* The first position from i on with one of the characters of S; else the  *)
(* one after the last.                                                     *)
Upto(s, S, i) ==
    CHOOSE j \in i..(Len(s) + 1) :
      /\ \A k \in i..(j - 1) : s[k] \notin S
      /\ j <= Len(s) => s[j] \in S

(* getline: the line with its end, a NUL, and what the buffer held behind. *)
(* (The faulty variant counts the NUL.)                                    *)
NextLineNul_Bug ==
    LET n == Upto(users_file, {EOL}, position + 1)
    IN  Append(SubSeq(users_file, position + 1, IF n <= Len(users_file) THEN n ELSE n - 1), Zero)
NextLine ==
    LET n == Upto(users_file, {EOL}, position + 1)
    IN  SubSeq(users_file, position + 1, IF n <= Len(users_file) THEN n ELSE n - 1)
Getline(line) ==
    [i \in DOMAIN buf |->
       IF i <= Len(line) THEN line[i] ELSE IF i = Len(line) + 1 THEN Zero ELSE buf[i]]

(* getUserFromLine on the whole buffer: one character, whichever it is,    *)
(* separates the user from the password.  (One faulty variant reads over   *)
(* the end of the line's string, the other stops at a tab in the password.)*)
NameEndNoZero_Bug(b) == Upto(b, {CRet, EOL, Tabulator}, 1)
NameEnd(b) == Upto(b, {Zero, CRet, EOL, Tabulator}, 1)
PassEndTab_Bug(b) == Upto(b, {Zero, CRet, EOL, Tabulator}, NameEnd(b) + 1)
PassEnd(b) == Upto(b, {Zero, CRet, EOL}, NameEnd(b) + 1)
IsUser(b) == NameEnd(b) > 1 /\ NameEnd(b) < Len(b) /\ PassEnd(b) > NameEnd(b) + 1
UserOf(b) ==
    [user |-> SubSeq(b, 1, NameEnd(b) - 1), pass |-> SubSeq(b, NameEnd(b) + 1, PassEnd(b) - 1)]

ParserInit ==
    /\ users_file \in UsersFiles /\ position = 0 /\ buf \in FreshBuffers
    /\ user_list = <<>> /\ loading = TRUE

ReadUser ==
    /\ loading /\ position < Len(users_file)
    /\ buf' = Getline(NextLine)
    /\ position' = position + Len(NextLine)
    /\ IF IsUser(buf')
       THEN user_list' = Append(user_list, UserOf(buf')) /\ UNCHANGED loading
       ELSE loading' = FALSE /\ UNCHANGED user_list
    /\ UNCHANGED users_file

EndOfFile ==
    /\ loading /\ position = Len(users_file)
    /\ loading' = FALSE
    /\ UNCHANGED <<users_file, position, buf, user_list>>

ParserNext == ReadUser \/ EndOfFile

ParserSpec == ParserInit /\ [][ParserNext]_parserVars

-----------------------------------------------------------------------------
(* The file is read up to its end and no further; what is loaded consists  *)
(* of its characters.                                                      *)
ParserTypeOK ==
    /\ users_file \in Seq(FileChar) /\ position \in 0..Len(users_file)
    /\ buf \in Seq(FileChar) /\ loading \in BOOLEAN
    /\ user_list \in Seq([user : Seq(FileChar), pass : Seq(FileChar)])

(* The lines of the file, each with its end if it has one.                 *)
LineStarts == {i \in DOMAIN users_file : i = 1 \/ users_file[i - 1] = EOL}
LinesUpto(i) == Cardinality({j \in LineStarts : j <= i})
LineFrom(i) ==
    SubSeq(users_file, i,
           Min({j \in i..Len(users_file) : users_file[j] = EOL} \union {Len(users_file)}))
FileLines ==
    [k \in 1..Cardinality(LineStarts) |->
       LineFrom(CHOOSE i \in LineStarts : LinesUpto(i) = k)]

(* The users a line in the right format stands for, one or none: name, tab *)
(* and password, then the line's end, of either kind or missing.           *)
Ends == {<<>>, <<EOL>>, <<CRet, EOL>>}
Free(s, S) == \A i \in DOMAIN s : s[i] \notin S
SpelledBy(l, u) ==
    /\ u.user # <<>> /\ Free(u.user, {Tabulator, Zero, CRet, EOL})
    /\ u.pass # <<>> /\ Free(u.pass, {Zero, CRet, EOL})
    /\ \E end \in Ends : l = u.user \o <<Tabulator>> \o u.pass \o end
LineUsers(l) ==
    {u \in {[user |-> SubSeq(l, 1, i - 1), pass |-> SubSeq(l, i + 1, j)] :
              i \in DOMAIN l, j \in DOMAIN l} : SpelledBy(l, u)}

(* How many lines there are before the first in another format.            *)
GoodLines ==
    CHOOSE n \in 0..Len(FileLines) :
      /\ \A k \in 1..n : LineUsers(FileLines[k]) # {}
      /\ n < Len(FileLines) => LineUsers(FileLines[n + 1]) = {}

(* getUsersFromFile: the users of all lines up to the first one in a wrong *)
(* format are loaded, in order, and of a file without such a line nobody   *)
(* else is.                                                                *)
GoodLinesAreLoaded ==
    ~loading =>
      /\ Len(user_list) >= GoodLines
      /\ \A k \in 1..GoodLines : LineUsers(FileLines[k]) = {user_list[k]}
      /\ GoodLines = Len(FileLines) => Len(user_list) = GoodLines

(* Nothing in the line ends the name.                                      *)
Unseparated(l) == Free(l, {Tabulator, Zero, CRet, EOL})

(* getUserFromLine: a user and his password are two parts of one line with *)
(* one character between them, although the buffer still holds earlier     *)
(* lines.  Nothing is said of the password when the line has neither a tab *)
(* nor an end: only the last line of a file can be like that; it is all    *)
(* name, and the password is what the buffer holds behind it.              *)
UsersComeFromTheirLines ==
    \A k \in DOMAIN user_list :
      LET l == FileLines[k]
          u == user_list[k]
      IN  IF Unseparated(l) THEN k = Len(FileLines) /\ u.user = l
          ELSE \E c \in {Tabulator, CRet, Zero} : IsPrefix(u.user \o <<c>> \o u.pass, l)
=============================================================================
