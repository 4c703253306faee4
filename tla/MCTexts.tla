------------------------------- MODULE MCTexts -------------------------------
(***************************************************************************)
(* Small instances of RequestPath and of UsersFileParser, one or the other *)
(* in a behaviour.  The bytes: 1 tab, 2 newline, 3 return, 4 space,        *)
(* 5 comma, 6 colon, 7 plus, 8 minus, 9 and 10 the digits 0 and 1, 11 and  *)
(* 12 letters, and from 13 on the words of the commands and prefixes.      *)
(***************************************************************************)
EXTENDS RequestPathProps, UsersFileParser

CONSTANTS MaxUnread,    \* bound: characters waiting when a chunk is typed
          MaxFile,      \* bound: length of a users file of any characters
          BufferSize    \* bound: more than any line has

nl == 2
sp == 4
comma == 5
colon == 6
a == 11
b == 12

MCBlank == {1, 3, sp}
MCDigit == <<9, 10>>
MCShowInbox == <<13>>
MCGetMail == <<14>>
MCDelete == <<15>>
MCCompose == <<16>>
MCQuit == <<17>>
MCUsers == <<18>>
MCChat == <<19, 18>>
MCUser == <<20, colon>>
MCPass == <<21, colon>>
MCTo == <<22, colon>>
MCSubject == <<23, colon>>
MCText == <<24, colon>>

(* Lines in the right format, nearly so, too long, or with a NUL; and      *)
(* pieces of lines.                                                        *)
MCChunks ==
    {s \o <<nl>> : s \in
      {MCUser \o <<sp, a>>, MCUser \o <<sp, sp, a, sp>>, MCUser, MCPass \o <<1, b, sp, a>>,
       MCPass \o <<b>>,
       MCShowInbox, <<sp>> \o MCShowInbox, MCShowInbox \o <<sp>>, MCShowInbox \o <<3>>,
       MCGetMail \o <<sp, 10>>, MCGetMail \o <<sp, 10, 9>>, MCGetMail \o <<sp, 10, a>>,
       MCGetMail \o <<sp, 8, 10>>, MCGetMail \o <<sp, 10, 10, 10, 10>>, MCGetMail,
       MCDelete \o <<1, sp, 9, 7>>, MCDelete \o <<sp, 7, 10>>, MCDelete \o <<sp, 8>>,
       MCQuit, MCUsers, MCUsers \o <<sp, a>>, MCChat \o MCUsers,
       MCChat \o <<sp, a, colon, sp, b>>, MCChat \o <<sp, colon, sp, b>>,
       MCChat \o <<sp, a, sp, b>>, MCChat \o <<sp, a, colon>>,
       MCChat \o <<sp, a, colon, sp, b, sp, a>>, MCChat \o <<sp, colon, colon, 1, 10>>,
       MCCompose, MCCompose \o <<sp>>,
       MCTo \o <<sp, a, comma, b>>, MCTo \o <<sp, a, comma>>, MCTo \o <<sp, comma, comma, a>>,
       MCTo \o <<sp, a, comma, sp, b, b>>,
       MCSubject \o <<sp, a>>, MCSubject \o <<sp>>, MCText \o <<sp, sp, a, sp, b>>,
       <<>>, <<sp>>, <<a, NUL, a>>, MCQuit \o <<NUL>>}}
    \union {MCQuit, <<a>>, MCTo \o <<sp, b>>,
            MCCompose \o <<nl>> \o MCTo \o <<sp, a, nl>> \o MCQuit \o <<nl>>}

(* Frames of other programs: each type, known or not, followed by up to    *)
(* three fields, whole ones and ones whose length is short, long, zero or  *)
(* negative.                                                               *)
MCFields ==
    {<<0, 1, NUL>>, <<0, 4, a, comma, b, NUL>>, <<0, 3, comma, comma, NUL>>, <<0, 2, a, a>>,
     <<0, 9, a, a, a, a, a, a, a, a, NUL>>, <<0, 10, a, a, a, a, a, a, a, a, a, NUL>>,
     <<0, 3, a>>, <<0, 0>>, <<31, 31>>, <<0>>}
MCFrames ==
    {htonl(t) \o FlattenSeq(fs) : t \in {0, 1, 2, 3, 4, 6, 7, 10, 11, 13, -1},
                                 fs \in BoundedSeq(MCFields, 3)}
    \union {<<>>, <<0>>}

(* All files of a few characters, and all of a few lines.                  *)
MCFileLines == {<<a, 1, b, nl>>, <<b, 1, a, 1, a, 3, nl>>, <<b, nl>>, <<b, 1, a>>, <<a, a>>}
MCFileChar == {NUL, 1, nl, 3, a, b}
MCUsersFiles ==
    BoundedSeq({NUL, 1, nl, 3, a}, MaxFile)
      \union {FlattenSeq(lines) : lines \in BoundedSeq(MCFileLines, 3)}
MCFreshBuffers == {[i \in 1..BufferSize |-> c] : c \in {NUL, 1, b}}

-----------------------------------------------------------------------------
ParserIdle ==
    users_file = <<>> /\ position = 0 /\ buf = <<>> /\ user_list = <<>> /\ loading = FALSE
PathIdle ==
    /\ stdin = <<>> /\ stdinEof = TRUE /\ script = <<>> /\ fields = <<>>
    /\ place = "off" /\ wire = <<>> /\ understood = Nothing

TextsInit == (PathInit /\ ParserIdle) \/ (ParserInit /\ PathIdle)

(* A chunk is typed when the client waits for more.                        *)
TypeBounded(chunk) ==
    /\ place \in Reading /\ ~LineReady(stdin, stdinEof) /\ Len(stdin) <= MaxUnread
    /\ TypeChunk(chunk)

(* The program has ended, the frame or the file has been read.             *)
TextsTerminated ==
    /\ ~loading
    /\ place = "off" \/ (place = "foreign" /\ understood # Nothing)
    /\ UNCHANGED <<textVars, parserVars>>

TextsNext ==
    \/ /\ \/ \E chunk \in Chunks : TypeBounded(chunk)
          \/ CloseStdin
          \/ ProgramStep
       /\ UNCHANGED parserVars
    \/ ParserNext /\ UNCHANGED textVars
    \/ TextsTerminated

TextsSpec == TextsInit /\ [][TextsNext]_<<textVars, parserVars>>
=============================================================================
