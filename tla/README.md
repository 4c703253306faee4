# Verification of the mail and chat server

TLA+ models of the programs `mail_server` and `mail_client`, the TLC runs that
check them on small instances, and proofs checked by TLAPS. The reference is
the source; every definition names, in `PROJECT.json` under `map`, the lines it
stands for.

## 1. The system

A server process and any number of client processes over TCP. The server is one
thread: `Server::start` fills an `FDSet` with the listener and every session,
blocks in `select`, accepts at most one connection, and walks the session list
once, handling one message of every session that `select` reported. All reads
and writes block. Nothing is stored on disk; mail lives as long as the process.

| Part | Source | State | Operations |
|---|---|---|---|
| Server loop | `Server.cpp` `start`, ctor, dtor; `mainServer.cpp`; `FDSet.cpp` | `m_state`, `m_sessions`, the fd set, the iterator | listen, select, accept, scan, erase, destroy |
| Request handlers | `Server.cpp` `session*`, `getMessageAndType` | none of their own | login, show inbox, get, delete, compose, quit, online users, chat |
| Session | `ServerSessionSocket.cpp` | `m_state`, `m_inbox`, `m_socketfd` | `setInbox`, `close`, `sendGeneralRespond` |
| Inbox, MailObj, User | `Inbox.cpp`, `MailObj.cpp`, `User.cpp` | `m_mails`, `m_idOfLastMail`, `m_loggedIn`, `m_session` | `addMail`, `removeMail`, `getMailByID`, `setShowInboxMails` |
| Socket | `Socket.cpp` | `m_socketfd` | `sendMessage`, `recvMessage`, `accept`, `connect`, `close` |
| Packet | `Packet.cpp` | buffer and cursor | read and write a number or a string |
| Users file | `Server.cpp` `getUsersFromFile`, `getUserFromLine` | – | parse the file into users |
| Client | `Client.cpp`, `mainClient.cpp` | the socket, where the program is | connect, welcome, login, the select loop, one method per command |
| Line input | `Common.cpp` | the buffer of stdio | `cmnRecvLineFromUser` |

How they interact: client and server exchange framed messages; sessions and
inboxes inside the server point at each other with raw pointers; a chat makes
one session's handler write to another session's socket; the client waits
either in `select` (server or stdin) or in `recv` for the answer to its command.

What is hard:

- pointers between two object graphs, one of which (the sessions) shrinks while
  it is iterated over and while a handler is between two sends;
- clients that connect, vanish, stop reading or send without waiting at any
  point of the server's round, and descriptors that are reused;
- the answer to a command, chats of other users and late failures share one
  stream that the client reads by position;
- blocking calls: the single thread must not read where nothing is waiting, and
  a message is bytes that arrive in any portions;
- lengths, limits and conversions on the way from typed characters to the
  handler of a request;
- progress of every client although the thread serves them in list order.

`PROJECT.json` lists each hazard at its line with the properties that cover it.

## 2. Modules

| Module | Contents |
|---|---|
| `MailService` | the abstract service: who is signed in, the mails of every account as a set, and the answer to every request |
| `Protocol` | the messages: requests (also the ones that do not parse), replies, mails, statuses |
| `MailServer` | the server and, at its sockets, clients that send any requests in any order, stop inside a message, do not read, or vanish |
| `MailServerProps` | what the server promises: types, invariants, action and liveness properties |
| `MailServerService` | the refinement mapping from `MailServer` to `MailService` |
| `MailClient` | the client program and its user |
| `MailSystem` | server and client programs together, and their properties |
| `MessageQueue` | the abstract direction of a connection: a queue of whole messages |
| `SocketFraming` | the framing layer byte by byte, and its refinement of `MessageQueue` |
| `CommandTypes`, `Packet` | message types; the packet's buffer, its writes and reads |
| `ClientInput` | lines, words, numbers and the packets the client makes of them |
| `RequestPath`, `RequestPathProps` | a request from the keyboard to the server's handler; what its meaning is, defined without the code's buffers and streams |
| `UsersFileParser` | the reading of the users file |
| `MCMailServer`, `MCServices`, `MCMailSystem`, `MCSocketFraming`, `MCTexts` | instances for TLC and their bounds |
| `SeqLemmas` | facts about sequences, the parts of a sequence between places that are in order, and induction over numbers in the form the proofs use |
| `MailServerProofs`, `ServiceProofs`, `MailSystemProofs`, `FramingProofs`, `RequestProofs`, `TypedProofs`, `UsersFileProofs` | the proofs of section 4 |

The levels rest on each other. `MailServer` and `MailSystem` exchange whole
messages (`inq`, `outq`), as the queue `MessageQueue` does, which
`SocketFraming` implements with bytes. The queue may be given up over a message
TCP delivers in parts, and this has its counterpart above: `SessionFailure`
takes any message for a failed one, `RecvFails` does in the client, and in the
service it is the shortcoming `HangUp`. Of the other half of the framing, a
reader that waits inside a message, `MailServer` has `HalfFrame`: a length field
behind which the rest is missing, at which the server blocks. In `MailSystem`
the clients are `mail_client`, which writes its messages whole. This step from
queue to bytes is by reading; the other steps are checked and proved:
`MailSystem` implements `MailServer` with arbitrary clients, and `MailServer`
implements `MailService`. `RequestPath` says what the bytes of one message mean
to each side, where the other modules have a record.

Operators whose names end in `_Bug` are faulty variants of the definition that
follows them. No specification uses them; they show that a property can fail.

### MailServer

Variables carry the names of the members they model. A member of `Conn` is one
TCP connection and, once accepted, the session object that owns it; `peer`,
`backlog`, `inq` and `outq` are the kernel's side: whether the client's end is
open, who waits for `accept`, and the messages under way in each direction.
Inboxes are numbered by their place in `m_all_inbox`, which is the users file in
reverse, because `createInboxList` empties the list of users from its end;
`GetInbox` returns the first match, so of a repeated name the last line wins.

| Actions | Code |
|---|---|
| `LoadUsersFromFile`, `Start`, `MainReturns` | `main`, `loadUsersFromFile`, the head of `start` |
| `Select`, `NoNewConnection`, `Accept`, `AcceptFails` | one round of the loop up to the scan |
| `ScanSkip`, `ScanEnd` | the iterator over `m_sessions` |
| `SessionFailure` | `getMessageAndType` when `recvMessage` fails (end of file, a bad frame, a frame that came in parts), with the close, the delete and the erase that follow it |
| `SessionLogin`, `InvalidRequest`, `ShowInbox`, `GetMail`, `DeleteMail`, `Compose`, `Quit`, `ShowOnlineUsers` | one handler each, from the read of the message to the increment of the iterator |
| `ChatUnknownUser`, `ChatTooLong`, `ChatOnline`, `ChatOffline`, then `ForwardChat` or `ForwardFails` | `sessionRequestSendChatMessage`; the two sends to two clients are two steps |
| `DestroySession`, `DestroyInboxes`, `ProcessExit` | the destructor of `Server`, then the end of the process |
| `RecvUndefined` | the copy of 2^32 - 1 bytes after a failed `recv` inside a frame |
| `Connect`, `Send`, `FinishFrame`, `Receive`, `Disconnect` | a client of the protocol, any program |

A send blocks while a live client's buffer holds `SockBuf` messages; what is
sent to a client that is gone is lost, and only the forwarding of a chat looks
at the result. A handler is atomic because the thread shares nothing but the
sockets with anybody: it reads one message, and sends once or (a frame without
a type) twice to the same client. `Accept` may succeed or fail for a connection
whose client has gone, as systems differ.

A client may send `HalfFrame`, a length field and nothing behind it. The server
that comes to it blocks: no step of the server is enabled until the client
goes on (`FinishFrame` puts a message in its place), or disconnects, and the
read fails.

Constants that stand for sizes: `MaxFd` descriptors for sessions, `SockBuf`
messages of a socket buffer, `ShowInboxLimit` rows in a message of
`MAX_PACKET_LENGTH`, `OnlineLimit` names in a field of `MAX_FIELD_LENGTH`,
`LongSubject` the subjects whose row of a listing exceeds a field
(`Inbox.cpp:144-151`), `LongChat` the texts that do once the server has put its
own words in front (`Server.cpp:343-354`). Two answers to one message go out in
one step, so `SockBuf` is at least 2 where frames without a type are sent
(`RoomAssumption`). `UsersFile` is what `getUsersFromFile` returns.

### MailService and the mapping

The service has no loop, no lists, no descriptors and no pointers. An account
is a user name with the password of its last line; a client is signed in or
not; a request is answered in one step, and only a chat takes a second one.
`MailServerService` names the value of each variable of the service as a
function of the server's state: `Who` from `m_inbox` of the sessions (`NoUser`
while it is null), `Box` and `LastId` from the first inbox of a name; the queues
and the pending chat are mapped to themselves. What the service promises:

- every request gets one answer, of its kind;
- a listing has every mail once, in the order of the ids; the list of online
  users names everybody who is signed in, once;
- one copy of a mail per mention of an addressee, none for unknown names;
- a chat goes to the session of its addressee or into his box.

The code does not always do that. Where it does not, the service has a step that
says what happens instead, under the condition under which it may; these nine
steps are its shortcomings, kept apart from the promises (`Promised`,
`Shortcoming`, `LoseChat`), so that the refinement says that nothing else goes
wrong and when. It does not approve of them. What contradicts a document or a
comment is named in the last column: the property that states the document, with
the run that shows it violated (section 3).

| Shortcoming | Condition | Code | Contradicts |
|---|---|---|---|
| `HangUp` | a message is unfinished, or TCP delivered it in parts | `Socket.cpp:225, 245` | Socket.h:166-174 (`framing_split`) |
| `Crash` | the client goes inside a message | `Socket.cpp:199` | |
| `RejectTwice` | a frame without a type | `Server.cpp:558` | `AnsweredOnce` (`answered_once`) |
| `ListingFails` | a subject fills a field | `Inbox.cpp:68` | |
| `ListingUnanswered` | more mails than a listing holds | `Server.cpp:282` | `AnsweredOnce` |
| `OnlineFails` | a session is not signed in | `Server.cpp:436` | |
| `OnlineNameless` | the names exceed a field | `Server.cpp:445` | paragraph 153: the answer contains the list |
| `ChatFails` | the text exceeds a field behind the server's words | `Server.cpp:354` | |
| `LoseChat` | the addressee has gone and is still signed in | `Server.cpp:338, 369` | `ChatsAreKept` (`chat_lost`), `AnsweredOnce` |

### MailClient and MailSystem

`cpc` is the place in `Client::start`: `off` (no process), `welcome`, `login`,
`select`, `server` and `stdin` (what `select` reported), `compose` (blocked in
`fgets` for the lines of a mail), `await` (blocked for an answer), `quit`. Each
step is one of the client's steps of `MailServer` or leaves the connection
alone. `RecvFails` is a `recv` that meets the end of file or a message of which
only a part has come. Typed entries are first in the pipe (`typed`) and then in
the buffer of stdio (`buffered`); `select` sees only the pipe. `Conn` names the
connection, its process and, after it has exited, the next one.

### SocketFraming

One direction of a connection. `sent` are the messages begun, `left` the bytes
of the last one still to be written, `wire` and `arrived` the bytes under way
and at the reader. `SendMessage` is the guard of `sendMessage`, `SendSome` one
`::send` of `sendAll`, `RecvHeader` and `RecvPacket` the two `::recv` of
`recvMessage`. A byte is named by its message and its place, so the properties
can say where a byte that was read came from. `Foreign` are messages of other
programs, any that `sendMessage` never writes: a length field that is negative,
too large, or within the limits but not the length of what follows.
`SenderCloses` may happen inside a message and either flush or reset. The number
in the length field is nondeterministic whenever the four bytes read are not one
length field.

A length within the limits is accepted whatever it is (`Socket.cpp:232`), and if
it lies the reader is from then on anywhere in the stream (`Misled`). So the
properties promise nothing of what comes out after a lying message has been
accepted, and the queue ends there as if the reader had given up (`InStep`);
that a message is accepted only with a length within the limits, and that
everything before it is right, they do promise.

### RequestPath and UsersFileParser

`RequestPath` follows the characters: typed in any pieces, read by `fgets` with
its limit, cut by one character, split by `operator>>`, written into a packet,
read by the handler. A byte is a number below `Base`, words of the commands are
one or two bytes, a number has `DWordSize` of them. `RequestPathProps` gives the
meaning of a line a second time, by quantifying over how a line can be divided,
and of a frame by what would encode it.

`UsersFileParser` keeps the buffer of `getline`, which is longer than the line
and still holds earlier lines. `getline` enlarges it when a line does not fit;
the model starts with a buffer that is large enough (`BufferAssumption`) and
holds anything. A last line with neither a tab nor an end is all name, and its
password is what the buffer holds behind it (`Server.cpp:684-699`); of such a
line (`Unseparated`) `UsersComeFromTheirLines` promises the name only.

## 3. Runs

| Run | Instance | Shows |
|---|---|---|
| `sessions` | 3 connections, 2 descriptors, a name twice in the file, login, quit, messages that stop after their length field | `SessionInboxAgree`, `NoDanglingPointers`, `OneSessionPerUser`, `DescriptorsOwned`, `ReadsNeverBlock`, also through `accept` failing and the destructors |
| `services` | 2 connections, 2 users (one named twice); clients that meet chat to bob (ann, and bob to himself) and ask who is online; a client that is alone sends every kind of message, whole or begun, composes to several and deletes | `TypeOK`, `NoDanglingPointers`, `MailIdsAscend`, `MailKeptUntilDeleted`, `IdsNeverReused`, `SpeaksInTurn`, refinement `ServiceSpec`; every handler and early return taken |
| `progress` | 2 connections, 1 user, login, chat, messages that stop after their length field, with `Fairness` and `FrameFairness` | `RequestsAreServed`, `ConnectionsAreAccepted`, `GoneUsersAreLoggedOut` |
| `system_one` | 1 client, every command, 2 entries typed ahead | `ClientTypeOK`, `ClientLoggedIn`, `ClientInLockstep`, refinement `ServerSpec` |
| `system_live` | 2 clients of 2 users, buffers of 1 message, no listing that fits, with `SystemFairness`: ann chats to bob; bob mistypes his password, lists his inbox, announces mails, closes stdin or is killed | `ClientLoggedIn`, `AnswerOnTheWay`, `CommandsComplete`, `ClientsLeaveDeadServer` |
| `framing` | 3 messages of 1 to 3 bytes, own ones and 5 foreign ones, buffers of 4 bytes, with `FramingFairness` | `FramingTypeOK`, `ReceivedIsSent`, `OwnMessagesFit`, `NoEndlessRead`, `MessagesArrive`, `SendsComplete`, refinement `QueueSpec` |
| `texts` | about 45 things to type, frames with up to 3 fields of 10 kinds for 11 types, files of up to 5 characters or 3 lines | `PathTypeOK`, `ParserTypeOK`, `UnderstoodAsTyped`, `RefusedSpellsNothing`, `FrameUnderstood`, `GoodLinesAreLoaded`, `UsersComeFromTheirLines` |

Runs that show what a document, a comment or a test says and the code does not
do (see `findings`):

| Run | Property | What happens |
|---|---|---|
| `framing_split` | `OwnMessagesAccepted` | `recv` returns with the first part of a packet, and `recvMessage` reports missing data although the rest is on its way |
| `system_chat_race` | `ResponseBeforeChat` | a client chats with itself, reads SUCCESS and sends its next command; the chat comes before the answer to that one, is taken for it, and the client exits |
| `system_stdin` | `TypedIsRead` | a second command typed at once stays in the buffer of stdio |
| `chat_lost` | `ChatsAreKept` | a chat to a user who has disconnected unnoticed goes to his session instead of his inbox |
| `answered_once` | `AnsweredOnce` | a message too short for a type gets UNVALID_MESSAGE, and then the answer of the handler |

`AnsweredOnce` has three reasons to fail, and TLC stops at the one with the
shortest way to it. Leave `NO_TYPE` out of the requests of `answered_once` and
it finds the next, the SHOW_INBOX whose listing exceeds a message and is
answered by nothing (`Server.cpp:282`); let the clients only log in and chat and
it finds the third, SUCCESS for a chat and later INTERNAL_FAILURE for the same
one, when its addressee vanishes before it is sent on (`Server.cpp:365-369`).

One more place where code and `docs/readme.docx` differ is in the models and has
no run of its own: the list of online users without its names (`OnlineNameless`;
paragraph 153 says the answer contains the list).

Paragraph numbers of `docs/readme.docx` count the paragraphs of its text from 1;
the translations from Hebrew are ours. Two of its limits are off by a little in
the code, and the models have the code's: a line is at most 1998 characters and
its newline (paragraph 233 says 2000), and a line longer than that is taken for
two, the first without its last character; the 10000 of a field include its NUL
(paragraph 232).

### Bounds, and why they are enough

- `MaxInq`, `MaxOutq`: unread messages of a connection at the moment its client
  sends. With `MaxOutq` 0, in `services`, a client has read what it was sent;
  chats and failures may still reach it with its next request on the way. The
  server takes one message of a session per round, so a queue of one shows every
  interleaving of handlers of different sessions.
- `MaxMailId`: mails ever stored. In `services` three allow two copies of one
  mail, a deletion in the middle and a further mail; chats store one there. The
  bound counts what unread requests may still store, so it never blocks a
  handler.
- `MaxTyped`: entries typed and not yet read; two are needed for the buffer of
  stdio and are used where it matters.
- Connections: two show every pairwise interaction (one handler talks to at most
  one other session); `sessions` has three, for an erase in the middle of the
  list. In `services` clients meet only before any mail has been stored, and
  then chat; those that use every kind of message come one after another, as any
  of the users. A handler that is not a chat does not touch another session.
- `SockBuf` is 1 or 2, so that full buffers happen.
- `ShowInboxLimit`, `OnlineLimit`: small where a listing is to exceed them (in
  `services` 1 mail and 1 name), large where it is not.
- `PartOf` in `system_live`: each of the two users has a part of his own, which
  keeps the run small; the parts are the ones in which a chat, an answer never
  sent and a client that does not read can meet.
- `framing`: a length field of 2 bytes can be torn, packets of up to 3 can be
  delivered in up to three portions, `Capacity` 4 is less than the longest
  message, so the longest send is cut; three messages let an error in the first
  spoil the second and the third. The lengths that lie are `MAX_PACKET_LENGTH`
  plus 1, -1, 0, one too small and one too large for what follows.
- `texts`: `Base` 32 and `DWordSize` 2 give numbers from -512 to 511, so the
  sign, the overflow of a numeral and a length of more than one digit happen;
  `MAX_FIELD_LENGTH` and `MAX_USER_INPUT_LINE` are 9, so lines are split and
  fields refused at the boundary; `MaxUnread` lets up to three characters wait
  when more are typed; `MaxFile` 5 covers every short file and the lines of
  `MCFileLines` the longer ones; `BufferSize` exceeds every line, as the buffer
  `getline` allocates does.
- Connections are symmetric; symmetry is used only in runs without liveness.

Deadlock is checked in every run. A stop is allowed only when the process has
ended and its clients have gone (`Terminated`), when both ends of a stream have
gone (`StreamOver`), or when there is nothing left to read (`TextsTerminated`).

### Fairness

`Fairness`: the server process is scheduled (weak fairness of `ServerStep` as a
whole: the loop is one sequential program), and clients read what they are sent
(weak fairness of `Receive`). Without the second a client that never reads can
stop the server, which is a property of the blocking `send`, not of the loop.

`FrameFairness`: a client that has sent a length field sends the rest, or its
connection ends. The code does not enforce this. It reads with a blocking `recv`
and no timeout, so a client of another program that stops there, or a network
that dies silently, holds the only thread, and with it every other client, for
as long as it likes. The liveness of `progress` is claimed under this assumption
only; `mail_client` meets it, since it writes a message in one go.

`SystemFairness`: both programs are scheduled; users need not type a command,
and nobody has to start or kill a client. There the clients' reads are not
assumed: they follow from the client program. One thing is assumed of the users:
who has announced a mail types the lines he is asked for, or closes stdin
(`GoesOnWithMail`). While he hesitates his client does not read; chats fill its
buffer, the next send blocks the server, and with it the commands of everybody
else. `CommandsComplete` fails without this assumption, and it fails without its
exception for a listing that exceeds a message (`Oversize`), which is never
answered (TLC finds both).

`FramingFairness`: a blocked `::send` continues when there is room or fails when
the reader has closed, TCP delivers what it has taken, and the reading program
runs. Nobody has to begin a message or to close.

## 4. Proofs

All of these hold for every value of the constants.

**The server** (`MailServerProofs`): `TypeCorrect`, `SessionsAgreeWithInboxes`,
`PointersStayLive` and `UsersAreLoggedInOnce`, that is `Spec => []P` for
`TypeOK`, `SessionInboxAgree`, `NoDanglingPointers` and `OneSessionPerUser`. The
inductive invariant `IInv` is the conjunction of the first three with four facts
they rest on. A session that is accepted must not already be in an inbox:
`BacklogWaits` says that who waits for `accept` waits once and has no session.
Inboxes appear once, before any session can point to one: `UsersLoadedOnce`. The
pending chat must not meet the destructors: `ForwardInScan`. And one session per
user does not follow from one session per inbox when names repeat:
`InboxIsFirst` says that who is logged in holds the inbox a lookup of his name
finds, so that two sessions of one user hold the same inbox. The proof has a
step per action (`StepInv`), grouped by what actions change; `SeqLemmas`
supplies what erasing from a list keeps.

**Mails** (also in `MailServerProofs`): `MailIdsAlwaysAscend`, `MailsAreKept`,
`IdsStayFresh`. `MailSteps` shows that a step does one of four things to an
inbox: nothing, adds copies at its end under the next ids, removes one mail at
the request of its own session, or empties it with the end of the program. The
order of the ids is inductive under these four; the two action properties follow
from it and from the fact that a removal takes out the mail with the id asked
for and moves the others up unchanged.

**The loop** (also in `MailServerProofs`): `SessionsOwnTheirDescriptors` and
`ReadsNeverBlockTheLoop`. Erasing one session keeps the descriptors distinct.
The set `select` reports is stale when the scan uses it; `AcceptReady` and
`ScanReady` say what survives: a reported session of the list that the iterator
has not passed is still readable, because only its own handler reads from it. A
descriptor that `accept` hands out was closed when `select` was called, so it is
not in the set, and one that is closed during the scan is not handed out again
before the next `select`. `ServerSpeaksInTurn` is an action property over every
step of the loop. What needs an invariant is the second half of a chat: between
the answer to its sender and the message to its receiver both must stay logged
in, so that neither is sent something it cannot tell from the answer of a login
(`ForwardLoggedIn`: the handler sends on at once, no other session is handled in
between, and the receiver is the session of an inbox that somebody is logged in
to).

**The service** (`ServiceProofs`): `ServerImplementsService`, that is `Spec =>
ServiceSpec`: every step of the server is, seen from outside, one the service
promises, or one of its nine shortcomings with its condition true. The initial
states are mapped by `InitMaps`; for the steps there is a lemma for each group
of actions (`...Maps`) that names the action of `MailService` it is, or shows
that nothing the service sees changes (the whole round of `select`, the
iterator, the descriptors). The mapping rests on `IInv`, `DescriptorsOwned` and
`MailIdsAscend`: that a user's inbox is the one a lookup finds makes `Box` the
box of the session, and ascending ids make the list of mails the set the service
keeps. Three facts are added (`MappingInv`): before `start` there are neither
sessions nor mails, the inboxes are all there or none, and only requests of the
clients are in the queues. With `SystemImplementsServer` it follows that the
whole system implements the service (`SystemImplementsService`).

**The framing** (`FramingProofs`): `FramingTypeCorrect`,
`PacketsSurviveTheStream`, `SentPacketsFit` and `StreamImplementsQueue`, for
messages of other programs with any length field. `FramingInv` says that the
bytes between the two ends are a piece of the stream without a gap (`InOrder`)
that ends where the sender is (`SenderAt`) and begins where the reader is
(`ReaderAt`), unless the reader is `Lost`: it has given up, or has accepted a
length that lies. So the length the reader takes is the one of its message, as
many bytes as it says are its packet if the message is the program's own, and a
short read ends the connection instead of shifting what follows. What it has
received by the time it is lost is kept by `Follows`: the first n packets are
those of the first n messages, and the next one, if there is one, is of a
foreign message whose length is within the limits. `PacketsSurviveTheStream`
therefore speaks of the packets up to the first accepted foreign one;
`StreamImplementsQueue` maps the queue to the same packets (`InStepIs`). The
first two facts also give `ReaderNeverStuck` (`NoEndlessRead`): with nothing
under way the reader would be where the sender is, but the sender with nothing
left is between two messages and the reader inside one of its own.

**Packets and requests** (`RequestProofs`): `FieldReadStaysInside`, whatever a
frame claims, and `WrittenIsRead`, that writes do not disturb each other.
`NetworkOrder`: what `htonl` writes, `ntohl` gives back, for every `int32_t`.
The number of the bytes of a word is their value in the base (`UnsignedValue`),
and two words of the same value are the same bytes (`UnsignedUnique`).
`RecipientsAreListed`: no name the server cuts out of a To field has a comma,
and the names, each with a comma behind it, are the field again (to which a last
comma may be added).

`FrameIsRead` is the argument a handler rests on, for every frame: what a
handler takes out of it is what the frame encodes, field by field; a frame that
encodes nothing of its type is refused. A read of a field finds what would
encode it (`FieldRead`), the reads of a handler follow each other as the fields
do, and each type has one encoding (`LoginMeant`, `ComposeMeant`, ...).
`FramesUnderstood` (`FrameUnderstood`) and `PathTypeCorrect` (`PathTypeOK`)
follow for the specification, from the inductive invariant `PathInv`: the types,
that the fields the client has collected so far are the ones its place in
`composeFromUser` says (`FieldsHeld`), so that what it writes is a packet of
bytes, and that what the server has understood was read off the frame before it
(`ReadRight`).

**From the keyboard on** (`TypedProofs`): `RequestsAreUnderstood`
(`UnderstoodAsTyped`) and `NothingIsLost` (`RefusedSpellsNothing`), for all that
can be typed, in any pieces, before or after the end of the input.
`RequestPathProps` says what a line spells by all the ways of dividing it; the
client scans. So the first half shows that the scans find the one division there
is: the words and the rest behind them (`RestsAre`, `FieldsAre`), the number of
a mail, also one out of the range of an `int` (`NumberRead`), the name and the
text of a chat (`ChatsInAre`). A packet written from there encodes what was
written (`PlainSent` to `ComposeSent`: what is written at the end of a frame
leaves the fields before it, `FieldAtEnd`). `SentIsSpelled` puts both together
for one line: it makes the client send the one request it spells, and a line
that sends nothing spells none.

The second half is about several lines, and its invariant, `TypedInv`, has to
hold also of scripts of which the two properties say nothing (`Intact` does not
hold), because the client reads on. Such a script has a NUL, or as many
characters in a row without a line end as fill the buffer (`Spoilt`), and then
nothing mends it; or its last line was cut off by the end of the input (`Cut`),
and then nothing follows. Otherwise (`Told`) the script is whole lines, and what
the client holds or has sent is what they spell, according to where it is
(`ToldBy`): a user name while it waits for the password, the parts of a mail
collected so far, a frame whose meaning is that of the lines. `BufferIs` shows
that whatever `fgets` leaves in the buffer is one of these three, and
`PieceJoins` that a line read is one more piece of the script.

**The users file** (`UsersFileProofs`): `UsersOfGoodLinesAreLoaded` and
`UsersAreReadFromTheirLines` are the two promises of the parser, and
`ParserTypeCorrect` its types, for every file and whatever new memory holds; of
a last line with neither a tab nor an end the second promises the name only,
because the code does not keep more. `ParserInv` says that the reader is between
two lines, that the number of lines before it is the number of users loaded (or
the line that stopped it is in no right format, `LinesCounted`), and that each
user is the one of the line with his number (`LoadedRight`). Two lemmas carry a
step: a line in the right format is read as its one user (`GoodLineRead`), and
what is read never comes from behind the line's NUL, unless the line has neither
a separator nor an end (`UserReadFromLine`).

**Induction.** The induction theorems of the library take an operator as a
parameter and cannot be used. `SeqLemmas` has the instances that are needed
about sets instead: a set that holds the first number of an interval and with
each one the next holds them all (`IntervalInduction`, from the smallest number
that is missing), and a function defined by what it was at the number before is
the one the definition says (`RecursionDefines`). So the recursions of the model
are functions of a number (`Power`, `Unsigned`, `PieceStarts`, ...), not
RECURSIVE operators.

**The system** (`MailSystemProofs`): `SystemImplementsServer`: a behaviour of
server and client programs is one of the server with arbitrary clients (every
client step is a client step of `MailServer` or a stutter, which needs the types
of what has been typed, `ClientTypeCorrect`). `SystemSafety` carries the
server's invariants over to the whole system.

The other three theorems are about what client and server know of each other.
`ServerStepOn` lists what one step of the server may do to one connection
(nothing, let go of it, welcome, answer, or send an unasked message), and
`ClientStepOn` what one step of a client may do; the invariants are preserved
under these cases instead of under every pair of actions.

- `ClientsAreLoggedIn` (`ClientLoggedIn`). A client takes the first message
  after its login for the answer. `ClientView` says why it is: until the session
  is logged in the connection carries the welcome, then the request, then its
  answer, and nothing else; and the answer says SUCCESS only if the session is
  logged in. It needs `ServerSpeaksInTurn`'s invariant, because a chat that
  reached a session before its login would be taken for the answer.
- `AnswersAreOnTheWay` (`AnswerOnTheWay`). A request that leaves the queue
  leaves an answer behind, or closes the connection, or is a SHOW_INBOX whose
  listing exceeds a message (`sendMessage` refuses the packet and the handler
  does not look). `Outgrown` follows the last case: while nothing of the client
  is unread its inbox can only grow (`OutgrownStays`, from `MailSteps`), so the
  exception stays what it was when the request was handled.
- `ClientsStayInLockstep` (`ClientInLockstep`), where no inbox has more mails
  than a listing has room for (`ListingsFit`) and for users who type no chats
  (`PlainRequests`, which the commands of `system_one` meet): `Dialogue`
  strengthens the property by what a client that quits has asked for. With chats
  it is false, as `system_chat_race` shows; the frame without a type is excluded
  because it gets two answers, and no command of the client sends one.

Assumptions: `NoSession` is no connection, `NoUser` no user's name; the users
file is a sequence of users and passwords; sizes are natural numbers, lengths
positive; clients send requests of the protocol, well formed or not, and where
they send frames without a type a buffer holds two messages (`RoomAssumption`);
a foreign message is one `sendMessage` does not write; the characters the parser
looks for are characters, and its buffer has room for every line and a NUL; a
number has at least one byte, of an even number of values, and the limit of a
field is one of the numbers a frame can hold (`LengthAssumption`); the
characters that have a meaning are characters, and the types of the requests are
`int32_t` numbers (`InputAssumption`, `PathAssumption`, `TypeAssumption`); the
commands and prefixes of `Client.cpp` are twelve different words without blanks
(`WordAssumption`), the signs are two characters and not digits
(`SignAssumption`), and a line of the user fits into a field (`LimitAssumption`;
2000 and 10000 in the code). They are the named `ASSUME`s of the modules and TLC
evaluates them in every run.

Only model-checked is liveness (`progress`, `system_live`, `MessagesArrive` and
`SendsComplete` of `framing`), which is out of the prover's reach together with
ENABLED. Every safety invariant, action property and refinement of the passing
runs is proved.

## 5. Not modelled

- The width of mail ids: an unsigned int that wraps, and is printed as a signed
  number, after more mails than a process can hold in memory.
- `FD_SETSIZE`: the limit `MaxFd` of the model ends the server by a failing
  `accept`, as a limit of the process does when it is below 1024.
- What becomes of a stream whose reader has accepted a length that lies: the
  reads go on in `framing`, but nothing is promised of them, and `MailServer`
  has for it that the session fails (`BAD_FRAME`), that it waits (`HALF_FRAME`),
  or that any request comes.
- Timeouts and keep-alive of TCP: the code sets none, so a connection that dies
  silently is one that stays as it is.
- How the client lays out what it prints, debug output (`printDebugLog`,
  `debugPrintUserList`), failures of memory allocation, and name resolution.
- The bytes of the replies: they are built with the operations of `Packet` that
  `texts` checks for requests; the other modules have them as records.
- Signals: no handler is installed, so `select` and `recv` are not interrupted.
- The tests, which are read for what they expect of the program.
