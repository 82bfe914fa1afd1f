# A verification development for TP-Protos-POP3

TP-Protos-POP3 is a POP3 server in C: one process, one thread, non-blocking sockets driven
by a selector, maildirs on disk, and a second service on UDP through which a manager adds
and removes users, reads metrics and stops the server. This directory holds TLA+ models of
it, the TLC configurations that check them on small instances, and TLAPS proofs of what
matters most for every instance. Paths below are relative to `src/src/` of the repository
unless they say otherwise.

## 1. Inventory

| component | code | state it keeps | operations | modelled in |
|---|---|---|---|---|
| command layer | `command_handler.c`, `pop3file.c`, `include/pop3.h` | `struct Client`: `state`, `name`, `files[]` (id, size, `to_delete`), `file_cant`, `active_file_cant`, `active_file_size`; the directories themselves | the handlers of `nonAuthTable` and `authTable`, `populate_array`, `remove_file` | `Maildrop` |
| connection handlers | `pop3.c` | the two buffers, `lastFileList`, `activeFile`, `fileDoneReading`, `fileState.file`, `newLine` | `pop3ReadCommand`, `pop3WriteCommand`, `pop3WriteFile`/`ReadFile`, `pop3WriteList`/`ReadList`, `parseCommandInBuffer`, `closeConnection` | `Session` (events and answers), `MailTransfer` (bytes of a mail), `Parser` (bytes of a command), `Server` (descriptors and failures) |
| state machine | `utils/stm.c` | the current state | `stm_handler_read/write/close`, `jump`; aborts on an event without handler | `Session` |
| buffers | `utils/buffer.c` | `data`, `read`, `write`, `limit` | `write`, `write_adv`, `read`, `read_adv`, `compact` | `Buffer` (the array), `ByteQueue` (the queue it implements, used by `MailTransfer` and `Parser`); in units in `Session` |
| POP3 parser | `parser.c`, `pop3cmd.c` | state, word being read, arguments, `finished` | `parser_feed`, `pop3cmd_consume`, `parser_reset` | `Parser` |
| selector | `utils/selector.c` | descriptor table, `max_fd`, the sets of `pselect`, blocking jobs | `register`, `unregister`, `set_interest`, `select` | `Selector` (the table), `Server` (the loop) |
| user table | `users.c` | `users[]`, `user_count` | `user_add`, `user_remove`, `user_check_valid` | `Users` |
| management service | `manager/manager_handler.c`, `manager/manager_parser.c` | none between datagrams | CAPA, USERS, ADD, DEL, HIST, CONC, TRANS, STOP | `ManagerParser`, `Manager` |
| metrics | `metrics.c` | three counters | `new_connection`, `close_connection`, `send_bytes` | `Server` |
| start, accept, stop | `main.c` | `done`, the two passive sockets | accept, main loop, SIGTERM/SIGINT | `Server` (accept, loop, STOP), `Maildrop` and `Session` (SIGTERM) |
| arguments, socket setup, address formatting, logger, manager client | `utils/args.c`, `socket_setup.c`, `utils/netutils.c`, `logger/`, `manager_client.c` | – | – | not modelled (section 8) |

**How they interact.** `main` registers the two passive sockets and calls `selector_select`
until `done`. `selector_select` blocks in `pselect`, then `handle_iteration` goes round the
descriptors in their order and calls the read or write handler of each that was reported and
is still interested. For a client these are `pop3Read` and `pop3Write`, which hand the event
to the state machine (`READ`, `WRITE`, `WRITE_FILE`, `WRITE_LIST`, `ERROR_STATE`,
`CLOSE_STATE`); the handler of the state reads or writes the socket, may parse and execute a
command, and returns the next state. The command handlers write their answer into
`serverBuffer`, change `struct Client` and act on the directory. The manager's handler runs
in the same loop and changes the user table, which `handlePass` of a session reads. There
are no threads; what interleaves are the *events* of different descriptors, the peers, the
mail system that writes the directories, other sessions on the same directory, and signals.

**What is hard here.**
* Two sessions of one user share a directory without any lock, and mail arrives at any time;
  each session works from the listing made when it logged in.
* A QUIT removes files one by one; any removal can fail, SIGTERM can come between two, and
  the loop uses `file_cant` both as its bound and as the count it decrements.
* The counters of STAT are kept incrementally over any mix of DELE, RSET, failed QUITs and
  later logins of the same connection.
* Answers to LIST and RETR take many events; a send may be short at any byte or fail, a read
  may cut a line or hold several, the input may end at any moment.
* A mail is escaped block by block into a buffer of the size of a block and one byte, and
  only `newLine` and `line[i-1]` remember what came before.
* The interest of a descriptor and the state of its state machine are set in different
  places and must agree, or `stm.c` aborts the process.
* A handler closes descriptors while a round is going on, and `accept` and `fopen` give the
  same numbers out again; descriptors may run out.
* The buffers have a fixed size and are reused only when empty.
* The user table is a fixed array of fields that may lack their terminator, and the
  manager's parser does not stop at the end of a line.

**What makes each component correct.** The *command layer*: a message leaves a directory
only by the QUIT of a session of its owner that listed and marked it; the counters agree
with the marks; STAT agrees with LIST; QUIT reports what it did. The *connection*: each
command read gets one answer, whole and in order; a listing has the entries its header
counts; every event has a handler; writes fit the buffer; everything read is answered and
every finished connection closed. The *mail transfer*: what the peer gets is the file,
escaped, and ends where the file ends. The *parser*: a command is what its line says,
however it arrived. The *buffer*: a queue of limited capacity. The *selector*: its table,
the sets of `pselect` and the connections agree. The *server*: no descriptor is lost or
shared, those who wait are served, who is gone is closed, STOP stops. The *user table*: it
is a map of limited size. The *manager*: pages cover the table, and only what a datagram
says is obeyed. Every hazard is listed at its line in `PROJECT.json`, with the properties
that would catch it, or the reason why there is none.

## 2. The modules

```
MaildropAbs    what a maildrop promises      UserTableAbs   a limited map
   ^ implemented by                             ^ implemented by
Maildrop       handlers, maildirs            Users          the array of users.c
   ^ EXTENDS                                    ^ EXTENDS
Session        events, state machine         Manager        datagrams  --EXTENDS--> ManagerParser

ByteQueue      a queue with a read offset    Selector       the table of selector.c
   ^ implemented by     ^ EXTENDS               ^ EXTENDS
Buffer                  MailTransfer, Parser Server         the loop, descriptors, metrics

TLC:    MCMaildrop MCSession MCMailTransfer MCParser MCServer MCManager
proofs: MaildropProofs SessionProofs BufferProofs ServerProofs ManagerProofs
        MailTransferProofs ParserProofs, on top of FoldLemmas
```

### Maildrop
`client[c]` is `struct Client` without buffers and pointers: `state`, `name`, `files` (a
sequence of file names, slot `i` holding the message of `file_id` `i`), `to_delete` (the set
of marked slots), `file_cant`, `active_file_cant`, `active_file_size`, and `listed`, which
says that `files[0].file_id` is no longer the zero that `calloc` left and LIST tests for.
`dir[u]` is the directory of a user, `reply` the last answer: the state the handler
returned, whether the line began with `+OK`, and its numbers.

Each handler of the two command tables is an operator with its name; `executeCommand` picks
the table by `client.state`, as the code does, so that after a QUIT that failed (state
`UPDATE`) the commands of `nonAuthTable` are available and a connection may log in again.
`populate_array` may list a directory in any order (`readdir`) and changes nothing when
`opendir` fails, which `handlePass` ignores. `handleQuitAuth` removes the slots
`Removed(c)`: those the shrinking loop reaches (`Reached`), up to the first file that is not
there any more (`Missing`). `QuitLoop` is the loop as it is written, turn by turn
(`QuitTurn`); that it comes to what the closed form says is a property (`RemovedIsTheLoop`).
A file that a QUIT cannot remove is one that is gone: permissions are assumed not to change
under the server. Sizes are a measure `Octets` on sets of files, additive over disjoint
ones. The environment delivers mail (`Deliver`), closes connections and sends SIGTERM, which
exits between two commands or in the middle of a QUIT (`sigterm_handler`); the server may be
started again.

The answer of `user_check_valid` is left open here, since the manager may change the table
between any two commands; `Users` and `Manager` say what it is.

### MaildropAbs
A maildrop is a set of messages per user. A session sees what was there when it was opened,
marks and unmarks, and signing off may expunge *some* of what it marked; nothing else
removes a message, a client that just goes away least of all. After signing off a client is
in phase `over` (`UPDATE` or `CLOSED`), which tells the two ends apart. `Maildrop`
implements it under the mapping `absSession`: a session in `TRANSACTION` of a user with a
directory has seen `Range(files)` and marked the files of `to_delete`.

### Session
`conn[c]` holds what `pop3.c` keeps besides: the state of the state machine, the interest
registered with the selector, both buffers, the cursor of a listing (counted from 1, 0 for
the code's -1), the message a RETR sends, `fileDoneReading`, and how many blocks of the open
file are left. `peer[c]` is the other end: what it has sent and the server has not read, how
many answers it waits for, how much it has of the current one, and whether it has shut its
side. `server` says whether the process is up or has aborted, and on what.

Data is cut as coarsely as the handlers allow. The input is a sequence of *half lines*, two
for each command, so that a read may return any number of lines and end inside one. The
output is counted in *units*, two for a line, with the last unit of a line marked (`"part"`,
or `"end"` for the last line of an answer), so that a send may be short inside a line and
the buffer, of `Room` units, may run full; `read` is the offset that `buffer_read_adv`
resets only when everything has been sent, since room at the end of the buffer is lost until
then. A block of a mail file becomes at most `MaxBlock` units, and what does not fit is
dropped as `buffer_write` does, while a line is counted whole, which is what
`buffer_write_adv` asserts about. Every handler of `pop3.c` is one operator;
`executeCommand` of `Maildrop` runs inside the step that parses the line.

### ByteQueue and Buffer
`ByteQueue` is what a buffer of `buffer.c` means to its users: the bytes between the two
pointers, and `read`, the memory already given up before them. Its room is what is left
behind them: the memory is used again from the start only when the queue is empty
(`buffer_read_adv`). `buffer_write` drops what has no room; `buffer_write_adv` counts
whatever it is told, and its assertion is `Fits`. `Buffer` is the array with its four fields
as `buffer.h` declares them; `Queue(b)` is the mapping, and `BufferProofs` proves that each
operation of the array is the operation of the queue. `MCParser` checks the same on every
array of three bytes, as an assumption.

### MailTransfer
One connection sends one mail after another. Bytes are `CR`, `LF`, `DOT`, `NUL` and `x` for
all others; `private_getline` reads `BLOCK` = `BUFFER_SIZE - 1` bytes, and the loop of
`pop3ReadFile` works on a C string, so that a block ends at its first `NUL`. `Escape` is one
turn of that loop: its memory is `newLine`, which outlives the block and the mail, and the
byte before, which does not outlive the block. A send may take any number of bytes or fail,
which is `n = 0`; `pop3WriteFile` goes on with the file when the buffer was empty and also
when the send leaves it without room. The history variables `mail`, `fresh`, `got` and
`lost` say what is being sent, how `newLine` was found, what the peer has, and whether a
byte had no room. The reference `OnTheWire` is defined on the whole file, without blocks.

### Parser
Bytes are a capital and a small letter, space, `CR` and `LF`. `pop3ReadCommand` receives any
bytes that fit the client buffer, none included; `parseCommandInBuffer` feeds them up to the
end of a line, executes and resets. Replies are a step to `WRITE` or `WRITE_FILE` and back,
since what follows in the buffer is looked at after the first and not after the second.
`ABORT` is the write event without handler of `Session`. The reference `CommandOf` takes a
whole line and cuts it into words where its spaces are.

### Selector and Server
`Selector` has the operations on the table as operators from a table to a table: the items,
`max_fd`, the two master sets, growth by `next_capacity`, and the comparison of
`selector_register`, whose outcome `PAST_THE_TABLE` stands for a write behind the array.
`Consistent` says what a table is for.

`Server` is the process. `selector_select` copies what is ready and of interest to `slave_r`
and `slave_w`; `handle_iteration` visits the lowest descriptor left, and while the round
lasts the peers connect, send, shut down and reset (`wire`). `open` is the set of the
process's descriptors; `accept` and `fopen` take the lowest free one, a mail file keeps its
own from the first block to its end. A send to a peer that is gone fails and is counted as
-1; a receive that fails only logs, and the next one returns 0. `accept` may fail for want
of a descriptor, a new connection may fail to be set up or be too high for `pselect`. `done`
is set by a STOP and looked at between rounds. What a connection says is `Session`'s
business: here it is reading, writing or sending a file, has something to send (`out`), and
its buffer has room or not (`full`).

### Users, ManagerParser and Manager
`users[i]` is the array with the stale copies `user_remove` leaves behind `user_count`.
Names and passwords of exactly the length of their field are stored without terminator, and
`strcmp` then reads on: `ByteAt(i, o)` is the byte at offset `o` of entry `i`, where the
password follows the name and the next entry, in use or not, the password. `MayEqual` and
`MustEqual` say what `strcmp` may and must answer; they differ past the array, where there
may be anything. `user_find` is the set of positions the search may return. So a name that
fills its field is never found again, but the name and password written together are, with
the name of the next entry behind them if the password fills its field too. Words are
sequences of a few bytes, and verbs are bytes as well. `UserTableAbs` promises a map for the
names shorter than their field; the others only take places in it (`Hidden`).

`ManagerParser` is the parser over tokens: space, `LF`, `CR`, colon, verbs and words. It
goes on after an `LF` and appends to the word it has. `Manager` executes what the parser
makes of each datagram in `Datagram`, cuts the argument of ADD at colons (`Part`), and keeps
in `said` what the datagram says to a reader: the first two words of its first line.

## 3. Runs

| run | instance | what it shows |
|---|---|---|
| `maildrop` | 2 clients, 2 users (one without a directory), 3 files of one size | `TypeOK` (no counter wraps), `Accounting`, `StatAgreesWithList`, `RemovedIsTheLoop`, `QuitCountsWhatItRemoved`, and that `Maildrop` implements `MaildropAbs` |
| `session` | 1 connection, every command, lockstep peer, with fairness | the safety of the connection (`SessionTypeOK`, `AnswersConserved`, `ListingProgress`, `AnswerInProgress`) and its liveness (`Answered`, `ClosedInTheEnd`) |
| `session_pair` | 2 connections of one user, the reader with 2 commands in flight, blocks that fill the buffer | answers stay whole and in order (`AnswersConserved`, `AnswerInProgress`, `ListingProgress`) when the QUIT of one session removes the file the other has announced, and when commands wait behind answers; the one in lockstep always has a handler (`LockstepHandled`), and the buffer is overrun only by a file that filled it (`OverrunOnlyByFile`) |
| `transfer` | a buffer of 6 bytes; every mail of one block, and mails of two with any 4 bytes around its end | `MailArrivesWhole`, `NoEarlyEnd`, `SlimMailsAreSafe`, and that a mail ends (`TransferEnds`) |
| `parser` | a buffer of 3 bytes, lines of up to 9 | `CommandIsTheLine`, `EndOfLineSeen`, `BytesKept`; and `ArraysAreQueues` of `MCParser`, as an assumption |
| `server` | 2 peers, 3 connections, 5 descriptors of which `pselect` takes 4 | `TableAgrees`, `DescriptorsAccounted`, `DeadWriterStays`, and the liveness `GoneReaderClosed`, `WaitingServed`, `StopEnds` |
| `manager` | 4 names, one of which fills its field, for a table of 3, fields of 2 bytes, pages of 2, datagrams of every verb with five endings | `Users` implements `UserTableAbs`, `NamesUnique`, `PagesCoverTable`, `ObeysFirstWords` |
| `quit_removes` | 1 client, 2 files | **violated**: finding 1 |
| `session_abort` | 1 connection, 2 commands in flight | **violated**: finding 2 |
| `session_stall` | 1 connection, 2 commands in flight, with fairness | **violated**: finding 3 |
| `transfer_lost` | text files of up to a block and one byte | **violated**: finding 4 |
| `server_bytes` | 1 connection whose peer goes away | **violated**: finding 5 |

### Findings
1. `command_handler.c:32` – the loop of QUIT decrements its own bound, so the last marked
   messages may not be removed while QUIT answers `+OK`; the text at lines 42-43 means to
   answer `-ERR` when marked messages are left. What QUIT *counts* is right
   (`QuitCountsWhatItRemoved`, proved): it reports the messages it left.
2. `pop3.c:107`, `281` – an unfinished line parsed after a reply returns `READ` with
   interest `OP_WRITE`; `READ` has no write handler and `stm.c:70-72` aborts. The same
   happens to a command that follows QUIT in one packet (`ERROR_STATE` has no write handler
   either). A peer that waits for each answer never causes it: `LockstepHandled` holds in
   run `session_pair`, and is proved.
3. `pop3.c:224` – after the last byte of a file the handler waits for input without looking
   at `clientBuffer`, so a command that came with RETR waits for the next one; the report
   (`docs/` of the repository, section 7.2) shows a RETR being pipelined.
4. `pop3.c:154` – a block of `BUFFER_SIZE - 1` bytes is escaped into a buffer of
   `BUFFER_SIZE`, and the bytes without room are dropped, even of a file shorter than a
   block when it has line ends enough; the report (section 7.4) says the files arrive equal.
5. `metrics.c:25` – the result of `send` is added to the counter of bytes whatever it is
   (`pop3.c:94-95`), so that every failed attempt takes one off it; the protocol document
   (`docs/RFC Manager Protocol - Grupo 05.txt`, lines 206-208) says that TRANS gives the
   bytes the server sent.

Met while modelling, and in the models, without a run of their own:
* `pop3.c:211` – with a full buffer that a send leaves full, `pop3WriteFile` goes on with
  the file: the block is lost, or the terminator is counted past the limit, against the
  assertion of `buffer.c:55`. `OverrunOnlyByFile` says that nothing else ever does this, and
  `SlimMailsAreSafe` for which mails it cannot happen.
* `command_handler.c:127` – `newLine` is as the mail before left it: after a file without a
  last line end, a dot that begins the next mail is not doubled. Nor is one behind a first
  block that begins with a NUL, of which nothing is sent and which leaves `newLine` alone
  (`pop3.c:154`); this came out when `MailArrives` could not be proved for mails that only
  do not begin with a dot. `StartsRight` excludes both.
* `pop3.c:157-166` – the byte before a `\n` is looked for in its own block, so a CR LF cut
  by the end of a block gets a second CR; a NUL ends its block (`Plain`).
* `pop3.c:98` – a connection whose sends fail is never closed (`DeadWriterStays`).
* `parser.c:72` – a word of `BUFFER_SIZE` bytes hides the end of its line and of all that
  follow (`EndOfLineSeen`).
* `manager_parser.c:90` – a `\r` stays in its word, so that verbs without argument are not
  recognised in lines that end in CR LF, against the protocol document; nor is any line with
  a space before its end.
* `manager_parser.c:93` – a verb alone on its line stays in the parser's word and begins the
  next one: `DEL`, a line end and `ann ` remove a user `DELann`, whom the first line does
  not name. `FirstWordsObeyed` could not be proved without `NoVerbNames`.
* `users.c:38` – a name of `MAX_USER_LENGTH` bytes is stored without terminator, so that it
  is never found again and can be added twice, while a DEL or a login with the name and the
  password in one word finds it. `NamesUnique` is for the names shorter than their field.
* `pop3.c:248` – a receive that fails while the buffer is empty throws away the part of a
  line there is. It is the only input that is ever lost (`BytesKept`).

### Bounds, and why they are enough
* *Files and clients.* Two sessions on one directory are what it takes for a removal to find
  its file gone. Two marked messages are the least with which the QUIT loop misses one;
  three files are the least with which it removes one, fails on the next and leaves an
  unmarked one. In run `maildrop` the files are of one size, which lets them be permuted;
  sizes differ in the runs of `Session`. The `VIEW` of that run leaves out the last answer,
  which no later step reads. The properties of `Maildrop` are also proved for any number of
  files (section 5).
* *Commands in flight* (`Ahead`). One is the lockstep of most clients; two is the least for
  which a line, or half of one, waits behind an answer.
* *Buffer* (`Room` = 3 units, `MaxBlock` = 2, or 3 in `session_pair`). A line of two units
  and one more: the least in which a short send of a line leaves a buffer that is neither
  empty nor at its start, with the rest of the room lost. A block of three fills it, which
  is what `pop3.c:211` takes for room; the runs with liveness leave this out, since the
  overrun stops the process. The safety properties of `Session` are proved for other sizes.
* *Blocks of a file* (`MaxBlocks` = 2 in `session`): an empty file, one block, and a block
  after another; `session_pair` takes one.
* *Mails* (`Mailbox`): all of one block, which is every combination of five bytes, and those
  where four bytes, any four, lie around the end of a block, which is as far as the loop's
  memory reaches; one after another, since `newLine` outlives a mail. The buffer is the
  least that holds the terminator. The safety properties are proved for every mail and every
  buffer that holds it.
* *Lines* (`MaxLine` = 9 with a buffer of 3): a verb, two arguments, a third word and empty
  words, each of the words as long as fits and one longer, cut at every byte; one verb of
  one letter, since the table is only looked up. The safety properties are proved for lines
  of any length, buffers of any size and any words as verbs.
* *Descriptors*: two sockets, two connections and two mail files want six; the process has
  five, and `pselect` takes four, so that `accept`, `fopen` and the registration each find
  too little. `MaxConnections` = 3 lets a descriptor be used again; the bytes are counted
  modulo `Width`, 3 or 4, which tells +1, 0 and -1 apart.
* *Users* (a table of 3, 4 names, pages of 2): a full last page and a partial one, removal
  from the middle and the end, and a name that finds the table full. Fields have two bytes,
  so that one name and some passwords fill theirs; the words given include each of them
  joined to what follows it in memory. The `VIEW` leaves out the last result and datagram,
  which no later step reads. All bounds but the one on the names that `ObeysFirstWords`
  needs are proved to be of no importance.
* *Symmetry* over client identities, files and letters of names, only in runs that check
  safety.

`CHECK_DEADLOCK FALSE` stands where the system stops: after STOP (`manager`, `server`),
after an abort (`session_pair` and the violated runs), where the bound on a line is reached
(`parser`), and after an overrun (`transfer`).

### Fairness
`FairSessionSpec` assumes weak fairness of `handle_iteration(c)` for each connection:
`pselect` reports every ready descriptor and `handle_iteration` (`selector.c`) serves each
of them once per round, so no ready connection is passed over for ever; a handler never
blocks. It also assumes that the peer reads what is sent, since `send` makes progress in
every write event of that model. It does not assume that a peer ever sends, ends its input,
or that QUIT ever comes. `stm_abort` is part of `handle_iteration`, so that a stalled state
machine is not mistaken for an idle one.

`Server` derives what `Session` assumes: it only has weak fairness of `Loop`, which says
that the process runs, and the order of a round does the rest. Sends may fail for ever
there. `MailTransfer` has weak fairness of `pop3WriteFile`, where a send of nothing that
changes nothing does not count: sends do not fail for ever.

## 4. Every property can fail
Beside each modelled operation stands, where a property is about it, a variant with the bug
one would make there (a missing reset, a dropped test, a loop bound, a cursor that does not
move). `PROJECT.json` pairs each property of a passing run with the variant under which TLC
finds it violated.

## 5. Proofs

All theorems hold for every value of the constants that satisfies the assumptions named in
the modules: `MaildropAssumption`, `SessionAssumption`, `BufferSizeAssumption` (a size is a
number) and the one of `Buffer`, `MailTransferAssumption` (mails are sequences of bytes, and
the buffer is longer than the terminator), `ParserAssumption` (verbs are words of capitals,
and the buffer has a byte), `UsersAssumption`, `ManagerAssumption` (the names and passwords
that a datagram gives are in `Name`, `Pass` and `OtherName`), `SelectorAssumption` and
`ServerAssumption`.

### The command layer (`MaildropProofs`)

| theorem | statement |
|---|---|
| `MaildropInvariant` | `Spec => []MaildropInv` |
| `TypeCorrect` | `Spec => []TypeOK` |
| `AccountingCorrect` | `Spec => []Accounting` |
| `StatListCorrect` | `Spec => []StatAgreesWithList` |
| `QuitCountCorrect` | `Spec => QuitCountsWhatItRemoved` |
| `QuitIsTheLoop` | `Spec => []RemovedIsTheLoop` |
| `Refinement` | `Spec => ImplementsMaildrop` |

**Assumptions.** Finitely many clients and messages; `Octets` additive over disjoint sets;
directories only of users; `NULL` no user; and `Cardinality(Msg) < MAX_EMAILS`. The last is
a real one: `populate_array` writes one slot more than there are files and has no bound of
its own (`pop3file.c:105`), so the maildirs must leave that slot free. It is listed among
the hazards.

**Argument.** None of the properties is inductive: DELE subtracts from counters that only
agree with the marks if the marks lie in the listing and no slot repeats a file (otherwise
the octets of a set of files are not the sum over slots). `MaildropInv` says of each
client's record (`RecordOK`) that it has its type, the listing is shorter than `MAX_EMAILS`
and has no repetition, marks are slots of the listing, `file_cant` never exceeds the listing
and equals its length in every `TRANSACTION` session of a user with a directory, and the two
counters are the number and octets of the unmarked slots. Speaking about *one* record makes
the proof modular: each handler has a lemma (`Login`, `Delete`, `Reset`, `ChangeState`,
`ChangeName`, `LoginWithoutDir`) that says the record it produces is again `RecordOK`,
`OneRecord` lifts that to the invariant, and the step theorem has one case per action.
`QuitCountCorrect` uses that distinct slots hold distinct files, so that the number of slots
removed is the number of files taken out of the directory. `QuitIsTheLoop` goes through the
loop turn by turn (`Turned`): as long as no removal has failed, either every marked slot so
far was reached or the counter has passed the bound, which only shrinks, so that no later
slot is reached. **Refinement.** The mapping needs one more invariant, `NoDirEmpty`: a user
without a directory has no mail. It is what makes the QUIT of a session that kept an older
listing remove nothing. Each handler then maps to a step of `MaildropAbs` or to a stutter
(`PassRefines`, `QuitRefines`, `DeleRefines`, `RsetRefines`).

### The connections (`SessionProofs`)

| theorem | statement |
|---|---|
| `SessionInvariant` | `SessionSpec => []ServiceInv` |
| `SessionDrivesMaildrop` | `SessionSpec => Spec` |
| `SessionRefinement` | `SessionSpec => ImplementsMaildrop` |
| `SessionTypes` | `SessionSpec => []SessionTypeOK` |
| `AnswersCorrect` | `SessionSpec => []AnswersConserved` |
| `AnswerOrderCorrect` | `SessionSpec => []AnswerInProgress` |
| `OverrunsExplained` | `SessionSpec => OverrunOnlyByFile` |
| `LockstepCorrect` | `SessionSpec => []LockstepHandled` |
| `ListingsAddUp` | `SessionSpec => []ListingProgress` |

**Composition.** `SessionDrivesMaildrop` says that every event of a connection is a step of
the command layer or none, so that all that is proved of `Maildrop` holds of commands spread
over reads and answers spread over sends; with `Refinement`, the service as its peers see it
implements the abstract maildrop.

**The balance.** `AnswersConserved` needs the form `owed = Ends(inq) + Due(k)`, where `Due`
counts the lines read, the ends in the server buffer and the answer in progress, for one
link at a time (`LinkOK`). Each way a handler changes a connection has a lemma about `Due`
(`PutDue`, `SentDue`, `EndOfFileDue`, `BlockDue`, `ListDue`, `CommandDue`), on top of lemmas
on how counting goes with concatenation and cutting. `owed <= Ahead` is then a consequence
of what the peer may send. That the process is up only while the writes fit (`Written <=
Room`) is what lets the lemmas cut the buffer.

**Room and step.** That a write fits, and that every event has a handler, are not true of
the code: a block may fill the buffer, and two commands in flight may meet a state without a
handler (section 3). The theorems say exactly when: `OverrunsExplained` that an overrun is
always the end of a file whose last block filled the buffer, `LockstepCorrect` that a peer
with one command in flight is always in step, mails that fill its buffer included. The only
assumption on sizes is that the buffer holds a line and a unit more. `HandlerInv` has three
layers: what is in progress fits the session (`OrderOK`); the buffer is empty where an
answer starts, and not full after the end of a file, unless it was overrun (`FitOK`);
nothing read waits, and the interest is that of the state, for each connection in lockstep
(`SyncOK`). The last needs that input is whole lines (`EndsInLine`) and the balance: with
one command owed, the end of the line that is read is the end of all there is (`AllRead`).

**Listings.** `ListingProgress` counts the entries of a listing that the peer has, that are
in the buffer, and that the cursor has not reached. It is not inductive: when a listing
begins, what the peer has of an answer must be nothing. `ListOK` adds that an answer starts
when the one before it has been read to its end, or in a buffer that has no room for a
header; and that while the last line of an answer goes out nothing stands behind it in the
buffer. `SentLines` and `SentListed` say what a short send of any number of units does to
the count.

### The buffer (`BufferProofs`)
`InitIsEmpty`, `WriteAppends`, `WriteByte`, `CompactKeepsBytes`, `ReadDrops`, `ReadByte`,
`CanReadAndWrite`: for every array with `read <= write <= limit`, each operation of `Buffer`
leaves such an array and does to the queue what the operation of `ByteQueue` does. Users of
the buffer may so be modelled with the queue.

### The selector and the server (`ServerProofs`)
`NewConsistent`, `RegisterConsistent`, `SetInterestConsistent`, `UnregisterConsistent`: each
operation of the table keeps it consistent, and a registration never writes past its end,
whatever the descriptor. The assumption is the one `next_capacity` asserts
(`selector.c:183`): a power of two with enough bits reaches `FD_SETSIZE`.

`ServerProofs` proves `TypeOK`, `TableAgrees`, `DescriptorsAccounted` and `DeadWriterStays`
of `Spec`, for any number of peers, descriptors and connections. The invariant `ServerInv`
adds to those what a connection may hold in each state (`ClientOK`), that no two things
share a descriptor (`Distinct`), that `open` is exactly what is held, and that those who
wait to be accepted are not connected (`Queued`). The hard part is the round: `slave_r` and
`slave_w` were computed before the handlers changed the table, so a handler could make a
reported descriptor one that is in no master set. `Frame(fd)` says that a handler changes
the master sets only at its own descriptor, which has left the round; each handler has that
as part of its lemma.

### The user table and the management service (`ManagerProofs`)

| theorem | statement |
|---|---|
| `TableImplemented` | `UsersSpec => ImplementsTable` |
| `ManagerIsUsers` | `ManagerSpec => UsersSpec` |
| `ManagerTypes` | `ManagerSpec => []UsersTypeOK` |
| `ManagerNames` | `ManagerSpec => []NamesUnique` |
| `ManagerTable` | `ManagerSpec => ImplementsTable` |
| `ManagerPages` | `ManagerSpec => []PagesCoverTable` |
| `FirstWordsObeyed` | `NoVerbNames` implies `ManagerSpec => ObeysFirstWords` |

**The table.** `UsersInv` says that two entries in use have different names, or names that
fill their field, and that no entry in use is blank or longer than its fields. Removal
copies the last entry into the gap: under the mapping to a function from names to passwords
this is the removal of one name (`RemoveImplements`), because the entry copied is still
found once and the stale copy lies behind `user_count`. What `strcmp` does is taken apart by
the length of a name: one shorter than its field compares as words do, and the password
behind it is at least the beginning of what opens the maildrop; one that fills its field
compares equal only to words longer than a name. So a word no longer than a name reaches
only the map, and a longer one at most an entry that the map does not name (`Hidden`).

**Pages.** Page `k` is the entries from `PAGE * k + 1` on, as many as there are up to `PAGE`
(`PageIs`); every entry is in the page of its number divided by `PAGE`, and in no other
(`PageOf`, `Distance`).

**What a datagram says.** `ObeysFirstWords` relates two readings of a datagram: that of the
parser, which goes through all of it token by token, and that of `Words`, which cuts the
first line. `Follows(q, w)` says how the parser's state and the words so far agree, up to
the first line end (`LineFollows`); `After(q, ws)` what the rest of the datagram can still
change: only the argument, if the line gave none, and then to a word that begins with the
verb (`AfterFeed`). Hence the condition `NoVerbNames`.

### Mails (`MailTransferProofs`)

| theorem | statement |
|---|---|
| `MailTransferTypes` | `Spec => []TypeOK` |
| `SlimMailsSafe` | `Spec => []SlimMailsAreSafe` |
| `MailEndsOnce` | `Spec => []NoEarlyEnd` |
| `MailArrives` | `Spec => []MailArrivesWhole` |

`WriteStep` splits a write event into what it does to a mail: it waits, reads a block, meets
the end of the file, or finishes; each invariant has one lemma for each. `MailInv` (types,
an empty buffer where a mail may begin) carries the rest:

* `Position`: what has been read of the mail is a number of whole blocks, or all of it.
* `HasRoom`: with a slim mail, every block meets a buffer that has room, so that nothing is
  lost. A block grows by at most one byte for each line end and dot of it (`BlockGrows`).
* `DotsDoubled`: in what was sent, a dot after a line end is followed by another, and if the
  last byte sent ends a line, the next one will not be a single dot (`NextIsNoDot`, which is
  what `newLine` is for). A terminator can then begin nowhere before the end (`EndsOnce`).
  This holds of every mail, NULs and cut line ends included.
* `Whole`: what was sent is the header and the escaped form of what has been read, and
  `newLine` says whether the byte before was a line end. `EscapeIsWire` is its core: the
  loop of `pop3ReadFile` on one block adds what the definition on the whole file adds for
  the same bytes, if the block does not begin behind a `\r` and holds no NUL (`Plain`).

### The parser (`ParserProofs`)

| theorem | statement |
|---|---|
| `ParserInvariant` | `Spec => []ParserInv` |
| `ParserTypes` | `Spec => []TypeOK` |
| `CommandCorrect` | `Spec => []CommandIsTheLine` |
| `LineEndsSeen` | `Spec => []EndOfLineSeen` |
| `InputKept` | `Spec => BytesKept` |

**The line from its beginning.** The state of the parser says too little about the line it
came from to be an invariant of its own: in `ERROR` it keeps no words, and after a word that
is too long it keeps nothing of what follows. `ParserInv` therefore says that what the
connection has read since the last line end takes a *new* parser, byte by byte, to the one
there is (`Unfinished`), and the same of the line being answered (`LineFor`). That this is
kept wherever `recv` cuts the input is `ConsumeIs`, the fold of `pop3cmd_consume` taken
apart, and `Continued`, which joins what was read before with what is read now.

**What the bytes come to.** `Reading(p, s, n, w)` says that after `n` bytes of `s` the
parser is in the word that starts at `w`, with the ones before it where they belong: the
verdict on the first (`Verdict`) and the first two of the others that are not empty
(`ArgsAre`). `FeedReads` is one byte of it, `WordEnds` the end of a word, `LineEnds` the end
of the line, where the last word is read without its `CR`. `RunReads` says that a parser is
`Reading` until a word fills its memory, and `Stuck` from then on. `ParseTakes` is what
`InputKept` rests on: the bytes that leave the buffer are those that enter the line.

### Folds (`FoldLemmas`)
The parsers and the escape are folds over a sequence, `FoldLeft` of the community modules.
`FoldSteps` turns a fold over `N` elements into a function on `0 .. N` whose value at `n`
comes from the one at `n - 1`; properties of these values are proved by `UpTo`, induction
for the *set* of the numbers that have a property, which comes from the well-foundedness of
the natural numbers. The induction theorems of the library take the property as an operator,
which the provers cannot instantiate; as a set they can.

## 6. What is only model-checked
* Liveness (`Answered`, `ClosedInTheEnd`, `TransferEnds`, `GoneReaderClosed`,
  `WaitingServed`, `StopEnds`), out of reach of the prover, as is `ENABLED`.

Every safety property and every action property that a run shows to hold is proved;
`ObeysFirstWords` for names that do not begin with a verb, the others without condition.

## 7. Plan

Done: `MaildropAbs`, `Maildrop`, `Session`, `UserTableAbs`, `Users`, `Manager`,
`ManagerParser`, `ByteQueue`, `Buffer`, `MailTransfer`, `Parser`, `Selector`, `Server`,
their runs, and the proofs of section 5.

Next: the fairness assumptions as lemmas about what each handler enables, once a prover
takes `ENABLED`.

## 8. Not modelled, and why
* `args.c`, `socket_setup.c`, `netutils.c`, `logger.c`: run once or format text; nothing in
  them interleaves or persists.
* `manager_client.c`: a loop that sends a line and waits; its datagrams are those `Manager`
  receives.
* The blocking jobs of the selector, and the block and departure hooks of the state machine:
  nothing in the program uses them.
* Out-of-memory paths, and errors of `pselect` itself.
* What is undefined behaviour in the code: a maildir with `MAX_EMAILS` files or more
  (`pop3file.c:105`), an error while reading an open mail file (`pop3file.c:41`), an empty
  datagram or one that begins with a zero byte (`manager_handler.c:79`). They are listed
  among the hazards.
* The text of answers, which the code never tests; the CAPA, HIST, CONC and TRANS answers of
  the manager, which only print what `Server` counts.
* More than one process on one maildir, and permissions that change under the server.
