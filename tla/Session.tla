------------------------------ MODULE Session ------------------------------
(***************************************************************************)
(* One POP3 connection as the event loop drives it (pop3.c, stm.c,         *)
(* main.c): read and write events of the selector, the two buffers, the    *)
(* state machine whose states say which handler an event goes to, and the  *)
(* answers that take several events (LIST, RETR).  A handler runs to its   *)
(* end, the command it parses included, before the next event.             *)
(*                                                                         *)
(* The input is a sequence of halves of command lines, so that a read may  *)
(* return any number of lines and end inside one.  The output is counted   *)
(* in units, two for a line, so that a send may end inside one and the     *)
(* server buffer may run full; the last unit of a line is marked, and      *)
(* that of the last line of an answer in another way.                      *)
(***************************************************************************)
EXTENDS Maildrop

CONSTANTS
    Lines,      \* the commands each peer sends
    Ahead,      \* commands each peer sends before it has read their answers
    Room,       \* units the server buffer holds (BUFFER_SIZE)
    MaxBlock,   \* units a block of a mail file may become once escaped
    MaxBlocks   \* blocks a mail file may have

(* BUFFER_SIZE is far longer than any line the server writes; the blocks   *)
(* of a file are not, once escaped.                                        *)
ASSUME SessionAssumption ==
    /\ Lines \in [Client -> SUBSET Command]
    /\ Ahead \in [Client -> Nat \ {0}] /\ Room \in Nat /\ Room > 2
    /\ MaxBlock \in 1 .. Room /\ MaxBlocks \in Nat

VARIABLES
    conn,    \* conn[c]: the fields of struct Client the event loop uses
    peer,    \* peer[c]: the other end of the connection and what is on its way
    server   \* "up", or why the process aborted

sessionVars == <<client, dir, reply, conn, peer, server>>

Writers == {"WRITE", "WRITE_FILE", "WRITE_LIST"}
Half    == <<"half", NULL>>   \* the first half of a line; its end is the command
Closed  == -1                 \* blocks left, of a file that is not open

(* A line of the output that is followed by more, and the last one of an   *)
(* answer; a block of a mail file has no ends that matter.                 *)
PartLine    == <<"cut", "part">>
LastLine    == <<"cut", "end">>
Block(size) == [i \in 1 .. size |-> "cut"]

(* serverBuffer is what lies between the pointers read and write, read     *)
(* being the offset of the first.  lastFileList is the slot a listing goes *)
(* on with, 0 when there is none (the -1 of the code).                     *)
NoConn == [stm |-> "NONE", interest |-> "OP_NOOP", clientBuffer |-> <<>>,
           serverBuffer |-> <<>>, read |-> 0, lastFileList |-> 0, activeFile |-> 0,
           fileDoneReading |-> FALSE, blocks |-> Closed]

(* inq is on its way to the server; owed counts the answers the peer is    *)
(* waiting for, the greeting included; got counts the lines it has of the  *)
(* answer it is reading; eof says it has nothing more to send.             *)
NoPeer == [inq |-> <<>>, owed |-> 0, got |-> 0, eof |-> FALSE]

Up(c) == server = "up" /\ conn[c].stm # "NONE"

-----------------------------------------------------------------------------
(* The server buffer (buffer.c). *)

Written(k) == k.read + Len(k.serverBuffer)
CanWrite(k) == Written(k) < Room
Put(k, units) == [k EXCEPT !.serverBuffer = @ \o units]

Sent_all(k, n) == [k EXCEPT !.serverBuffer = <<>>, !.read = 0]
                               \* mutant: a short send is taken for a whole one
Sent_noCompact(k, n) == [k EXCEPT !.serverBuffer = SubSeq(@, n + 1, Len(@)),
                                  !.read = @ + n]       \* mutant

(* buffer_read_adv goes back to the start only once all has been sent. *)
Sent(k, n) == [k EXCEPT !.serverBuffer = SubSeq(@, n + 1, Len(@)),
                        !.read = IF n = Len(k.serverBuffer) THEN 0 ELSE @ + n]

Count(s, x) == Cardinality({i \in DOMAIN s : s[i] = x})

Received(p, units) ==
    LET ends == Count(units, "end")
    IN  [p EXCEPT !.owed = @ - ends,
                  !.got = IF ends > 0 THEN 0 ELSE @ + Count(units, "part")]

(* buffer_write_adv asserts that the buffer holds what was written. *)
Become(c, k) == /\ conn' = [conn EXCEPT ![c] = k]
                /\ server' = IF Written(k) <= Room THEN "up" ELSE "overrun"

Close(c) == /\ closeConnection(c)
            /\ conn' = [conn EXCEPT ![c] = NoConn]
            /\ peer' = [peer EXCEPT ![c] = NoPeer]
            /\ UNCHANGED server

(* send: the first n units go out, and the peer reads them. *)
Delivered(c, n) ==
    peer' = [peer EXCEPT ![c] = Received(@, SubSeq(conn[c].serverBuffer, 1, n))]

-----------------------------------------------------------------------------
(* Parsing and executing a command. *)

AfterCommand_keepDone(k, a) ==   \* mutant: handleRetr leaves fileDoneReading
    LET b == [k EXCEPT !.stm = a.st, !.interest = "OP_WRITE"]
    IN  CASE a.st = "WRITE_LIST" -> Put([b EXCEPT !.lastFileList = 1], PartLine)
          [] a.st = "WRITE_FILE" -> Put([b EXCEPT !.activeFile = a.arg[1]], PartLine)
          [] OTHER -> Put(b, LastLine)

(* What a command leaves in the connection: the first line of its answer,  *)
(* which is the last one too unless a listing or a file follows.  Arriving *)
(* in ERROR_STATE calls pop3Error, which writes a line of its own.         *)
AfterCommand(k, a) ==
    LET b == [k EXCEPT !.stm = a.st, !.interest = "OP_WRITE"]
    IN  CASE a.st = "WRITE_LIST" -> Put([b EXCEPT !.lastFileList = 1], PartLine)
          [] a.st = "WRITE_FILE" -> Put([b EXCEPT !.activeFile = a.arg[1],
                                                  !.fileDoneReading = FALSE],
                                        PartLine)
          [] OTHER -> Put(b, LastLine)

(* pop3cmd_consume stops at the end of a line. *)
Unconsumed_none(s, i) == <<>>   \* mutant: the buffer is read to its end
Unconsumed(s, i) == SubSeq(s, i + 1, Len(s))

(* The line up to the first end is consumed and executed; an unfinished    *)
(* line stays in the parser and nothing else changes.                      *)
parseCommandInBuffer(c, k) ==
    LET ends == {i \in DOMAIN k.clientBuffer : k.clientBuffer[i] # Half}
    IN  \/ /\ ends = {}
           /\ Become(c, [k EXCEPT !.stm = "READ", !.clientBuffer = <<>>])
           /\ UNCHANGED maildropVars
        \/ /\ ends # {}
           /\ LET i   == Min(ends)
                  cmd == k.clientBuffer[i]
                  rest == Unconsumed(k.clientBuffer, i)
              IN  /\ executeCommand(c, cmd[1], cmd[2])
                  /\ Become(c, AfterCommand([k EXCEPT !.clientBuffer = rest], reply'))

SignedOff_never(c) == FALSE   \* mutant: CLOSED is not looked at
SignedOff(c) == client[c].state = "CLOSED"

BackToRead_noInterest(k) == [k EXCEPT !.stm = "READ"]   \* mutant
BackToRead(k) == [k EXCEPT !.stm = "READ", !.interest = "OP_READ"]

pop3ReadCommand(c) ==
    \E n \in 0 .. Len(peer[c].inq) :
       LET inq  == peer[c].inq
           k    == [conn[c] EXCEPT
                      !.clientBuffer = @ \o SubSeq(inq, 1, n),
                      !.interest = IF conn[c].serverBuffer = <<>> THEN @ ELSE "OP_WRITE"]
           over == SignedOff(c) \/ k.clientBuffer = <<>>
       IN  /\ n > 0 \/ (inq = <<>> /\ peer[c].eof)
           /\ \/ over /\ Close(c)
              \/ /\ ~over
                 /\ peer' = [peer EXCEPT ![c].inq = SubSeq(inq, n + 1, Len(inq))]
                 /\ parseCommandInBuffer(c, k)

(* What is left of the input is parsed before CLOSED is looked at. *)
pop3WriteCommand(c) ==
    \E n \in 1 .. Len(conn[c].serverBuffer) :
       LET k    == Sent(conn[c], n)
           done == k.serverBuffer = <<>>
           more == k.clientBuffer # <<>>
           Keep(r) == Delivered(c, n) /\ Become(c, r) /\ UNCHANGED maildropVars
       IN  \/ ~done /\ Keep(k)
           \/ done /\ more /\ Delivered(c, n) /\ parseCommandInBuffer(c, k)
           \/ done /\ ~more /\ SignedOff(c) /\ Close(c)
           \/ done /\ ~more /\ ~SignedOff(c) /\ Keep(BackToRead(k))

-----------------------------------------------------------------------------
(* RETR. *)

(* What read_first_line_file may find: the rest of the open file, or, when *)
(* it has to open it, a file of some length or no file any more.           *)
BlocksLeft(c, k) ==
    IF k.blocks # Closed THEN {k.blocks}
    ELSE IF client[c].files[k.activeFile] \in dir[client[c].name]
         THEN 0 .. MaxBlocks ELSE {0}

EndOfFile_again(k) == Put([k EXCEPT !.blocks = Closed], LastLine)       \* mutant
EndOfFile_leaveOpen(k) == Put([k EXCEPT !.fileDoneReading = TRUE], LastLine)  \* mutant
EndOfFile_silent(k) ==                                                      \* mutant
    [k EXCEPT !.fileDoneReading = TRUE, !.blocks = Closed]

(* The file is closed and the terminator written, also when it could not   *)
(* be opened.                                                              *)
EndOfFile(k) ==
    Put([k EXCEPT !.fileDoneReading = TRUE, !.blocks = Closed], LastLine)

(* One block goes into the buffer, as much of it as there is room for. *)
pop3ReadFile(c, k) ==
    \E left \in BlocksLeft(c, k) :
       \/ left = 0 /\ Become(c, EndOfFile(k))
       \/ \E size \in 1 .. MaxBlock :
             LET fits == Min({size, Room - Written(k)})
             IN  /\ left > 0
                 /\ Become(c, Put([k EXCEPT !.blocks = left - 1],
                                  Block(fits)))

(* The next thing to do is looked for with the buffer empty, but also when *)
(* a short send leaves a full buffer full.                                 *)
pop3WriteFile(c) ==
    LET Go(k) ==
          \/ ~k.fileDoneReading /\ pop3ReadFile(c, k)
          \/ k.fileDoneReading /\ Become(c, BackToRead(k))
    IN  /\ UNCHANGED maildropVars
        /\ \/ /\ conn[c].serverBuffer = <<>>
              /\ Go(conn[c])
              /\ UNCHANGED peer
           \/ \E n \in 1 .. Len(conn[c].serverBuffer) :
                 LET k == Sent(conn[c], n)
                 IN  /\ Delivered(c, n)
                     /\ \/ CanWrite(k) /\ Become(c, k)
                        \/ ~CanWrite(k) /\ Go(k)

-----------------------------------------------------------------------------
(* LIST. *)

(* Mutants: the cursor is not reset, or does not move. *)
pop3ReadList_keepCursor(c, k) ==
    LET todo == {i \in Active(c) : i >= k.lastFileList}
    IN  IF todo = {}
        THEN Put([k EXCEPT !.stm = "WRITE"], LastLine)
        ELSE Put([k EXCEPT !.lastFileList = Min(todo) + 1], PartLine)

pop3ReadList_repeat(c, k) ==
    LET todo == {i \in Active(c) : i >= k.lastFileList}
    IN  IF todo = {}
        THEN Put([k EXCEPT !.stm = "WRITE", !.lastFileList = 0], LastLine)
        ELSE Put([k EXCEPT !.lastFileList = Min(todo)], PartLine)

(* One entry, the next that is not marked, or the terminator. *)
pop3ReadList(c, k) ==
    LET todo == {i \in Active(c) : i >= k.lastFileList}
    IN  IF todo = {}
        THEN Put([k EXCEPT !.stm = "WRITE", !.lastFileList = 0], LastLine)
        ELSE Put([k EXCEPT !.lastFileList = Min(todo) + 1], PartLine)

pop3WriteList(c) ==
    \E n \in 1 .. Len(conn[c].serverBuffer) :
       LET k == Sent(conn[c], n)
       IN  /\ Delivered(c, n)
           /\ Become(c, IF k.serverBuffer = <<>> THEN pop3ReadList(c, k) ELSE k)
           /\ UNCHANGED maildropVars

-----------------------------------------------------------------------------
(* The event loop and the world. *)

Accept(c) ==
    /\ server = "up"
    /\ pop3_handle_connection(c)
    /\ conn' = [conn EXCEPT ![c] = [NoConn EXCEPT !.stm = "WRITE",
                                                  !.interest = "OP_WRITE",
                                                  !.serverBuffer = LastLine]]
    /\ peer' = [peer EXCEPT ![c].owed = 1]
    /\ UNCHANGED server

(* An event for which the state has no handler aborts the process. *)
HasHandler(k) == CASE k.interest = "OP_READ"  -> k.stm = "READ"
                   [] k.interest = "OP_WRITE" -> k.stm \in Writers
                   [] OTHER -> TRUE

stm_abort(c) ==
    /\ Up(c) /\ ~HasHandler(conn[c])
    /\ server' = "no_handler"
    /\ UNCHANGED <<maildropVars, conn, peer>>

pop3Read(c) == /\ Up(c) /\ HasHandler(conn[c]) /\ conn[c].stm = "READ"
               /\ pop3ReadCommand(c)

pop3Write(c) == /\ Up(c) /\ HasHandler(conn[c])
                /\ \/ conn[c].stm = "WRITE" /\ pop3WriteCommand(c)
                   \/ conn[c].stm = "WRITE_FILE" /\ pop3WriteFile(c)
                   \/ conn[c].stm = "WRITE_LIST" /\ pop3WriteList(c)

handle_iteration(c) == pop3Read(c) \/ pop3Write(c) \/ stm_abort(c)

(* The peer sends a command, or tells that it will send no more. *)
PeerSend(c, cmd) ==
    /\ Up(c) /\ ~peer[c].eof /\ peer[c].owed < Ahead[c]
    /\ peer' = [peer EXCEPT ![c].inq = @ \o <<Half, cmd>>, ![c].owed = @ + 1]
    /\ UNCHANGED <<maildropVars, conn, server>>

PeerShutdown(c) ==
    /\ Up(c) /\ ~peer[c].eof
    /\ peer' = [peer EXCEPT ![c].eof = TRUE]
    /\ UNCHANGED <<maildropVars, conn, server>>

(* SIGTERM, and the server started again. *)
Stop == /\ server = "up"
        /\ sigterm_handler
        /\ conn' = [c \in Client |-> NoConn]
        /\ peer' = [c \in Client |-> NoPeer]
        /\ UNCHANGED server

SessionInit == /\ Init
               /\ conn = [c \in Client |-> NoConn]
               /\ peer = [c \in Client |-> NoPeer]
               /\ server = "up"

SessionNext ==
    \/ \E c \in Client : \/ Accept(c)
                         \/ handle_iteration(c)
                         \/ \E cmd \in Lines[c] : PeerSend(c, cmd)
                         \/ PeerShutdown(c)
    \/ \E u \in User, m \in Msg :
          server = "up" /\ Deliver(u, m) /\ UNCHANGED <<conn, peer, server>>
    \/ Stop

SessionSpec == SessionInit /\ [][SessionNext]_sessionVars

(* pselect reports every ready descriptor and handle_iteration serves each *)
(* of them in the same round; peers read what they are sent.               *)
SessionFairness == \A c \in Client : WF_sessionVars(handle_iteration(c))
FairSessionSpec == SessionSpec /\ SessionFairness

-----------------------------------------------------------------------------
(* Types. *)
Unit == {"cut", "part", "end"}
Conn == [stm : Writers \cup {"NONE", "READ", "ERROR_STATE"},
         interest : {"OP_NOOP", "OP_READ", "OP_WRITE"},
         clientBuffer : Seq(Command \cup {Half}), serverBuffer : Seq(Unit),
         read : 0 .. Room, lastFileList : 0 .. MAX_EMAILS,
         activeFile : 0 .. MAX_EMAILS, fileDoneReading : BOOLEAN,
         blocks : {Closed} \cup 0 .. MaxBlocks]
Peer == [inq : Seq(Command \cup {Half}), owed : Nat, got : Nat, eof : BOOLEAN]

(* Every field keeps its type; in particular no answer is sent that no     *)
(* command asked for (owed never falls below zero).                        *)
SessionTypeOK == /\ conn \in [Client -> Conn]
                 /\ peer \in [Client -> Peer]
                 /\ \A c \in Client : peer[c].owed <= Ahead[c]
                 /\ server \in {"up", "no_handler", "overrun"}

Ends(s)     == Len(s) - Count(s, Half)

(* Every command sent is in exactly one place until its answer is out: on  *)
(* its way, in the client buffer, being answered over several events, or   *)
(* with its last line in the server buffer.  So no answer is lost, given   *)
(* twice, or given before the end of the one before it, whatever way the   *)
(* input is cut and the sends are short (pop3.c, all handlers).            *)
AnswersConserved == server # "overrun" => \A c \in Client :
    LET k == conn[c]
        answering == k.stm = "WRITE_LIST"
                     \/ (k.stm = "WRITE_FILE" /\ ~k.fileDoneReading)
    IN  peer[c].owed = Ends(peer[c].inq) + Ends(k.clientBuffer)
                       + Count(k.serverBuffer, "end")
                       + (IF answering THEN 1 ELSE 0)

(* While a listing is sent, what the peer has of it, what is in the buffer *)
(* and what the cursor has still to visit are together the header and one  *)
(* entry for each message the header counted: short sends neither repeat   *)
(* nor skip an entry (pop3ReadList, pop3WriteList).  Like the one before,  *)
(* this is promised up to a step that overruns the buffer.                 *)
ListingProgress == server # "overrun" => \A c \in Client :
    conn[c].stm = "WRITE_LIST"
        => peer[c].got + Count(conn[c].serverBuffer, "part")
             + Cardinality({i \in Active(c) : i >= conn[c].lastFileList})
           = 1 + Cardinality(Active(c))

(* An answer of several events works on the session that began it: the     *)
(* message being sent is still listed and not marked, and a listing cursor *)
(* or an open file is never left over for the next command to trip on.     *)
AnswerInProgress == \A c \in Client :
    LET k == conn[c]
    IN  /\ k.stm \in {"WRITE_FILE", "WRITE_LIST"} => client[c].state = "TRANSACTION"
        /\ k.stm = "WRITE_FILE" => k.activeFile \in Active(c)
        /\ k.stm # "WRITE_FILE" \/ k.fileDoneReading => k.blocks = Closed
        /\ k.lastFileList # 0 <=> k.stm = "WRITE_LIST"

(* The assertion of stm.c:58-60 and 70-72: an event finds a handler. *)
EveryEventHasHandler == server # "no_handler"

(* A peer that waits for each answer never makes the state machine abort:  *)
(* its state and its interest agree at every event, however its input is   *)
(* cut, whatever files fill its buffer, and though other peers pipeline.   *)
LockstepHandled == \A c \in Client : Ahead[c] = 1 => HasHandler(conn[c])

(* The assertion of buffer.c:55 fails for one reason only: a mail file     *)
(* filled the buffer, and the handler went on to the end of that file      *)
(* without the buffer having been sent.  No answer and no listing starts   *)
(* behind something that is still to be sent (pop3.c, all handlers).       *)
FilledByFile(k) ==
    k.stm = "WRITE_FILE" /\ ~k.fileDoneReading /\ Written(k) = Room
OverrunOnlyByFile == [][
    server' = "overrun" /\ server # "overrun"
        => \E c \in Client : FilledByFile(conn[c]) /\ conn'[c].fileDoneReading
    ]_sessionVars

(* A peer that keeps reading has all its answers in the end, or the        *)
(* connection is over.                                                     *)
Answered == \A c \in Client : peer[c].owed > 0 ~> peer[c].owed = 0

(* What has been read from a peer that pipelines, as the report shows the  *)
(* server being used (section 7.2), is executed in the end, while the      *)
(* server is up.                                                           *)
PipelinedExecuted == \A c \in Client :
    conn[c].clientBuffer # <<>> ~> (conn[c].clientBuffer = <<>> \/ server # "up")

(* A connection whose peer has nothing more to send, or that has said QUIT,*)
(* is closed in the end: both ways into CLOSE_STATE are taken in time.     *)
ClosedInTheEnd == \A c \in Client :
    (peer[c].eof \/ client[c].state = "CLOSED") ~> conn[c].stm = "NONE"
=============================================================================
