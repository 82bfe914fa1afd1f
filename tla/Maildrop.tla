------------------------------ MODULE Maildrop ------------------------------
(***************************************************************************)
(* The POP3 command layer: the session state a client owns (struct Client, *)
(* pop3.h), the handlers of command_handler.c, and the maildir they act on *)
(* (pop3file.c).  A command is executed whole, as executeCommand does in   *)
(* the single thread of the server; sessions of several clients on the     *)
(* same maildir interleave between commands, mail is delivered from        *)
(* outside at any time, and SIGTERM may stop the server in the middle of a *)
(* QUIT.                                                                   *)
(***************************************************************************)
EXTENDS Integers, FiniteSets, SequencesExt

CONSTANTS
    Client,      \* client connections
    User,        \* user names a client may give
    Msg,         \* names a mail file may have
    Octets,      \* Octets[S]: the octets of the files in S together
    HasDir,      \* the users whose directory exists below the -d directory
    MAX_EMAILS,  \* slots of the files array of a client
    NULL         \* no user name

(* populate_array writes one slot more than the maildir has files, without *)
(* a bound of its own: the maildirs are assumed to leave that slot free.   *)
ASSUME MaildropAssumption ==
    /\ IsFiniteSet(Client) /\ IsFiniteSet(Msg)
    /\ Octets \in [SUBSET Msg -> Nat]
    /\ \A S, T \in SUBSET Msg :
          S \cap T = {} => Octets[S \cup T] = Octets[S] + Octets[T]
    /\ HasDir \subseteq User
    /\ MAX_EMAILS \in Nat /\ Cardinality(Msg) < MAX_EMAILS
    /\ NULL \notin User

VARIABLES
    client,   \* client[c]: the fields of struct Client the commands use
    dir,      \* dir[u]: the files in the directory of user u
    reply     \* what the command executed last answered

maildropVars == <<client, dir, reply>>

State  == {"NONE", "AUTHORIZATION", "TRANSACTION", "UPDATE", "CLOSED"}
Return == {"WRITE", "WRITE_FILE", "WRITE_LIST", "ERROR_STATE"}

(* What a handler leaves behind for the connection: the state it returns,  *)
(* whether the line it writes begins with +OK, and the numbers in it.      *)
Answer(st, ok, arg) == [st |-> st, ok |-> ok, arg |-> arg]
NoAnswer == Answer("WRITE", TRUE, <<>>)
OK(arg)  == Answer("WRITE", TRUE, arg)
ERR      == Answer("WRITE", FALSE, <<>>)

(* files[i], i counted from 1 as file_id is; to_delete is the set of the   *)
(* marked slots; listed says that files[0].file_id is no longer the 0 of   *)
(* calloc.  "NONE" stands for a client with no struct allocated.           *)
NoClient == [state |-> "NONE", name |-> NULL, files |-> <<>>,
             listed |-> FALSE, to_delete |-> {}, file_cant |-> 0, active_file_cant |-> 0,
             active_file_size |-> 0]

(* The files in the slots of S. *)
FilesAt(c, S) == {client[c].files[i] : i \in S}

Init == /\ client = [c \in Client |-> NoClient]
        /\ dir \in [User -> SUBSET Msg]
        /\ \A u \in User \ HasDir : dir[u] = {}
        /\ reply = NoAnswer

-----------------------------------------------------------------------------
(* Accepting and closing a connection. *)

pop3_handle_connection(c) ==
    /\ client[c].state = "NONE"
    /\ client' = [client EXCEPT ![c].state = "AUTHORIZATION"]
    /\ reply' = NoAnswer
    /\ UNCHANGED dir

(* Mutant: a connection that ends removes what was marked, as QUIT does. *)
closeConnection_update(c) ==
    /\ client[c].state # "NONE"
    /\ client' = [client EXCEPT ![c] = NoClient]
    /\ reply' = NoAnswer
    /\ dir' = IF client[c].state # "TRANSACTION" THEN dir
              ELSE [dir EXCEPT ![client[c].name] = @ \ FilesAt(c, client[c].to_delete)]

closeConnection(c) ==
    /\ client[c].state # "NONE"
    /\ client' = [client EXCEPT ![c] = NoClient]
    /\ reply' = NoAnswer
    /\ UNCHANGED dir

-----------------------------------------------------------------------------
(* Commands of the AUTHORIZATION state, which UPDATE shares. *)

handleQuitNonAuth(c) ==
    /\ client' = [client EXCEPT ![c].state = "CLOSED"]
    /\ reply' = OK(<<>>)
    /\ UNCHANGED dir

handleUser(c, u) ==
    /\ client' = [client EXCEPT ![c].name = u]
    /\ reply' = OK(<<>>)
    /\ UNCHANGED dir

(* The listing of a maildir, in whatever order readdir returns it. *)
populate_array_keepMarks(rec, listing) ==   \* mutant: line 99 missing
    [rec EXCEPT !.files = listing, !.listed = TRUE,
                !.file_cant = Len(listing), !.active_file_cant = Len(listing),
                !.active_file_size = Octets[Range(listing)]]

populate_array(rec, listing) ==
    [rec EXCEPT !.files = listing, !.listed = TRUE, !.to_delete = {},
                !.file_cant = Len(listing), !.active_file_cant = Len(listing),
                !.active_file_size = Octets[Range(listing)]]

(* valid is the answer of user_check_valid: the user table changes under   *)
(* the manager's commands at any time.  When opendir fails populate_array  *)
(* changes nothing and its result is ignored.                              *)
handlePass(c, valid) ==
    LET u   == client[c].name
        rec == [client[c] EXCEPT !.state = "TRANSACTION"]
    IN  /\ UNCHANGED dir
        /\ \/ /\ u = NULL
              /\ reply' = ERR
              /\ UNCHANGED client
           \/ /\ u # NULL /\ ~valid
              /\ reply' = ERR
              /\ client' = [client EXCEPT ![c].name = NULL]
           \/ /\ u \in HasDir /\ valid
              /\ reply' = OK(<<>>)
              /\ \E listing \in SetToSeqs(dir[u]) :
                    client' = [client EXCEPT ![c] = populate_array(rec, listing)]
           \/ /\ u \in User \ HasDir /\ valid
              /\ reply' = OK(<<>>)
              /\ client' = [client EXCEPT ![c] = rec]

-----------------------------------------------------------------------------
(* Commands of the TRANSACTION state. *)

Slots(c) == 1 .. client[c].file_cant
Marked(c) == client[c].to_delete
Active_all(c) == Slots(c)   \* mutant: to_delete is not looked at
Active(c) == Slots(c) \ Marked(c)

(* The bound of the loop of handleQuitAuth shrinks with every removal, so  *)
(* slot i is looked at only if i is within file_cant less the marked slots *)
(* before it.  The loop stops at the first file that is not there any more.*)
Reached_all(c) == Marked(c)   \* mutant: the bound does not shrink
Reached(c) ==
    {i \in Marked(c) :
        i <= client[c].file_cant - Cardinality(Marked(c) \cap 1 .. (i - 1))}
Missing(c) == {i \in Reached(c) : client[c].files[i] \notin dir[client[c].name]}
Removed(c) == {i \in Reached(c) : \A j \in Missing(c) : i < j}

(* The same loop as it is written, with the slots it has removed, the bound *)
(* it decrements, and whether a removal failed.                            *)
QuitTurn(c, q, i) ==
    IF q.failed \/ i > q.cant \/ i \notin Marked(c) THEN q
    ELSE IF client[c].files[i] \in dir[client[c].name] \ FilesAt(c, q.removed)
         THEN [removed |-> q.removed \cup {i}, cant |-> q.cant - 1, failed |-> FALSE]
         ELSE [q EXCEPT !.failed = TRUE]
QuitLoop(c) == FoldLeft(LAMBDA q, i : QuitTurn(c, q, i),
                        [removed |-> {}, cant |-> client[c].file_cant, failed |-> FALSE],
                        [i \in Slots(c) |-> i])

DirWithout(c, S) == [dir EXCEPT ![client[c].name] = @ \ FilesAt(c, S)]

(* Mutant: the session goes on after a QUIT that failed. *)
handleQuitAuth_goesOn(c) ==
    LET left == client[c].file_cant - Cardinality(Removed(c))
        Leave(st) == client' = [client EXCEPT ![c].state = st,
                                              ![c].file_cant = left]
    IN  /\ dir' = DirWithout(c, Removed(c))
        /\ \/ Missing(c) # {} /\ Leave("TRANSACTION") /\ reply' = ERR
           \/ Missing(c) = {} /\ Leave("CLOSED") /\ reply' = OK(<<left>>)

(* Mutant: every marked message is counted as removed. *)
handleQuitAuth_countsMarks(c) ==
    LET left == client[c].file_cant - Cardinality(Marked(c))
        Leave(st) == client' = [client EXCEPT ![c].state = st,
                                              ![c].file_cant = left]
    IN  /\ dir' = DirWithout(c, Removed(c))
        /\ \/ Missing(c) # {} /\ Leave("UPDATE") /\ reply' = ERR
           \/ Missing(c) = {} /\ Leave("CLOSED") /\ reply' = OK(<<left>>)

handleQuitAuth(c) ==
    LET left == client[c].file_cant - Cardinality(Removed(c))
        Leave(st) == client' = [client EXCEPT ![c].state = st,
                                              ![c].file_cant = left]
    IN  /\ dir' = DirWithout(c, Removed(c))
        /\ \/ Missing(c) # {} /\ Leave("UPDATE") /\ reply' = ERR
           \/ Missing(c) = {} /\ Leave("CLOSED") /\ reply' = OK(<<left>>)

(* A command that only answers. *)
answer(a) == reply' = a /\ UNCHANGED <<client, dir>>

handleStat(c) ==
    answer(OK(<<client[c].active_file_cant, client[c].active_file_size>>))

(* The first line of a listing; the rest is sent entry by entry by the     *)
(* connection.                                                             *)
pop3ReadListHeader(c) ==
    answer(Answer("WRITE_LIST", TRUE, <<Cardinality(Active(c))>>))

OctetsOf(c, n) == Octets[FilesAt(c, {n})]

handleList(c, n) ==
    \/ ~client[c].listed /\ answer(ERR)
    \/ client[c].listed /\ n = NULL /\ pop3ReadListHeader(c)
    \/ client[c].listed /\ n \in Active(c) /\ answer(OK(<<n, OctetsOf(c, n)>>))
    \/ client[c].listed /\ n \in Nat \ Active(c) /\ answer(ERR)

handleRetr(c, n) ==
    \/ /\ n \in Active(c)
       /\ answer(Answer("WRITE_FILE", TRUE, <<n, OctetsOf(c, n)>>))
    \/ n \notin Active(c) /\ answer(ERR)

handleDele(c, n) ==
    \/ /\ n \in Active(c)
       /\ client' = [client EXCEPT ![c].to_delete = @ \cup {n},
                                   ![c].active_file_cant = @ - 1,
                                   ![c].active_file_size = @ - OctetsOf(c, n)]
       /\ reply' = OK(<<n>>)
       /\ UNCHANGED dir
    \/ n \notin Active(c) /\ answer(ERR)

handleNoop == answer(OK(<<>>))

handleRset(c) ==
    LET back  == Slots(c) \cap Marked(c)
        count == client[c].active_file_cant + Cardinality(back)
        size  == client[c].active_file_size + Octets[FilesAt(c, back)]
    IN  /\ client' = [client EXCEPT ![c].to_delete = @ \ back,
                                    ![c].active_file_cant = count,
                                    ![c].active_file_size = size]
        /\ reply' = OK(<<count, size>>)
        /\ UNCHANGED dir

handleCapa == answer(OK(<<>>))

-----------------------------------------------------------------------------
(* executeCommand looks the verb up in the table of the client's state.    *)

nonAuthTable(c, verb, arg) ==
    \/ verb = "QUIT" /\ handleQuitNonAuth(c)
    \/ verb = "USER" /\ handleUser(c, arg)
    \/ verb = "PASS" /\ \E valid \in BOOLEAN : handlePass(c, valid)
    \/ verb = "CAPA" /\ handleCapa

authTable(c, verb, arg) ==
    \/ verb = "QUIT" /\ handleQuitAuth(c)
    \/ verb = "STAT" /\ handleStat(c)
    \/ verb = "LIST" /\ handleList(c, arg)
    \/ verb = "RETR" /\ handleRetr(c, arg)
    \/ verb = "DELE" /\ handleDele(c, arg)
    \/ verb = "NOOP" /\ handleNoop
    \/ verb = "RSET" /\ handleRset(c)
    \/ verb = "CAPA" /\ handleCapa

(* The verbs of the table of a state; CLOSED has no table at all. *)
getTable(st) ==
    CASE st \in {"AUTHORIZATION", "UPDATE"} -> {"QUIT", "USER", "PASS", "CAPA"}
      [] st = "TRANSACTION" -> {"QUIT", "STAT", "LIST", "RETR", "DELE", "NOOP",
                                "RSET", "CAPA"}
      [] OTHER -> {}

executeCommand(c, verb, arg) ==
    LET st == client[c].state IN
    \/ /\ st = "CLOSED"
       /\ answer(Answer("ERROR_STATE", FALSE, <<>>))
    \/ /\ st \in {"AUTHORIZATION", "UPDATE"} /\ nonAuthTable(c, verb, arg)
    \/ /\ st = "TRANSACTION" /\ authTable(c, verb, arg)
    \/ /\ st \notin {"NONE", "CLOSED"} /\ verb \notin getTable(st)
       /\ answer(ERR)

(* What a client may send: a verb with its argument.  RETR and DELE number *)
(* a message; 0 stands for every number atoi can make that is no slot.     *)
(* "UIDL" stands for every line the parser accepts but no table holds, and *)
(* for the lines it rejects.                                               *)
Command == ({"USER"} \X User) \cup ({"PASS"} \X {NULL})
           \cup ({"RETR", "DELE"} \X (0 .. Cardinality(Msg)))
           \cup ({"LIST"} \X ({NULL} \cup 0 .. Cardinality(Msg)))
           \cup ({"QUIT", "STAT", "NOOP", "RSET", "CAPA", "UIDL"} \X {NULL})

-----------------------------------------------------------------------------
(* The world outside. *)

(* A mail file appears in a directory. *)
Deliver(u, m) == /\ u \in HasDir /\ m \notin dir[u]
                 /\ dir' = [dir EXCEPT ![u] = @ \cup {m}]
                 /\ reply' = NoAnswer
                 /\ UNCHANGED client

(* SIGTERM exits at once (main.c), between two commands or between two     *)
(* removals of a QUIT; the server may be started again.                    *)
sigterm_handler ==
    /\ client' = [c \in Client |-> NoClient]
    /\ reply' = NoAnswer
    /\ \/ UNCHANGED dir
       \/ \E c \in {x \in Client : client[x].state = "TRANSACTION"} :
          \E k \in Removed(c) : dir' = DirWithout(c, Removed(c) \cap 1 .. k)

ClientStep(c) == \/ pop3_handle_connection(c)
                 \/ \E cmd \in Command : executeCommand(c, cmd[1], cmd[2])
                 \/ closeConnection(c)

Next == \/ \E c \in Client : ClientStep(c)
        \/ \E u \in User, m \in Msg : Deliver(u, m)
        \/ sigterm_handler

Spec == Init /\ [][Next]_maildropVars

-----------------------------------------------------------------------------
(* Types.  The numbers of a reply are message numbers, counts or octets. *)
ClientRecord ==
    [state : State, name : User \cup {NULL}, files : Seq(Msg), listed : BOOLEAN,
     to_delete : SUBSET (1 .. MAX_EMAILS), file_cant : 0 .. MAX_EMAILS,
     active_file_cant : 0 .. MAX_EMAILS, active_file_size : Nat]

(* Every field keeps its type: in particular the unsigned counters of the  *)
(* struct never wrap below zero, whatever is marked, unmarked or re-listed,*)
(* and the listing fits the files array with its end marker.               *)
TypeOK == /\ client \in [Client -> ClientRecord]
          /\ dir \in [User -> SUBSET Msg]
          /\ reply \in [st : Return, ok : BOOLEAN, arg : Seq(Nat)]
          /\ \A c \in Client : Len(client[c].files) < MAX_EMAILS

(* The files of a listing that are not marked, reachable or not. *)
Kept(c) == DOMAIN client[c].files \ Marked(c)

(* The two counters that DELE and RSET adjust incrementally (handleDele,   *)
(* handleRset) always agree with the marks in the array they summarise,    *)
(* through failed QUITs and logins that keep an old listing.               *)
Accounting == \A c \in Client :
    /\ client[c].active_file_cant = Cardinality(Kept(c))
    /\ client[c].active_file_size = Octets[FilesAt(c, Kept(c))]

(* In a session whose maildir was listed, STAT (the counters) and LIST     *)
(* (the array up to file_cant) describe the same messages: handleQuitAuth, *)
(* which shrinks file_cant only, never leaves a session that goes on.      *)
StatAgreesWithList == \A c \in Client :
    client[c].state = "TRANSACTION" /\ client[c].name \in HasDir
        => /\ client[c].active_file_cant = Cardinality(Active(c))
           /\ client[c].active_file_size = Octets[FilesAt(c, Active(c))]

(* The number of messages left that QUIT reports is the number listed at   *)
(* login less the files this very QUIT took out of the directory, though   *)
(* the loop that removes them uses the count as its own bound.             *)
QuitCountsWhatItRemoved == [][\A c \in Client :
    client[c].state = "TRANSACTION" /\ client'[c].state = "CLOSED"
        => LET u == client[c].name
           IN  reply'.arg =
                   <<client[c].file_cant - Cardinality(dir[u] \ dir'[u])>>
    ]_maildropVars

(* What the model says of the loop of QUIT in one piece is what its turns  *)
(* come to, with every bound and whatever files are gone meanwhile: what   *)
(* is removed, the number that is reported, and whether it fails           *)
(* (command_handler.c:32-39).                                              *)
RemovedIsTheLoop == \A c \in Client :
    client[c].state = "TRANSACTION" =>
        QuitLoop(c) = [removed |-> Removed(c),
                       cant    |-> client[c].file_cant - Cardinality(Removed(c)),
                       failed  |-> Missing(c) # {}]

(* A QUIT that answers +OK has removed every message its session marked:   *)
(* the error text of command_handler.c:42-43 says when some are left.      *)
QuitRemovesMarked == [][\A c \in Client :
    client[c].state = "TRANSACTION" /\ client'[c].state = "CLOSED"
        => FilesAt(c, Marked(c)) \cap dir'[client[c].name] = {}
    ]_maildropVars

(* The command layer implements the promise of MaildropAbs: a session sees *)
(* what was there at login, and a message leaves a maildrop only when a    *)
(* session of its owner, in which it was listed and marked, signs off with *)
(* QUIT or is cut by SIGTERM during QUIT, never when it is just closed.  A *)
(* user without a directory has no maildrop, so a session of his is none.  *)
absSession == [c \in Client |->
    IF client[c].state = "TRANSACTION" /\ client[c].name \in HasDir
    THEN [phase |-> "open", user |-> client[c].name,
          seen |-> Range(client[c].files), marked |-> FilesAt(c, Marked(c))]
    ELSE [phase |-> IF client[c].state \in {"UPDATE", "CLOSED"} THEN "over" ELSE "none",
          user |-> NULL, seen |-> {}, marked |-> {}]]

Abs == INSTANCE MaildropAbs WITH box <- dir, session <- absSession
ImplementsMaildrop == Abs!Spec
=============================================================================
