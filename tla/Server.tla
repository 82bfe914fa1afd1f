------------------------------- MODULE Server -------------------------------
(***************************************************************************)
(* The life of the process (main.c, selector.c, metrics.c): the event loop *)
(* goes round the descriptors pselect reports, in their order; a new       *)
(* connection takes the lowest free descriptor, an ended one gives it      *)
(* back, mail files take theirs for a while, and STOP ends the loop.       *)
(* Descriptors may run out, connections may be reset, and peers come and   *)
(* go between any two handlers.                                            *)
(*                                                                         *)
(* What a connection says and answers is Session's; here it is reading or  *)
(* answering, and its peer waits for each answer.                          *)
(***************************************************************************)
EXTENDS Selector, Sequences, FiniteSets

CONSTANTS
    Peer,
    OPEN_MAX,           \* descriptors the process may have
    MaxConnections,     \* bound: connections of a run
    Width               \* bound: the counters of bytes wrap at Width

SELECTOR_SIZE == FD_SETSIZE     \* both are 1024

(* The first descriptors the process opens; 0 to 2 are left out. *)
server        == 0
managerSocket == 1

ASSUME ServerAssumption ==
    /\ Handler = {"passive", "manager", "pop3"} /\ Data = Peer
    /\ FD_SETSIZE > 2 /\ OPEN_MAX \in Nat /\ OPEN_MAX > 2
    /\ MaxConnections \in Nat /\ Width \in Nat \ {0}
    /\ IsFiniteSet(Peer) /\ NULL \notin Peer \cup Nat

VARIABLES
    selector,
    slave_r, slave_w,   \* reported by pselect and not visited yet
    running,            \* "up", "ended", "aborted" by an assertion, or "corrupt"
                        \* after a write past the table
    done,
    open,               \* the descriptors of the process
    conn,               \* conn[p]: the struct Client of p, or NoClient
    metrics,
    wire,               \* wire[p]: what the system knows of the connection of p
    backlog,            \* peers that wait to be accepted
    datagram            \* a datagram that waits: "none", "STOP" or "other"

loopVars == <<selector, slave_r, slave_w, running, done, open, conn, metrics>>
vars     == <<loopVars, wire, backlog, datagram>>

(* out: the server buffer has something to send; full: and has no room. *)
NoClient  == [fd |-> NULL, stm |-> "NONE", out |-> FALSE, full |-> FALSE,
              file |-> NULL, fileDoneReading |-> FALSE]
NewClient(fd) == [fd |-> fd, stm |-> "WRITE", out |-> TRUE, full |-> FALSE,
                  file |-> NULL, fileDoneReading |-> FALSE]
NoWire   == [state |-> "none", input |-> FALSE]

Connected == {p \in Peer : conn[p].stm # "NONE"}
Opened    == {p \in Peer : conn[p].file # NULL}

Free == (0 .. OPEN_MAX - 1) \ open
Lowest(fd) == fd \in Free /\ \A f \in Free : fd <= f

-----------------------------------------------------------------------------
(* The end of a connection, and an answer begun.  m is metrics as the      *)
(* handler has counted in it so far.                                       *)

closeConnection_keepFd(p, m) ==     \* mutant: the descriptor is not closed
    /\ selector' = selector_unregister_fd(selector, conn[p].fd)
    /\ conn' = [conn EXCEPT ![p] = NoClient]
    /\ metrics' = [m EXCEPT !.conc = @ - 1]
    /\ wire' = [wire EXCEPT ![p] = NoWire]
    /\ UNCHANGED open

closeConnection(p, m) ==
    /\ selector' = selector_unregister_fd(selector, conn[p].fd)
    /\ open' = open \ {conn[p].fd}
    /\ conn' = [conn EXCEPT ![p] = NoClient]
    /\ metrics' = [m EXCEPT !.conc = @ - 1]
    /\ wire' = [wire EXCEPT ![p] = NoWire]

Turn(p, stm, interest) ==
    /\ selector' = selector_set_interest(selector, conn[p].fd, interest)
    /\ conn' = [conn EXCEPT ![p].stm = stm, ![p].out = stm # "READ",
                            ![p].fileDoneReading = FALSE]

-----------------------------------------------------------------------------
(* The handlers. *)

(* accept fails when no descriptor is free, and the peer goes on waiting.  *)
(* A connection that cannot be set up, or whose descriptor is too high for *)
(* pselect, is closed at once.                                             *)
pop3_handle_connection ==
    LET p == Head(backlog)
        Refuse == /\ wire' = [wire EXCEPT ![p] = NoWire]
                  /\ UNCHANGED <<running, open, conn, metrics>>
    IN  /\ UNCHANGED <<done, datagram>>
        /\ \/ Free = {} /\ UNCHANGED <<selector, running, open, conn, metrics, wire, backlog>>
           \/ /\ backlog' = Tail(backlog)
              /\ Free # {}
              /\ UNCHANGED selector /\ Refuse
           \/ /\ backlog' = Tail(backlog)
              /\ \E fd \in Free :
                    LET r == selector_register(selector, fd, "pop3", OP_WRITE, p)
                    IN  /\ Lowest(fd)
                        /\ selector' = r.s
                        /\ \/ /\ r.status = "SUCCESS"
                              /\ open' = open \cup {fd}
                              /\ conn' = [conn EXCEPT ![p] = NewClient(fd)]
                              /\ metrics' = [metrics EXCEPT !.hist = @ + 1, !.conc = @ + 1]
                              /\ UNCHANGED <<running, wire>>
                           \/ /\ r.status = "PAST_THE_TABLE"
                              /\ running' = "corrupt"
                              /\ UNCHANGED <<open, conn, metrics, wire>>
                           \/ r.status \in {"IARGS", "FDINUSE"} /\ Refuse

manager_handle_connection ==
    /\ datagram' = "none"
    /\ done' = (done \/ datagram = "STOP")
    /\ UNCHANGED <<selector, running, open, conn, metrics, wire, backlog>>

pop3Read_ignoresEnd(p) ==     \* mutant: the end of the input closes nothing
    /\ UNCHANGED <<running, done, backlog, datagram>>
    /\ \/ /\ ~wire[p].input
          /\ UNCHANGED <<selector, open, conn, metrics, wire>>
       \/ /\ wire[p].state # "reset" /\ wire[p].input
          /\ wire' = [wire EXCEPT ![p].input = FALSE]
          /\ \E stm \in {"WRITE", "WRITE_FILE"} : Turn(p, stm, OP_WRITE)
          /\ UNCHANGED <<open, metrics>>

(* A reset is reported once, by a recv that fails; after it ("dead"), and  *)
(* after the end of the input, recv returns 0.                             *)
pop3Read(p) ==
    /\ UNCHANGED <<running, done, backlog, datagram>>
    /\ \/ /\ wire[p].state = "reset"
          /\ wire' = [wire EXCEPT ![p].state = "dead"]
          /\ UNCHANGED <<selector, open, conn, metrics>>
       \/ /\ wire[p].state # "reset" /\ ~wire[p].input
          /\ closeConnection(p, metrics)
       \/ /\ wire[p].state # "reset" /\ wire[p].input
          /\ wire' = [wire EXCEPT ![p].input = FALSE]
          /\ \/ UNCHANGED <<selector, conn>>             \* not a whole line yet
             \/ \E stm \in {"WRITE", "WRITE_FILE"} : Turn(p, stm, OP_WRITE)
          /\ UNCHANGED <<open, metrics>>

(* What send returns is added to the counter, -1 included. *)
metrics_send_bytes(ok) ==
    [metrics EXCEPT !.bytes = (@ + (IF ok THEN 1 ELSE Width - 1)) % Width]

Counted(ok) == metrics' = metrics_send_bytes(ok)

Gone(p) == wire[p].state \in {"reset", "dead"}

SendFails_closes(p) ==           \* mutant: the connection is given up
    /\ Gone(p)
    /\ closeConnection(p, metrics_send_bytes(FALSE))
    /\ UNCHANGED running

SendFails(p) == /\ Gone(p)
                /\ Counted(FALSE)
                /\ UNCHANGED <<selector, running, open, conn, wire>>

(* Part of what there is to send, or all of it: then the next line of a    *)
(* listing, the next command, or the end of the connection after QUIT.     *)
WriteCommand(p) ==
    /\ ~Gone(p)
    /\ UNCHANGED running
    /\ \/ Counted(TRUE) /\ UNCHANGED <<selector, open, conn, wire>>
       \/ Counted(TRUE) /\ Turn(p, "READ", OP_READ) /\ UNCHANGED <<open, wire>>
       \/ closeConnection(p, metrics_send_bytes(TRUE))

(* The file ends, or cannot be opened.  Its terminator has no room in a    *)
(* full buffer, which an assertion of buffer_write_adv notices.            *)
EndOfFile(p) ==
    /\ open' = open \ {conn[p].file}
    /\ \/ /\ ~conn[p].full
          /\ conn' = [conn EXCEPT ![p].file = NULL, ![p].fileDoneReading = TRUE,
                                  ![p].out = TRUE]
          /\ UNCHANGED running
       \/ /\ conn[p].full
          /\ conn' = [conn EXCEPT ![p].file = NULL]
          /\ running' = "aborted"

(* A mail file takes a descriptor from its first block to its end.  A      *)
(* block may fill the buffer, and for one that is full it is lost.         *)
pop3ReadFile(p) ==
    /\ UNCHANGED <<selector, wire>>
    /\ \/ EndOfFile(p)
       \/ \E fd \in Free \cup {conn[p].file}, full \in BOOLEAN :
             /\ IF conn[p].file = NULL THEN Lowest(fd) ELSE fd = conn[p].file
             /\ conn[p].full => full
             /\ open' = open \cup {fd}
             /\ conn' = [conn EXCEPT ![p].file = fd, ![p].out = TRUE, ![p].full = full]
             /\ UNCHANGED running

(* A full buffer that was not sent whole, or not at all, is taken for      *)
(* room: the handler goes on with the file.                                *)
pop3WriteFile(p) ==
    \/ /\ conn[p].out /\ conn[p].full
       /\ \E ok \in BOOLEAN : (ok <=> ~Gone(p)) /\ Counted(ok)
       /\ pop3ReadFile(p)
    \/ /\ conn[p].out /\ ~Gone(p)
       /\ Counted(TRUE)
       /\ conn' \in {[conn EXCEPT ![p].out = FALSE, ![p].full = FALSE]}
                     \cup {c \in {conn} : ~conn[p].full}
       /\ UNCHANGED <<selector, running, open, wire>>
    \/ /\ ~conn[p].out /\ ~conn[p].fileDoneReading
       /\ pop3ReadFile(p)
       /\ UNCHANGED metrics
    \/ /\ ~conn[p].out /\ conn[p].fileDoneReading
       /\ Turn(p, "READ", OP_READ)
       /\ UNCHANGED <<running, open, metrics, wire>>

pop3Write(p) ==
    /\ UNCHANGED <<done, backlog, datagram>>
    /\ \/ conn[p].out /\ ~conn[p].full /\ SendFails(p)
       \/ conn[p].stm = "WRITE" /\ WriteCommand(p)
       \/ conn[p].stm = "WRITE_FILE" /\ pop3WriteFile(p)

-----------------------------------------------------------------------------
(* The loop. *)

Readable == {fd \in open :
    \/ fd = server /\ backlog # <<>>
    \/ fd = managerSocket /\ datagram # "none"
    \/ \E p \in Connected : conn[p].fd = fd
          /\ (wire[p].input \/ wire[p].state # "up")}
Writable == {conn[p].fd : p \in Connected}

Round == slave_r \cup slave_w

selector_select_forever ==    \* mutant: the loop does not look at done
    /\ running = "up" /\ Round = {}
    /\ slave_r' = selector.master_r \cap Readable
    /\ slave_w' = selector.master_w \cap Writable
    /\ UNCHANGED <<selector, running, done, open, conn, metrics, wire, backlog, datagram>>

(* pselect waits until there is something to report, or its time is over;  *)
(* a round of nothing changes nothing.                                     *)
selector_select ==
    /\ running = "up" /\ ~done /\ Round = {}
    /\ slave_r' = selector.master_r \cap Readable
    /\ slave_w' = selector.master_w \cap Writable
    /\ slave_r' \cup slave_w' # {}
    /\ UNCHANGED <<selector, running, done, open, conn, metrics, wire, backlog, datagram>>

handle_read(fd) ==
    LET item == selector.fds[fd]
    IN  \/ item.handler = "passive" /\ pop3_handle_connection
        \/ item.handler = "manager" /\ manager_handle_connection
        \/ item.handler = "pop3" /\ pop3Read(item.data)

handle_write(fd) ==
    selector.fds[fd].handler = "pop3" /\ pop3Write(selector.fds[fd].data)

(* The next descriptor of the round is visited, if it is in use and still  *)
(* interested.  No descriptor is in both sets, since none is interested in *)
(* both.                                                                   *)
handle_iteration ==
    /\ running = "up"
    /\ \E fd \in Round :
          /\ \A f \in Round : fd <= f
          /\ slave_r' = slave_r \ {fd} /\ slave_w' = slave_w \ {fd}
          /\ LET Interested(i) == i \in selector.fds[fd].interest
             IN  \/ fd \in slave_r /\ Interested("r") /\ handle_read(fd)
                 \/ fd \in slave_w /\ Interested("w") /\ handle_write(fd)
                 \/ /\ fd \notin slave_r \/ ~Interested("r")
                    /\ fd \notin slave_w \/ ~Interested("w")
                    /\ UNCHANGED <<selector, running, done, open, conn, metrics,
                                   wire, backlog, datagram>>

(* STOP is looked at when the round is over.  The system closes what the   *)
(* process leaves open.                                                    *)
main_finally ==
    /\ running = "up" /\ done /\ Round = {}
    /\ running' = "ended"
    /\ UNCHANGED <<selector, slave_r, slave_w, done, open, conn, metrics, wire,
                   backlog, datagram>>

Loop == selector_select \/ handle_iteration \/ main_finally

-----------------------------------------------------------------------------
(* The peers and the manager. *)

Waiting(p) == \E i \in DOMAIN backlog : backlog[i] = p

Connect(p) ==
    /\ wire[p].state = "none" /\ conn[p].stm = "NONE" /\ ~Waiting(p)
    /\ metrics.hist + Len(backlog) < MaxConnections
    /\ backlog' = Append(backlog, p)
    /\ wire' = [wire EXCEPT ![p] = [state |-> "up", input |-> FALSE]]
    /\ UNCHANGED <<loopVars, datagram>>

(* A peer that is not being answered sends something, or shuts down its    *)
(* side.                                                                   *)
PeerSends(p) ==
    /\ wire[p].state = "up" /\ ~wire[p].input /\ conn[p].stm = "READ"
    /\ wire' = [wire EXCEPT ![p].input = TRUE]
    /\ UNCHANGED <<loopVars, backlog, datagram>>

PeerShutdown(p) ==
    /\ wire[p].state = "up"
    /\ wire' = [wire EXCEPT ![p].state = "eof"]
    /\ UNCHANGED <<loopVars, backlog, datagram>>

(* What the peer sent and was not read is lost with the connection. *)
PeerReset(p) ==
    /\ wire[p].state \in {"up", "eof"}
    /\ wire' = [wire EXCEPT ![p] = [state |-> "reset", input |-> FALSE]]
    /\ UNCHANGED <<loopVars, backlog, datagram>>

ManagerSends ==
    /\ datagram = "none"
    /\ datagram' \in {"STOP", "other"}
    /\ UNCHANGED <<loopVars, wire, backlog>>

World == \/ running = "up" /\ ManagerSends
         \/ \E p \in Peer : /\ running = "up"
                            /\ \/ Connect(p) \/ PeerSends(p)
                               \/ PeerShutdown(p) \/ PeerReset(p)

Passive_idle(s) == selector_register(s, server, "passive", OP_NOOP, NULL).s  \* mutant
Passive(s) == selector_register(s, server, "passive", OP_READ, NULL).s
Init ==
    /\ selector = selector_register(Passive(selector_new(SELECTOR_SIZE)),
                                    managerSocket, "manager", OP_READ, NULL).s
    /\ slave_r = {} /\ slave_w = {}
    /\ running = "up" /\ done = FALSE
    /\ open = {server, managerSocket}
    /\ conn = [p \in Peer |-> NoClient]
    /\ metrics = [hist |-> 0, conc |-> 0, bytes |-> 0]
    /\ wire = [p \in Peer |-> NoWire]
    /\ backlog = <<>> /\ datagram = "none"

Next == Loop \/ World

Spec == Init /\ [][Next]_vars

(* The process runs. *)
FairSpec == Spec /\ WF_vars(Loop)

-----------------------------------------------------------------------------
Client == [fd : {NULL} \cup (0 .. FD_SETSIZE - 1),
           stm : {"NONE", "READ", "WRITE", "WRITE_FILE"},
           out : BOOLEAN, full : BOOLEAN,
           file : {NULL} \cup (0 .. OPEN_MAX - 1), fileDoneReading : BOOLEAN]

(* The types, and that no registration ever writes past the table          *)
(* (selector.c:351).                                                       *)
TypeOK ==
    /\ slave_r \subseteq selector.master_r /\ slave_w \subseteq selector.master_w
    /\ running \in {"up", "ended", "aborted"}
    /\ done \in BOOLEAN
    /\ open \subseteq 0 .. OPEN_MAX - 1
    /\ conn \in [Peer -> Client]
    /\ metrics \in [hist : Nat, conc : Nat, bytes : 0 .. Width - 1]
    /\ wire \in [Peer -> [state : {"none", "up", "eof", "reset", "dead"}, input : BOOLEAN]]
    /\ backlog \in Seq(Peer)
    /\ datagram \in {"none", "STOP", "other"}

(* The table of the selector agrees with itself, and with the connections: *)
(* the items in use are the two sockets of the server and one for each     *)
(* connection, with its data and the interest its state waits for.         *)
TableAgrees ==
    /\ Consistent(selector)
    /\ Used(selector) = {server, managerSocket} \cup {conn[p].fd : p \in Connected}
    /\ \A p \in Connected :
          selector.fds[conn[p].fd] = [handler |-> "pop3", data |-> p,
             interest |-> IF conn[p].stm = "READ" THEN OP_READ ELSE OP_WRITE]

(* Every descriptor of the process is one of the two sockets, that of one  *)
(* connection, or that of the mail file it is sending; none is lost or     *)
(* shared, whatever fails, and the counters of connections are right.      *)
DescriptorsAccounted ==
    /\ open = {server, managerSocket} \cup {conn[p].fd : p \in Connected}
              \cup {conn[p].file : p \in Opened}
    /\ Cardinality(open) = 2 + Cardinality(Connected) + Cardinality(Opened)
    /\ metrics.conc = Cardinality(Connected)
    /\ Opened \subseteq {p \in Connected : conn[p].stm = "WRITE_FILE"}

(* The counter behind TRANS is the number of bytes the POP3 server has     *)
(* sent, as docs/RFC Manager Protocol - Grupo 05.txt, lines 206-208, says: *)
(* it moves only when a peer is sent something, and then by that much.     *)
BytesSent == [][metrics'.bytes # metrics.bytes =>
    \E p \in Connected : /\ conn[p].out /\ ~Gone(p)
                         /\ metrics'.bytes = (metrics.bytes + 1) % Width]_vars

(* A connection whose peer is gone while it has something to send is not   *)
(* closed, ever: it keeps its descriptors and is counted (pop3.c:98), and  *)
(* so it stays until the process ends, unless a mail that has filled the   *)
(* buffer goes on being read.                                              *)
DeadWriterStays == [][\A p \in Connected :
    conn[p].out /\ ~conn[p].full /\ Gone(p) => conn'[p] = conn[p]]_vars

(* A connection that waits for a command of a peer that has gone is closed *)
(* in the end, also when the descriptors ran out in between.               *)
GoneReaderClosed == \A p \in Peer :
    conn[p].stm = "READ" /\ ~wire[p].input /\ wire[p].state # "up"
        ~> conn[p].stm = "NONE" \/ running # "up"

(* A peer that waits is accepted or refused, unless the descriptors are    *)
(* all in use whenever its turn comes.                                     *)
WaitingServed == \A p \in Peer :
    Waiting(p) ~> ~Waiting(p) \/ Free = {} \/ running # "up"

(* STOP ends the process, however busy the round is. *)
StopEnds == done ~> running # "up"
=============================================================================
