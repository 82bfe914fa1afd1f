------------------------------ MODULE Manager ------------------------------
(***************************************************************************)
(* The management service (manager_handler.c): a datagram is one command   *)
(* on the user table, the counters (metrics.c, in Server) or the server    *)
(* itself.  Sessions log in between datagrams and read the table that the  *)
(* manager changes.                                                        *)
(***************************************************************************)
EXTENDS Users, ManagerParser

CONSTANTS
    Datagram,  \* what managers send
    PAGE       \* users in an answer to USERS

Token == UNION {Range(d) : d \in Datagram}

(* Part i of a word cut at colons, as strtok does it; empty if missing. *)
Part(w, i) == LET f == Words(w, "COLON") IN IF i <= Len(f) THEN f[i] ELSE <<>>

(* Name, Pass and OtherName have whatever a datagram can hand to users.c. *)
ASSUME ManagerAssumption ==
    /\ PAGE \in Nat \ {0} /\ Datagram \subseteq Seq(Token)
    /\ \A d \in Datagram :
          LET q == manager_parser_analyze(d)
          IN  /\ q.state = "ADD" => Part(q.arg1, 1) \in Name /\ Part(q.arg1, 2) \in Pass
              /\ q.state = "DEL" => q.arg1 \in Name \cup OtherName

(* What a datagram says, the first two words of its first line, and what   *)
(* the parser makes of it.                                                 *)
Said(d) == LET w == Words(Words(d, "LF")[1], "SP") IN SubSeq(w, 1, Min({2, Len(w)}))
Requests == {[said |-> Said(d), state |-> manager_parser_analyze(d).state,
              arg1 |-> manager_parser_analyze(d).arg1] : d \in Datagram}

VARIABLES
    done,      \* the main loop leaves after this round
    said       \* what the last datagram said

managerVars == <<usersVars, done, said>>

ManagerInit == UsersInit /\ done = FALSE /\ said = <<>>

(* A session gives its name and password, words of any length. *)
handlePass(n, p) == user_check_valid(n, p) /\ UNCHANGED <<done, said>>

-----------------------------------------------------------------------------
handleUsers_short(offset) ==   \* mutant: the loop stops one entry early
    [i \in offset .. Min({user_count, offset + PAGE - 2}) |-> users[i]]
handleUsers(offset) ==
    [i \in offset .. Min({user_count, offset + PAGE - 1}) |-> users[i]]

(* What only answers: CAPA, the metrics, USERS with an offset or without,  *)
(* and whatever is no command.                                             *)
Report == UNCHANGED <<usersVars, done>>

handleAddUser(arg) == user_add(Part(arg, 1), Part(arg, 2)) /\ UNCHANGED done

handleDeleteUser(arg) == user_remove(arg) /\ UNCHANGED done

handleStop ==
    /\ done' = TRUE
    /\ UNCHANGED usersVars

execute_manager_command(q) ==
    \/ q.state = "ADD" /\ handleAddUser(q.arg1)
    \/ q.state = "DEL" /\ handleDeleteUser(q.arg1)
    \/ q.state = "STOP" /\ handleStop
    \/ q.state \notin {"ADD", "DEL", "STOP"} /\ Report

manager_handle_connection ==
    /\ ~done
    /\ \E q \in Requests : execute_manager_command(q) /\ said' = q.said

ManagerNext ==
    \/ \E n \in Name \cup OtherName, p \in Pass \cup OtherPass : handlePass(n, p)
    \/ manager_handle_connection

ManagerSpec == ManagerInit /\ [][ManagerNext]_managerVars

-----------------------------------------------------------------------------
(* Asking USERS for 1, 1 + PAGE and so on shows every user once.           *)
PagesCoverTable ==
    LET Page(k) == DOMAIN handleUsers(1 + PAGE * k)
        asked   == {k \in 0 .. user_count : 1 + PAGE * k <= user_count}
    IN  /\ UNION {Page(k) : k \in asked} = InUse
        /\ \A k, l \in asked : k # l => Page(k) \cap Page(l) = {}

(* No name that is added begins with a verb. *)
NoVerbNames == \A n \in Name : n # <<>> => n[1] \notin Verb

(* The users change, and the server stops, only by a datagram whose first  *)
(* word says so, and the user is the one its first argument names; whatever*)
(* else is on the line or on lines after it (manager_parser.c:54-97).  This*)
(* is for NoVerbNames only: the parser begins no new word at the end of a  *)
(* line, so that a verb alone on its line begins the next word, and        *)
(* "DEL\nann " is a request to remove a user DELann.                       *)
ObeysFirstWords ==
    [][/\ done' # done => said'[1] = <<"STOP">>
       /\ user_count' > user_count =>
             /\ said'[1] = <<"ADD">>
             /\ users'[user_count'].name = Part(said'[2], 1)
       /\ user_count' < user_count => said'[1] = <<"DEL">> /\ result'[2] = said'[2]
      ]_managerVars
=============================================================================
