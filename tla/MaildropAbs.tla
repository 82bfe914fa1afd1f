---------------------------- MODULE MaildropAbs ----------------------------
(***************************************************************************)
(* What a POP3 maildrop promises its users, with nothing of how the server *)
(* keeps its books.  A session opened on a user's maildrop sees the        *)
(* messages that were there when it was opened; it may mark and unmark     *)
(* them; only ending the session may expunge messages, only marked ones,   *)
(* and only from that user's maildrop.  A client that just goes away       *)
(* removes nothing.  An expunge may be partial: the program stops at the first     *)
(* message it cannot remove, and a signal may stop it half way.            *)
(***************************************************************************)
CONSTANTS Client, User, Msg, NULL

VARIABLES
    box,      \* box[u]: the messages in the maildrop of user u
    session   \* session[c]: what client c holds: no session, a session it
              \* opened, or the end of one that it has signed off

vars == <<box, session>>

Outside(ph) == [phase |-> ph, user |-> NULL, seen |-> {}, marked |-> {}]
NoSession   == Outside("none")
Over        == Outside("over")
Session     == [phase : {"none", "open", "over"}, user : User \cup {NULL},
                seen : SUBSET Msg, marked : SUBSET Msg]

TypeOK == /\ box \in [User -> SUBSET Msg]
          /\ session \in [Client -> Session]

Init == /\ box \in [User -> SUBSET Msg]
        /\ session = [c \in Client |-> NoSession]

(* Mail is delivered. *)
Arrive(u, m) == /\ m \notin box[u]
                /\ box' = [box EXCEPT ![u] = @ \cup {m}]
                /\ UNCHANGED session

(* Client c logs in as u and fixes what it sees. *)
Open(c, u) == /\ session[c].phase # "open"
              /\ session' = [session EXCEPT
                               ![c] = [phase |-> "open", user |-> u,
                                       seen |-> box[u], marked |-> {}]]
              /\ UNCHANGED box

Mark(c, m) == /\ m \in session[c].seen \ session[c].marked
              /\ session' = [session EXCEPT ![c].marked = @ \cup {m}]
              /\ UNCHANGED box

UnmarkAll(c) == /\ session' = [session EXCEPT ![c].marked = {}]
                /\ UNCHANGED box

(* The client signs off, and some of what its session marked is expunged.  *)
Expunge(c, S) == /\ session[c].phase = "open"
                 /\ S \subseteq session[c].marked
                 /\ box' = [box EXCEPT ![session[c].user] = @ \ S]
                 /\ session' = [session EXCEPT ![c] = Over]

SignOff(c) == /\ session[c].phase # "open"
              /\ session' = [session EXCEPT ![c] = Over]
              /\ UNCHANGED box

Leave(c) == /\ session' = [session EXCEPT ![c] = NoSession]
            /\ UNCHANGED box

(* The server stops: every session is lost, one of them possibly in the    *)
(* middle of its expunge.                                                  *)
Stop == /\ session' = [c \in Client |-> NoSession]
        /\ \/ UNCHANGED box
           \/ \E c \in Client : \E S \in SUBSET session[c].marked :
                /\ session[c].phase = "open"
                /\ box' = [box EXCEPT ![session[c].user] = @ \ S]

Next == \/ \E u \in User, m \in Msg : Arrive(u, m)
        \/ \E c \in Client : \/ \E u \in User : Open(c, u)
                             \/ \E m \in Msg : Mark(c, m)
                             \/ UnmarkAll(c)
                             \/ \E S \in SUBSET Msg : Expunge(c, S)
                             \/ SignOff(c)
                             \/ Leave(c)
        \/ Stop

Spec == Init /\ [][Next]_vars
=============================================================================
