----------------------------- MODULE MCSession -----------------------------
(***************************************************************************)
(* Small instances of Session: the commands of a whole session, or a few   *)
(* of them where two connections or two commands in flight make the state  *)
(* space large.                                                            *)
(***************************************************************************)
EXTENDS MCMaildrop, Session

OneMsg    == {m1}
LogIn     == {<<"USER", u1>>, <<"PASS", NULL>>}
MailLines == LogIn \cup {<<"RETR", 1>>, <<"DELE", 1>>, <<"QUIT", NULL>>}
ReadLines == LogIn \cup {<<"LIST", NULL>>, <<"RETR", 1>>, <<"QUIT", NULL>>}
DelLines  == LogIn \cup {<<"DELE", 1>>, <<"QUIT", NULL>>}

AllLines  == [c \in Client |-> Command]
MailOnly  == [c \in Client |-> MailLines]
Waits     == [c \in Client |-> 1]
Pipelines == [c \in Client |-> 2]

(* A session that reads ahead of one that removes. *)
PairLines == c1 :> ReadLines @@ c2 :> DelLines
PairAhead == c1 :> 2 @@ c2 :> 1
=============================================================================
