----------------------------- MODULE MCManager -----------------------------
(***************************************************************************)
(* A small instance of Manager.  A datagram is a line of a verb and its    *)
(* arguments, ended in one of the ways seen: \n, \r\n, nothing, a space    *)
(* before the end, or another line; or it begins with a space.             *)
(*                                                                         *)
(* Fields have two bytes: the name of two n4 fills its own, and q1 with    *)
(* the "\r" that "\r\n" leaves fills the password's.  Both are also given  *)
(* as strcmp sees them: the name with its password, and these with the     *)
(* name of the next entry.                                                 *)
(***************************************************************************)
EXTENDS Manager, TLC

CONSTANTS n1, n2, n3, n4, q1

Letter == {n1, n2, n3}
Short  == {<<n>> : n \in Letter}
Filled == {<<n4, n4>>}
Names  == Short \cup Filled \cup {<<n4, n4, n4>>, <<>>} \cup {<<n, "CR">> : n \in Letter}
Passes == {<<q1>>, <<q1, "CR">>, <<q1, q1, q1>>, <<q1, q1, q1, "CR">>, <<>>}

Add(n, q) == <<"ADD", "SP">> \o n \o <<"COLON">> \o q
Del(n)    == <<"DEL", "SP">> \o n

Lines == {<<"CAPA">>, <<"STOP">>, <<"DEL">>}
            \cup {Add(<<n4, n4, n4>>, <<q1>>), Del(<<n4, n4, q1>>)}
            \cup {<<"ADD", "SP">> \o n : n \in Short}
            \cup {Add(n, <<q1>>) : n \in Short \cup Filled}
            \cup {Add(n, <<q1, q1, q1>>) : n \in Short}
            \cup {Del(n) : n \in Short \cup Filled}
            \cup {Del(<<n4, n4, q1, "CR">> \o n) : n \in Short}
            \cup {<<"DEL", "SP", "SP">> \o n \o <<"SP">> \o m : n, m \in Short}
Ends  == {<<"LF">>, <<"CR", "LF">>, <<>>, <<"SP", "LF">>, <<"LF", "STOP", "LF">>}

Datagrams == {l \o e : l \in Lines, e \in Ends}
                \cup {<<"SP">> \o Del(n) \o <<"LF">> : n \in Short}
                \cup {<<"STOP", "SP">>}
                \cup {<<v, "LF">> \o Del(n) \o <<"LF">> : v \in {"CAPA", "DEL"}, n \in Short}

Seen == {<<n4, n4, q1>>, <<n4, n4, q1, "CR">>} \cup {<<n4, n4, q1, "CR">> \o n : n \in Short}
OtherNames  == Seen \cup {<<n4, n4, "CR">>, <<"DEL", "STOP">>, <<"DEL", "DEL">>}
                  \cup {<<n4, n4, q1, "CR">> \o n \o <<"CR">> : n \in Short}
OtherPasses == {<<q1, "CR">> \o n : n \in Short}
Bytes == Letter \cup {n4, q1, "CR"} \cup Verb

(* Nothing that is done depends on the last result or datagram. *)
WithoutAnswer == <<users, user_count, done>>

Symmetry == Permutations(Letter)
=============================================================================
