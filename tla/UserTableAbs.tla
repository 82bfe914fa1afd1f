---------------------------- MODULE UserTableAbs ----------------------------
(***************************************************************************)
(* What the user table promises the manager and the sessions: of the names *)
(* shorter than their field, a map to passwords, in which a name is added  *)
(* once, removed if present, and checked against the password it was added *)
(* with.  A name that fills its field takes a place in the table, and only *)
(* words longer than a name can ever reach it.  A password that fills its  *)
(* field is at least the beginning of what opens the maildrop.             *)
(***************************************************************************)
EXTENDS Integers, FiniteSets, SequencesExt

CONSTANTS Name, Pass, OtherName, OtherPass, MAX_USERS, MAX_USER_LENGTH, MAX_PASS_LENGTH

VARIABLES
    password,  \* password[n]: the password of n, empty if n is not a user
    size,      \* the users, those whose names fill their fields included
    result     \* the last operation, what it was about and whether it succeeded

vars == <<password, size, result>>

Names == {n \in Name : Len(n) \in 1 .. MAX_USER_LENGTH - 1}
Users == {n \in Names : password[n] # <<>>}

(* Some user's name fills its field. *)
Hidden == Cardinality(Users) < size

Init == /\ password = [n \in Names |-> <<>>]
        /\ size = 0
        /\ result = <<"INIT", <<>>, <<>>, TRUE>>

Add(n, p) ==
    LET ok == /\ n \notin Users /\ size < MAX_USERS
              /\ Len(n) \in 1 .. MAX_USER_LENGTH /\ Len(p) \in 1 .. MAX_PASS_LENGTH
    IN  /\ result' = <<"ADD", n, p, ok>>
        /\ password' = [m \in Names |-> IF ok /\ m = n THEN p ELSE password[m]]
        /\ size' = IF ok THEN size + 1 ELSE size

Delete(n) == \E ok \in BOOLEAN :
    /\ result' = <<"DEL", n, <<>>, ok>>
    /\ ok => n \in Users \/ Hidden
    /\ Len(n) <= MAX_USER_LENGTH => (ok <=> n \in Users)
    /\ password' = [m \in Names |-> IF m = n THEN <<>> ELSE password[m]]
    /\ size' = IF ok THEN size - 1 ELSE size

Begins(n, p) == n \in Users /\ IsPrefix(password[n], p)
Check(n, p) == \E ok \in BOOLEAN :
    /\ result' = <<"PASS", n, p, ok>>
    /\ ok => Begins(n, p) \/ Hidden
    /\ Len(n) <= MAX_USER_LENGTH =>
          /\ ok => Begins(n, p)
          /\ n \in Users /\ Len(password[n]) < MAX_PASS_LENGTH
                => (ok <=> p = password[n])
    /\ UNCHANGED <<password, size>>

Next == \/ \E n \in Name, p \in Pass : Add(n, p)
        \/ \E n \in Name \cup OtherName :
              Delete(n) \/ \E p \in Pass \cup OtherPass : Check(n, p)

Spec == Init /\ [][Next]_vars
=============================================================================
