-------------------------------- MODULE Users --------------------------------
(***************************************************************************)
(* The user table (users.c): an array of fixed size whose entries in use   *)
(* come first.  Names and passwords of up to MAX_USER_LENGTH and           *)
(* MAX_PASS_LENGTH bytes are accepted into fields of exactly that size, so *)
(* one of that length is stored without its terminator and strcmp reads on *)
(* into what follows.                                                      *)
(***************************************************************************)
EXTENDS Integers, SequencesExt

CONSTANTS
    Byte,         \* the bytes of a word, scaled down: a verb is one, too
    NUL,          \* the byte that ends a string
    Name, Pass,   \* the names and passwords that user_add is given
    OtherName,    \* what else is given where a name is expected
    OtherPass,    \* or a password
    MAX_USERS, MAX_USER_LENGTH, MAX_PASS_LENGTH

ASSUME UsersAssumption ==
    /\ {MAX_USERS, MAX_USER_LENGTH, MAX_PASS_LENGTH} \subseteq Nat \ {0}
    /\ Name \cup OtherName \cup Pass \cup OtherPass \subseteq Seq(Byte) /\ NUL \notin Byte

VARIABLES
    users,        \* users[i]: entry i of the array, in use or not
    user_count,
    result        \* the last call, its arguments and whether it succeeded

usersVars == <<users, user_count, result>>

Entry   == [name : Name \cup {<<>>}, pass : Pass \cup {<<>>}]
InUse   == 1 .. user_count
Done(op, n, p, ok) == result' = <<op, n, p, ok>>

UsersInit == /\ users = [i \in 1 .. MAX_USERS |-> [name |-> <<>>, pass |-> <<>>]]
             /\ user_count = 0
             /\ result = <<"INIT", <<>>, <<>>, TRUE>>

-----------------------------------------------------------------------------
(* The array in memory: a field is padded with zeros, its password follows *)
(* the name of an entry, and the next entry, in use or left from before,   *)
(* the password.                                                           *)
At(w, k)     == IF k <= Len(w) THEN w[k] ELSE NUL
SIZE         == MAX_USER_LENGTH + MAX_PASS_LENGTH
Inside(i, o) == i + o \div SIZE <= MAX_USERS
ByteAt(i, o) == LET e == users[i + o \div SIZE]
                    k == o % SIZE
                IN  IF k < MAX_USER_LENGTH THEN At(e.name, k + 1)
                    ELSE At(e.pass, k - MAX_USER_LENGTH + 1)

(* What strcmp may answer of w and the bytes from offset o of entry i on:  *)
(* past the array there may be anything.                                   *)
MayEqual(i, o, w)  == \A k \in 0 .. Len(w) :
                         Inside(i, o + k) => ByteAt(i, o + k) = At(w, k + 1)
MustEqual(i, o, w) == MayEqual(i, o, w) /\ Inside(i, o + Len(w))

(* The positions that the search may return, 0 for none. *)
user_find(n) ==
    {i \in InUse : MayEqual(i, 0, n) /\ \A j \in 1 .. i - 1 : ~MustEqual(j, 0, n)}
        \cup {i \in {0} : \A j \in InUse : ~MustEqual(j, 0, n)}

-----------------------------------------------------------------------------
Store(n, p) == /\ users' = [users EXCEPT ![user_count + 1] = [name |-> n, pass |-> p]]
               /\ user_count' = user_count + 1

(* The tests of a name and a password, which are empty if they are missing.*)
Accepted(n, p) == /\ Len(n) \in 1 .. MAX_USER_LENGTH
                  /\ Len(p) \in 1 .. MAX_PASS_LENGTH

user_add_noLimit(n, p) ==   \* mutant: the limit is tested with >
    LET ok == user_count <= MAX_USERS /\ Accepted(n, p) /\ user_find(n) = {0}
    IN  /\ IF ok THEN /\ users' = [i \in 1 .. MAX_USERS |->
                           IF i = user_count + 1 THEN [name |-> n, pass |-> p]
                           ELSE users[i]]
                      /\ user_count' = user_count + 1
                 ELSE UNCHANGED <<users, user_count>>
        /\ Done("ADD", n, p, ok)

user_add_twice(n, p) ==   \* mutant: the name is not looked for
    LET ok == user_count < MAX_USERS /\ Accepted(n, p)
    IN  /\ IF ok THEN Store(n, p) ELSE UNCHANGED <<users, user_count>>
        /\ Done("ADD", n, p, ok)

user_add(n, p) == \E pos \in user_find(n) :
    LET ok == user_count < MAX_USERS /\ Accepted(n, p) /\ pos = 0
    IN  /\ IF ok THEN Store(n, p) ELSE UNCHANGED <<users, user_count>>
        /\ Done("ADD", n, p, ok)

user_remove_noMove(n) == \E pos \in user_find(n) :   \* mutant: no entry is moved
    /\ user_count' = IF pos # 0 THEN user_count - 1 ELSE user_count
    /\ UNCHANGED users
    /\ Done("DEL", n, <<>>, pos # 0)

(* The last entry takes the place of the one removed, and its old copy     *)
(* stays behind it in the array.                                           *)
user_remove(n) == \E pos \in user_find(n) :
    /\ IF pos # 0 THEN /\ users' = [users EXCEPT ![pos] = users[user_count]]
                       /\ user_count' = user_count - 1
                  ELSE UNCHANGED <<users, user_count>>
    /\ Done("DEL", n, <<>>, pos # 0)

(* Every entry that has the name is asked for the password. *)
user_check_valid(n, p) ==
    /\ \E valid \in BOOLEAN :
          /\ (\E i \in InUse : MustEqual(i, 0, n) /\ MustEqual(i, MAX_USER_LENGTH, p))
                => valid
          /\ valid =>
                \E i \in InUse : MayEqual(i, 0, n) /\ MayEqual(i, MAX_USER_LENGTH, p)
          /\ Done("PASS", n, p, valid)
    /\ UNCHANGED <<users, user_count>>

UsersNext == \/ \E n \in Name, p \in Pass : user_add(n, p)
             \/ \E n \in Name \cup OtherName :
                   \/ user_remove(n)
                   \/ \E p \in Pass \cup OtherPass : user_check_valid(n, p)

UsersSpec == UsersInit /\ [][UsersNext]_usersVars

-----------------------------------------------------------------------------
UsersTypeOK == /\ users \in [1 .. MAX_USERS -> Entry]
               /\ user_count \in 0 .. MAX_USERS
               /\ result \in {"INIT", "ADD", "DEL", "PASS"} \X Seq(Byte) \X Seq(Byte)
                             \X BOOLEAN

(* A name is in the table once: ADD answers -ERR when the user exists      *)
(* already (users.c:33-36, and the protocol document, lines 114-115).      *)
(* This is for names shorter than their field: one that fills it is never  *)
(* found again, and is added as often as it is given.                      *)
NamesUnique == \A i, j \in InUse : users[i].name = users[j].name
                  => i = j \/ Len(users[i].name) = MAX_USER_LENGTH

(* The array is the table of UserTableAbs: every result of ADD, DEL and    *)
(* PASS, after any sequence of them, is one that the table allows.         *)
passwordOf == [n \in {m \in Name : Len(m) \in 1 .. MAX_USER_LENGTH - 1} |->
    IF \E i \in InUse : users[i].name = n
    THEN users[CHOOSE i \in InUse : users[i].name = n].pass ELSE <<>>]

Table == INSTANCE UserTableAbs WITH password <- passwordOf, size <- user_count
ImplementsTable == Table!Spec
=============================================================================
