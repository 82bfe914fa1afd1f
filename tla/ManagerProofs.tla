---------------------------- MODULE ManagerProofs ----------------------------
(***************************************************************************)
(* The user table and the management service: the table is that of         *)
(* UserTableAbs, whatever the sessions and the managers do; the pages of   *)
(* USERS cover it; and a datagram does what its first words say.           *)
(*                                                                         *)
(* The parser and the cutting of a line into words are folds over a        *)
(* sequence.  FoldLemmas gives the values each goes through, token by      *)
(* token, and the proofs go along the two of them together.                *)
(***************************************************************************)
EXTENDS Manager, FoldLemmas, SequenceTheorems

(* -- The user table -- *)

(* The inductive invariant: the invariants of Users, and no entry in use   *)
(* has an empty name or password.                                          *)
UsersInv ==
    /\ UsersTypeOK /\ NamesUnique
    /\ \A i \in InUse : /\ Len(users[i].name) \in 1 .. MAX_USER_LENGTH
                        /\ Len(users[i].pass) \in 1 .. MAX_PASS_LENGTH

LEMMA Sizes ==
    ASSUME UsersTypeOK
    PROVE  /\ MAX_USERS \in Nat \ {0} /\ user_count \in Nat /\ InUse \subseteq 1 .. MAX_USERS
           /\ MAX_USER_LENGTH \in Nat \ {0} /\ MAX_PASS_LENGTH \in Nat \ {0}
           /\ SIZE \in Nat \ {0} /\ SIZE = MAX_USER_LENGTH + MAX_PASS_LENGTH
BY UsersAssumption DEF UsersTypeOK, InUse, SIZE

LEMMA EntryWords ==
    ASSUME UsersTypeOK, NEW i \in 1 .. MAX_USERS
    PROVE  users[i].name \in Seq(Byte) /\ users[i].pass \in Seq(Byte)
<1>1. users[i].name \in Name \cup {<<>>} /\ users[i].pass \in Pass \cup {<<>>}
  BY DEF UsersTypeOK, Entry
<1>2. <<>> \in Seq(Byte)
  OBVIOUS
<1> QED
  BY <1>1, <1>2, UsersAssumption

LEMMA Quotient ==
    ASSUME NEW x \in Nat, NEW d \in Nat, x < d
    PROVE  x \div d = 0 /\ x % d = x
OBVIOUS

(* The bytes of an entry. *)
LEMMA BytesOfEntry ==
    ASSUME UsersTypeOK, NEW i \in 1 .. MAX_USERS, NEW o \in Nat, o < SIZE
    PROVE  /\ Inside(i, o)
           /\ o < MAX_USER_LENGTH => ByteAt(i, o) = At(users[i].name, o + 1)
           /\ o >= MAX_USER_LENGTH =>
                 ByteAt(i, o) = At(users[i].pass, o - MAX_USER_LENGTH + 1)
<1>1. o \div SIZE = 0 /\ o % SIZE = o
  BY Sizes, Quotient
<1>2. i + 0 = i /\ i <= MAX_USERS
  BY Sizes
<1>3. Inside(i, o)
  BY <1>1, <1>2 DEF Inside
<1>4. o < MAX_USER_LENGTH => ByteAt(i, o) = At(users[i].name, o + 1)
  BY <1>1, <1>2 DEF ByteAt
<1>5. ASSUME o >= MAX_USER_LENGTH
      PROVE  ByteAt(i, o) = At(users[i].pass, o - MAX_USER_LENGTH + 1)
  <2>1. ~(o < MAX_USER_LENGTH)
    BY <1>5, Sizes
  <2> QED
    BY <1>1, <1>2, <2>1 DEF ByteAt
<1> QED
  BY <1>3, <1>4, <1>5

LEMMA Bytes ==
    ASSUME NEW w \in Seq(Byte)
    PROVE  /\ Len(w) \in Nat /\ At(w, Len(w) + 1) = NUL
           /\ \A k \in 1 .. Len(w) : At(w, k) = w[k] /\ w[k] \in Byte /\ At(w, k) # NUL
<1>1. Len(w) \in Nat /\ \A k \in 1 .. Len(w) : w[k] \in Byte
  BY LenProperties, ElementOfSeq
<1> QED
  BY <1>1, UsersAssumption DEF At

(* A string that its field has room for ends before the field does. *)
LEMMA ShortMatch ==
    ASSUME NEW w \in Seq(Byte), NEW g \in Seq(Byte), NEW S \in Nat, Len(w) < S,
           \A k \in 0 .. Len(g) : k < S => At(w, k + 1) = At(g, k + 1)
    PROVE  g = w
<1>1. Len(w) \in Nat /\ Len(g) \in Nat
  BY Bytes
<1>2. ~(Len(g) < Len(w))
  <2>. SUFFICES ASSUME Len(g) < Len(w) PROVE FALSE
    OBVIOUS
  <2>1. Len(g) \in 0 .. Len(g) /\ Len(g) + 1 \in 1 .. Len(w) /\ Len(g) < S
    BY <1>1
  <2>2. At(w, Len(g) + 1) = At(g, Len(g) + 1)
    BY <2>1
  <2> QED
    BY <2>1, <2>2, Bytes
<1>3. ~(Len(w) < Len(g))
  <2>. SUFFICES ASSUME Len(w) < Len(g) PROVE FALSE
    OBVIOUS
  <2>1. Len(w) \in 0 .. Len(g) /\ Len(w) + 1 \in 1 .. Len(g)
    BY <1>1
  <2>2. At(w, Len(w) + 1) = At(g, Len(w) + 1)
    BY <2>1
  <2> QED
    BY <2>1, <2>2, Bytes
<1>4. Len(g) = Len(w)
  BY <1>1, <1>2, <1>3
<1>5. \A k \in 1 .. Len(w) : g[k] = w[k]
  <2>. TAKE k \in 1 .. Len(w)
  <2>1. k - 1 \in 0 .. Len(g) /\ k - 1 < S /\ (k - 1) + 1 = k /\ k \in 1 .. Len(g)
    BY <1>1, <1>4
  <2>2. At(w, k) = At(g, k)
    BY <2>1
  <2> QED
    BY <2>1, <2>2, Bytes
<1> QED
  BY <1>4, <1>5, SeqEqual

(* One that fills it is the beginning of whatever matches. *)
LEMMA FilledMatch ==
    ASSUME NEW w \in Seq(Byte), NEW g \in Seq(Byte),
           \A k \in 0 .. Len(g) : k < Len(w) => At(w, k + 1) = At(g, k + 1)
    PROVE  Len(w) <= Len(g) /\ IsPrefix(w, g) /\ \A k \in 1 .. Len(w) : g[k] = w[k]
<1>1. Len(w) \in Nat /\ Len(g) \in Nat
  BY Bytes
<1>2. Len(w) <= Len(g)
  <2>. SUFFICES ASSUME Len(g) < Len(w) PROVE FALSE
    BY <1>1
  <2>1. Len(g) \in 0 .. Len(g) /\ Len(g) + 1 \in 1 .. Len(w)
    BY <1>1
  <2>2. At(w, Len(g) + 1) = At(g, Len(g) + 1)
    BY <2>1
  <2> QED
    BY <2>1, <2>2, Bytes
<1>3. \A k \in 1 .. Len(w) : g[k] = w[k]
  <2>. TAKE k \in 1 .. Len(w)
  <2>1. k - 1 \in 0 .. Len(g) /\ k - 1 < Len(w) /\ (k - 1) + 1 = k /\ k \in 1 .. Len(g)
    BY <1>1, <1>2
  <2>2. At(w, k) = At(g, k)
    BY <2>1
  <2> QED
    BY <2>1, <2>2, Bytes
<1>4. SubSeq(w, 1, Len(w)) = SubSeq(g, 1, Len(w))
  BY <1>1, <1>2, <1>3
<1> QED
  BY <1>2, <1>3, <1>4 DEF IsPrefix

(* What strcmp makes of a name, ... *)
LEMMA NameMatch ==
    ASSUME UsersInv, NEW i \in InUse, NEW n \in Seq(Byte)
    PROVE  /\ Len(users[i].name) < MAX_USER_LENGTH =>
                 /\ MayEqual(i, 0, n) => n = users[i].name
                 /\ n = users[i].name => MustEqual(i, 0, n)
           /\ Len(users[i].name) = MAX_USER_LENGTH /\ MayEqual(i, 0, n) =>
                 Len(n) > MAX_USER_LENGTH
           /\ MayEqual(i, 0, n) => n # <<>> /\ n[1] = users[i].name[1]
<1>. DEFINE w == users[i].name
<1>1. /\ UsersTypeOK /\ i \in 1 .. MAX_USERS /\ w \in Seq(Byte) /\ users[i].pass \in Seq(Byte)
      /\ Len(w) \in 1 .. MAX_USER_LENGTH /\ Len(users[i].pass) >= 1
      /\ Len(w) \in Nat /\ Len(n) \in Nat
  BY Sizes, EntryWords, Bytes DEF UsersInv
<1>2. \A k \in 0 .. Len(n) : k < MAX_USER_LENGTH =>
         Inside(i, 0 + k) /\ ByteAt(i, 0 + k) = At(w, k + 1)
  <2>. TAKE k \in 0 .. Len(n)
  <2>1. k \in Nat /\ 0 + k = k /\ (k < MAX_USER_LENGTH => k < SIZE)
    BY <1>1, Sizes
  <2> QED
    BY <1>1, <2>1, BytesOfEntry
<1>3. MAX_USER_LENGTH < SIZE /\ MAX_USER_LENGTH \in Nat
      /\ MAX_USER_LENGTH - MAX_USER_LENGTH + 1 = 1 /\ 0 + MAX_USER_LENGTH = MAX_USER_LENGTH
  BY <1>1, Sizes
<1>4. ByteAt(i, 0 + MAX_USER_LENGTH) # NUL /\ Inside(i, 0 + MAX_USER_LENGTH)
  <2>1. ByteAt(i, MAX_USER_LENGTH) = At(users[i].pass, 1)
    BY <1>1, <1>3, BytesOfEntry
  <2>2. 1 \in 1 .. Len(users[i].pass)
    BY <1>1, Bytes
  <2> QED
    BY <1>1, <1>3, <2>1, <2>2, BytesOfEntry, Bytes
<1>5. ASSUME MayEqual(i, 0, n)
      PROVE  \A k \in 0 .. Len(n) : k < MAX_USER_LENGTH => At(w, k + 1) = At(n, k + 1)
  BY <1>2, <1>5 DEF MayEqual
<1>6. ASSUME MayEqual(i, 0, n), Len(w) < MAX_USER_LENGTH
      PROVE  n = w
  <2>. HIDE DEF w
  <2> QED
    BY <1>1, <1>3, <1>5, <1>6, ShortMatch
<1>7. ASSUME n = w, Len(w) < MAX_USER_LENGTH
      PROVE  MustEqual(i, 0, n)
  <2>1. \A k \in 0 .. Len(n) : k < MAX_USER_LENGTH
    BY <1>1, <1>3, <1>7
  <2>2. Len(n) \in 0 .. Len(n)
    BY <1>1
  <2> QED
    BY <1>2, <1>7, <2>1, <2>2 DEF MayEqual, MustEqual
<1>8. ASSUME MayEqual(i, 0, n), Len(w) = MAX_USER_LENGTH
      PROVE  /\ Len(n) > MAX_USER_LENGTH
             /\ \A k \in 1 .. Len(w) : n[k] = w[k]
  <2>1. Len(w) <= Len(n) /\ \A k \in 1 .. Len(w) : n[k] = w[k]
    <3>. HIDE DEF w
    <3> QED
      BY <1>1, <1>5, <1>8, FilledMatch
  <2>2. Len(n) # MAX_USER_LENGTH
    <3>. SUFFICES ASSUME Len(n) = MAX_USER_LENGTH PROVE FALSE
      OBVIOUS
    <3>1. ByteAt(i, 0 + MAX_USER_LENGTH) = At(n, MAX_USER_LENGTH + 1)
      BY <1>3, <1>4, <1>8 DEF MayEqual
    <3> QED
      BY <1>4, <3>1, Bytes
  <2> QED
    BY <1>1, <1>3, <1>8, <2>1, <2>2
<1>9. ASSUME MayEqual(i, 0, n)
      PROVE  n # <<>> /\ n[1] = w[1]
  <2>1. CASE Len(w) < MAX_USER_LENGTH
    <3>1. n = w
      BY <1>6, <1>9, <2>1
    <3>2. Len(<<>>) = 0
      OBVIOUS
    <3> QED
      BY <1>1, <3>1, <3>2
  <2>2. CASE Len(w) = MAX_USER_LENGTH
    <3>1. 1 \in 1 .. Len(w) /\ Len(n) > 0
      BY <1>1, <1>3, <1>8, <1>9, <2>2
    <3>2. Len(<<>>) = 0
      OBVIOUS
    <3> QED
      BY <1>8, <1>9, <2>2, <3>1, <3>2
  <2> QED
    BY <1>1, <1>3, <2>1, <2>2
<1> QED
  BY <1>6, <1>7, <1>8, <1>9

(* ... and of a password. *)
LEMMA PassMatch ==
    ASSUME UsersInv, NEW i \in InUse, NEW p \in Seq(Byte)
    PROVE  /\ Len(users[i].pass) < MAX_PASS_LENGTH =>
                 /\ MayEqual(i, MAX_USER_LENGTH, p) => p = users[i].pass
                 /\ p = users[i].pass => MustEqual(i, MAX_USER_LENGTH, p)
           /\ MayEqual(i, MAX_USER_LENGTH, p) => IsPrefix(users[i].pass, p)
<1>. DEFINE w == users[i].pass
<1>1. /\ UsersTypeOK /\ i \in 1 .. MAX_USERS /\ w \in Seq(Byte)
      /\ Len(w) \in 1 .. MAX_PASS_LENGTH /\ Len(w) \in Nat /\ Len(p) \in Nat
      /\ MAX_PASS_LENGTH \in Nat
  BY Sizes, EntryWords, Bytes DEF UsersInv
<1>2. \A k \in 0 .. Len(p) : k < MAX_PASS_LENGTH =>
         Inside(i, MAX_USER_LENGTH + k) /\ ByteAt(i, MAX_USER_LENGTH + k) = At(w, k + 1)
  <2>. TAKE k \in 0 .. Len(p)
  <2>. HAVE k < MAX_PASS_LENGTH
  <2>. DEFINE o == MAX_USER_LENGTH + k
  <2>1. /\ o \in Nat /\ o < SIZE /\ o >= MAX_USER_LENGTH
        /\ o - MAX_USER_LENGTH + 1 = k + 1
    BY <1>1, Sizes
  <2>. HIDE DEF o
  <2>2. Inside(i, o) /\ ByteAt(i, o) = At(w, k + 1)
    BY <1>1, <2>1, BytesOfEntry
  <2> QED
    BY <2>2 DEF o
<1>3. ASSUME MayEqual(i, MAX_USER_LENGTH, p)
      PROVE  \A k \in 0 .. Len(p) : k < MAX_PASS_LENGTH => At(w, k + 1) = At(p, k + 1)
  BY <1>2, <1>3 DEF MayEqual
<1>4. ASSUME MayEqual(i, MAX_USER_LENGTH, p), Len(w) < MAX_PASS_LENGTH
      PROVE  p = w
  <2>. HIDE DEF w
  <2> QED
    BY <1>1, <1>3, <1>4, ShortMatch
<1>5. ASSUME p = w, Len(w) < MAX_PASS_LENGTH
      PROVE  MustEqual(i, MAX_USER_LENGTH, p)
  <2>1. (\A k \in 0 .. Len(p) : k < MAX_PASS_LENGTH) /\ Len(p) \in 0 .. Len(p)
    BY <1>1, <1>5
  <2> QED
    BY <1>2, <1>5, <2>1 DEF MayEqual, MustEqual
<1>6. ASSUME MayEqual(i, MAX_USER_LENGTH, p)
      PROVE  IsPrefix(w, p)
  <2>. HIDE DEF w
  <2>1. \A k \in 0 .. Len(p) : k < Len(w) => At(w, k + 1) = At(p, k + 1)
    BY <1>1, <1>3, <1>6
  <2> QED
    BY <1>1, <2>1, FilledMatch
<1> QED
  BY <1>4, <1>5, <1>6

(* What the search finds, and that there is then a last entry to move: a   *)
(* word that is no longer than a name finds just the entry of that name.   *)
LEMMA Found ==
    ASSUME UsersInv, NEW n \in Seq(Byte), NEW pos \in user_find(n)
    PROVE  /\ pos # 0 => /\ pos \in InUse /\ n # <<>> /\ n[1] = users[pos].name[1]
                         /\ user_count \in 1 .. MAX_USERS
                         /\ user_count - 1 \in 0 .. MAX_USERS
                         /\ \/ users[pos].name = n /\ Len(n) < MAX_USER_LENGTH
                            \/ /\ Len(users[pos].name) = MAX_USER_LENGTH
                               /\ Len(n) > MAX_USER_LENGTH
           /\ pos = 0 => \A i \in InUse : users[i].name = n => Len(n) = MAX_USER_LENGTH
<1>1. /\ user_count \in Nat /\ MAX_USERS \in Nat /\ user_count <= MAX_USERS
      /\ MAX_USER_LENGTH \in Nat /\ InUse = 1 .. user_count
  BY UsersAssumption DEF UsersInv, UsersTypeOK, InUse
<1>2. ASSUME pos # 0
      PROVE  pos \in InUse /\ MayEqual(pos, 0, n)
  BY <1>2 DEF user_find
<1>3. ASSUME pos = 0
      PROVE  \A i \in InUse : ~MustEqual(i, 0, n)
  BY <1>1, <1>3 DEF user_find
<1>4. \A i \in InUse : Len(users[i].name) \in 1 .. MAX_USER_LENGTH
  BY DEF UsersInv
<1>5. ASSUME pos # 0
      PROVE  \/ users[pos].name = n /\ Len(n) < MAX_USER_LENGTH
             \/ Len(users[pos].name) = MAX_USER_LENGTH /\ Len(n) > MAX_USER_LENGTH
  <2>1. Len(users[pos].name) < MAX_USER_LENGTH \/ Len(users[pos].name) = MAX_USER_LENGTH
    BY <1>1, <1>2, <1>4, <1>5
  <2> QED
    BY <1>2, <1>5, <2>1, NameMatch
<1>6. ASSUME pos = 0, NEW i \in InUse, users[i].name = n
      PROVE  Len(n) = MAX_USER_LENGTH
  <2>1. ~(Len(users[i].name) < MAX_USER_LENGTH)
    BY <1>3, <1>6, NameMatch
  <2> QED
    BY <1>1, <1>4, <1>6, <2>1
<1> QED
  BY <1>1, <1>2, <1>5, <1>6, NameMatch

LEMMA Results ==
    ASSUME NEW op \in {"INIT", "ADD", "DEL", "PASS"}, NEW n \in Seq(Byte),
           NEW p \in Seq(Byte), NEW ok \in BOOLEAN, Done(op, n, p, ok)
    PROVE  result' \in {"INIT", "ADD", "DEL", "PASS"} \X Seq(Byte) \X Seq(Byte) \X BOOLEAN
BY DEF Done

LEMMA Given ==
    /\ Name \subseteq Seq(Byte) /\ OtherName \subseteq Seq(Byte)
    /\ Pass \subseteq Seq(Byte) /\ OtherPass \subseteq Seq(Byte)
    /\ <<>> \in Seq(Byte)
BY UsersAssumption

LEMMA AddKeeps ==
    ASSUME UsersInv, NEW n \in Name, NEW p \in Pass, user_add(n, p)
    PROVE  UsersInv'
<1>. USE UsersAssumption
<1>1. PICK pos \in user_find(n) :
         LET ok == user_count < MAX_USERS /\ Accepted(n, p) /\ pos = 0
         IN  /\ IF ok THEN Store(n, p) ELSE UNCHANGED <<users, user_count>>
             /\ Done("ADD", n, p, ok)
  BY DEF user_add
<1>2. result' \in {"INIT", "ADD", "DEL", "PASS"} \X Seq(Byte) \X Seq(Byte) \X BOOLEAN
  BY <1>1, Results, Given
<1>3. CASE UNCHANGED <<users, user_count>>
  BY <1>2, <1>3 DEF UsersInv, UsersTypeOK, NamesUnique, InUse
<1>4. CASE user_count < MAX_USERS /\ Accepted(n, p) /\ pos = 0 /\ Store(n, p)
  <2>1. user_count \in Nat /\ user_count + 1 \in 1 .. MAX_USERS
    BY <1>4 DEF UsersInv, UsersTypeOK
  <2>2. users'[user_count + 1] = [name |-> n, pass |-> p]
    BY <1>4, <2>1 DEF UsersInv, UsersTypeOK, Store
  <2>3. \A i \in InUse : users'[i] = users[i]
    BY <1>4, <2>1 DEF UsersInv, UsersTypeOK, InUse, Store
  <2>4. InUse' = InUse \cup {user_count + 1}
    BY <1>4, <2>1 DEF InUse, Store
  <2>5. \A i \in InUse : users[i].name = n => Len(n) = MAX_USER_LENGTH
    BY <1>1, <1>4, Found, Given
  <2>6. NamesUnique'
    BY <2>2, <2>3, <2>4, <2>5 DEF UsersInv, NamesUnique
  <2>7. UsersTypeOK'
    <3>1. [name |-> n, pass |-> p] \in Entry
      BY DEF Entry
    <3>2. users' \in [1 .. MAX_USERS -> Entry] /\ user_count' \in 0 .. MAX_USERS
      BY <1>4, <2>1, <3>1 DEF UsersInv, UsersTypeOK, Store
    <3> QED
      BY <1>2, <3>2 DEF UsersTypeOK
  <2>8. \A i \in InUse' : /\ Len(users'[i].name) \in 1 .. MAX_USER_LENGTH
                          /\ Len(users'[i].pass) \in 1 .. MAX_PASS_LENGTH
    BY <1>4, <2>2, <2>3, <2>4 DEF UsersInv, Accepted
  <2> QED
    BY <2>6, <2>7, <2>8 DEF UsersInv
<1> QED
  BY <1>1, <1>3, <1>4

LEMMA RemoveKeeps ==
    ASSUME UsersInv, NEW n \in Name \cup OtherName, user_remove(n)
    PROVE  UsersInv'
<1>1. PICK pos \in user_find(n) :
         /\ IF pos # 0 THEN /\ users' = [users EXCEPT ![pos] = users[user_count]]
                            /\ user_count' = user_count - 1
                       ELSE UNCHANGED <<users, user_count>>
         /\ Done("DEL", n, <<>>, pos # 0)
  BY DEF user_remove
<1>2. result' \in {"INIT", "ADD", "DEL", "PASS"} \X Seq(Byte) \X Seq(Byte) \X BOOLEAN
  BY <1>1, Results, Given
<1>3. CASE UNCHANGED <<users, user_count>>
  BY <1>2, <1>3 DEF UsersInv, UsersTypeOK, NamesUnique, InUse
<1>4. CASE /\ pos # 0 /\ users' = [users EXCEPT ![pos] = users[user_count]]
           /\ user_count' = user_count - 1
  <2>1. /\ pos \in InUse /\ user_count \in 1 .. MAX_USERS
        /\ user_count - 1 \in 0 .. MAX_USERS /\ InUse \subseteq 1 .. MAX_USERS
    BY <1>4, Found, Given, Sizes DEF UsersInv
  <2>2. users \in [1 .. MAX_USERS -> Entry]
    BY DEF UsersInv, UsersTypeOK
  <2>3. UsersTypeOK'
    BY <1>2, <1>4, <2>1, <2>2 DEF UsersTypeOK
  <2>4. \A i \in InUse' : /\ i \in InUse /\ i # user_count /\ user_count \in InUse
                          /\ users'[i] = users[IF i = pos THEN user_count ELSE i]
    BY <1>4, <2>1, <2>2 DEF InUse
  <2>5. NamesUnique'
    BY <2>4 DEF UsersInv, NamesUnique
  <2> QED
    BY <2>3, <2>4, <2>5 DEF UsersInv
<1> QED
  BY <1>1, <1>3, <1>4

LEMMA CheckKeeps ==
    ASSUME UsersInv, NEW n \in Name \cup OtherName, NEW p \in Pass \cup OtherPass,
           user_check_valid(n, p)
    PROVE  UsersInv'
<1>1. result' \in {"INIT", "ADD", "DEL", "PASS"} \X Seq(Byte) \X Seq(Byte) \X BOOLEAN
  <2>1. PICK valid \in BOOLEAN : Done("PASS", n, p, valid)
    BY DEF user_check_valid
  <2> QED
    BY <2>1, Results, Given
<1> QED
  BY <1>1 DEF UsersInv, UsersTypeOK, NamesUnique, InUse, user_check_valid

LEMMA InitHolds == UsersInit => UsersInv
<1>. SUFFICES ASSUME UsersInit PROVE UsersInv
  OBVIOUS
<1>1. user_count = 0 /\ InUse = {}
  BY DEF UsersInit, InUse
<1>2. [name |-> <<>>, pass |-> <<>>] \in Entry
  BY DEF Entry
<1>3. UsersTypeOK
  <2>1. users \in [1 .. MAX_USERS -> Entry]
    BY <1>2 DEF UsersInit
  <2>2. user_count \in 0 .. MAX_USERS
    BY UsersAssumption DEF UsersInit
  <2>3. result \in {"INIT", "ADD", "DEL", "PASS"} \X Seq(Byte) \X Seq(Byte) \X BOOLEAN
    BY Given DEF UsersInit
  <2> QED
    BY <2>1, <2>2, <2>3 DEF UsersTypeOK
<1> QED
  BY <1>1, <1>3 DEF UsersInv, NamesUnique

LEMMA StepKeeps == UsersInv /\ [UsersNext]_usersVars => UsersInv'
<1>. SUFFICES ASSUME UsersInv, [UsersNext]_usersVars PROVE UsersInv'
  OBVIOUS
<1>1. CASE UNCHANGED usersVars
  BY <1>1 DEF UsersInv, UsersTypeOK, NamesUnique, InUse, usersVars
<1> QED
  BY <1>1, AddKeeps, RemoveKeeps, CheckKeeps DEF UsersNext

(* The invariant holds of the table by itself. *)
LEMMA UsersAlways == UsersSpec => []UsersInv
BY InitHolds, StepKeeps, PTL DEF UsersSpec
-----------------------------------------------------------------------------
(* The names that the map has, and the password that the first c entries   *)
(* of u give to the name n.                                                *)
Kept == {m \in Name : Len(m) \in 1 .. MAX_USER_LENGTH - 1}
Find(u, c, n) == IF \E i \in 1 .. c : u[i].name = n
                 THEN u[CHOOSE i \in 1 .. c : u[i].name = n].pass ELSE <<>>

LEMMA FindIs ==
    ASSUME NEW u, NEW c, NEW n,
           \A i, j \in 1 .. c : u[i].name = n /\ u[j].name = n => i = j
    PROVE  /\ \A i \in 1 .. c : u[i].name = n => Find(u, c, n) = u[i].pass
           /\ (\A i \in 1 .. c : u[i].name # n) => Find(u, c, n) = <<>>
<1>1. ASSUME NEW i \in 1 .. c, u[i].name = n
      PROVE  Find(u, c, n) = u[i].pass
  <2>. DEFINE k == CHOOSE j \in 1 .. c : u[j].name = n
  <2>1. k \in 1 .. c /\ u[k].name = n
    BY <1>1
  <2>2. k = i
    <3>. HIDE DEF k
    <3> QED
      BY <1>1, <2>1
  <2> QED
    BY <1>1, <2>2 DEF Find
<1> QED
  BY <1>1 DEF Find

LEMMA KeptOnce ==
    ASSUME NEW n \in Kept
    PROVE  /\ UsersInv => \A i, j \in 1 .. user_count :
                             users[i].name = n /\ users[j].name = n => i = j
           /\ UsersInv' => \A i, j \in 1 .. user_count' :
                             users'[i].name = n /\ users'[j].name = n => i = j
<1>1. Len(n) # MAX_USER_LENGTH
  BY UsersAssumption DEF Kept
<1> QED
  BY <1>1 DEF UsersInv, NamesUnique, InUse

LEMMA PasswordIs == /\ passwordOf = [n \in Kept |-> Find(users, user_count, n)]
                    /\ passwordOf' = [n \in Kept |-> Find(users', user_count', n)]
BY DEF passwordOf, Find, InUse, Kept

(* The table that the array stands for. *)
LEMMA TableUsers ==
    ASSUME UsersInv
    PROVE  /\ Table!Names = Kept
           /\ \A n \in Kept : n \in Table!Users <=> \E i \in InUse : users[i].name = n
           /\ \A n \in Table!Users : n \in Kept
           /\ \A i \in InUse : Len(users[i].name) < MAX_USER_LENGTH =>
                 /\ users[i].name \in Kept
                 /\ passwordOf[users[i].name] = users[i].pass
<1>1. Table!Names = Kept
  BY DEF Table!Names, Kept
<1>2. \A i \in InUse : i \in 1 .. user_count /\ users[i].pass # <<>>
  <2>1. Len(<<>>) = 0
    OBVIOUS
  <2> QED
    BY <2>1 DEF UsersInv, InUse
<1>3. ASSUME NEW i \in InUse, Len(users[i].name) < MAX_USER_LENGTH
      PROVE  /\ users[i].name \in Kept
             /\ passwordOf[users[i].name] = users[i].pass
  <2>1. users[i].name \in Name \cup {<<>>} /\ Len(users[i].name) \in 1 .. MAX_USER_LENGTH
    BY <1>3, Sizes DEF UsersInv, UsersTypeOK, Entry
  <2>2. Len(<<>>) = 0
    OBVIOUS
  <2>3. users[i].name \in Kept
    BY <1>3, <2>1, <2>2, UsersAssumption DEF Kept
  <2>4. Find(users, user_count, users[i].name) = users[i].pass
    BY <1>2, <2>3, KeptOnce, FindIs
  <2> QED
    BY <2>3, <2>4, PasswordIs
<1>4. ASSUME NEW n \in Kept, n \in Table!Users
      PROVE  \E i \in InUse : users[i].name = n
  <2>1. Find(users, user_count, n) # <<>>
    BY <1>4, PasswordIs DEF Table!Users
  <2> QED
    BY <2>1 DEF Find, InUse
<1>5. ASSUME NEW n \in Kept, NEW i \in InUse, users[i].name = n
      PROVE  n \in Table!Users
  <2>1. Len(n) < MAX_USER_LENGTH
    BY UsersAssumption DEF Kept
  <2> QED
    BY <1>1, <1>2, <1>3, <1>5, <2>1 DEF Table!Users
<1>6. \A n \in Table!Users : n \in Kept
  BY <1>1 DEF Table!Users
<1> QED
  BY <1>1, <1>3, <1>4, <1>5, <1>6

(* A name that fills its field is none of those of the map. *)
LEMMA HiddenUsers ==
    ASSUME UsersInv, NEW k \in InUse, Len(users[k].name) = MAX_USER_LENGTH
    PROVE  Table!Hidden
<1>. DEFINE F == {i \in InUse : Len(users[i].name) < MAX_USER_LENGTH}
<1>. DEFINE f == [i \in F |-> users[i].name]
<1>1. InUse = 1 .. user_count /\ user_count \in Nat
  BY Sizes DEF InUse, UsersInv
<1>2. IsFiniteSet(InUse) /\ Cardinality(InUse) = user_count
  BY <1>1, FS_Interval
<1>3. F \subseteq InUse /\ F # InUse
  BY Sizes DEF UsersInv
<1>4. IsFiniteSet(F) /\ Cardinality(F) < user_count
  <2>. HIDE DEF F
  <2>1. IsFiniteSet(F) /\ Cardinality(F) <= user_count /\ Cardinality(F) # user_count
    BY <1>2, <1>3, FS_Subset
  <2>2. Cardinality(F) \in Nat
    BY <2>1, FS_CardinalityType
  <2> QED
    BY <1>1, <2>1, <2>2
<1>5. f \in Surjection(F, Table!Users)
  <2>1. \A i \in F : f[i] \in Table!Users
    BY TableUsers
  <2>2. \A n \in Table!Users : \E i \in F : f[i] = n
    <3>1. \A n \in Kept : Len(n) < MAX_USER_LENGTH
      BY UsersAssumption DEF Kept
    <3> QED
      BY <3>1, TableUsers
  <2> QED
    BY <2>1, <2>2 DEF Surjection
<1>6. Cardinality(Table!Users) <= Cardinality(F) /\ IsFiniteSet(Table!Users)
  <2>. HIDE DEF F, f
  <2> QED
    BY <1>4, <1>5, FS_Surjection
<1>7. Cardinality(F) \in Nat /\ Cardinality(Table!Users) \in Nat
  BY <1>4, <1>6, FS_CardinalityType
<1>8. Cardinality(Table!Users) < user_count
  <2>. HIDE DEF F
  <2> QED
    BY <1>1, <1>4, <1>6, <1>7
<1>9. Table!Cardinality(Table!Users) = Cardinality(Table!Users)
  BY DEF Table!Cardinality, Cardinality
<1> QED
  BY <1>8, <1>9 DEF Table!Hidden

LEMMA AddImplements ==
    ASSUME UsersInv, NEW n \in Name, NEW p \in Pass, user_add(n, p)
    PROVE  Table!Add(n, p)
<1>1. PICK pos \in user_find(n) :
         LET ok == user_count < MAX_USERS /\ Accepted(n, p) /\ pos = 0
         IN  /\ IF ok THEN Store(n, p) ELSE UNCHANGED <<users, user_count>>
             /\ Done("ADD", n, p, ok)
  BY DEF user_add
<1>. DEFINE ok == user_count < MAX_USERS /\ Accepted(n, p) /\ pos = 0
<1>. DEFINE tok == /\ n \notin Table!Users /\ user_count < MAX_USERS
                   /\ Len(n) \in 1 .. MAX_USER_LENGTH /\ Len(p) \in 1 .. MAX_PASS_LENGTH
<1>2. UsersInv' /\ n \in Seq(Byte) /\ Table!Names = Kept
  BY AddKeeps, Given, TableUsers
<1>3. ASSUME Accepted(n, p)
      PROVE  pos = 0 <=> n \notin Table!Users
  <2>1. Len(n) \in 1 .. MAX_USER_LENGTH
    BY <1>3 DEF Accepted
  <2>2. ASSUME n \in Table!Users, pos = 0
        PROVE  FALSE
    <3>1. n \in Kept /\ \E i \in InUse : users[i].name = n
      BY <2>2, TableUsers
    <3>2. Len(n) = MAX_USER_LENGTH
      BY <1>1, <1>2, <2>2, <3>1, Found
    <3> QED
      BY <3>1, <3>2, UsersAssumption DEF Kept
  <2>3. ASSUME pos # 0
        PROVE  n \in Table!Users
    <3>1. pos \in InUse /\ users[pos].name = n /\ Len(n) < MAX_USER_LENGTH
      BY <1>1, <1>2, <2>1, <2>3, Found, UsersAssumption
    <3> QED
      BY <3>1, TableUsers
  <2> QED
    BY <2>2, <2>3
<1>4. ok = tok
  BY <1>3 DEF Accepted
<1>5. ASSUME ok
      PROVE  /\ user_count' = user_count + 1
             /\ \A m \in Kept : Find(users', user_count', m)
                                   = IF m = n THEN p ELSE Find(users, user_count, m)
  <2>1. user_count \in Nat /\ user_count + 1 \in 1 .. MAX_USERS
    BY <1>5, Sizes DEF UsersInv, UsersTypeOK
  <2>2. /\ user_count' = user_count + 1
        /\ users' = [users EXCEPT ![user_count + 1] = [name |-> n, pass |-> p]]
    BY <1>1, <1>5 DEF Store
  <2>3. users'[user_count + 1] = [name |-> n, pass |-> p]
    BY <2>1, <2>2 DEF UsersInv, UsersTypeOK
  <2>4. \A i \in 1 .. user_count : users'[i] = users[i]
    BY <2>1, <2>2 DEF UsersInv, UsersTypeOK
  <2>5. 1 .. user_count' = (1 .. user_count) \cup {user_count + 1}
    BY <2>1, <2>2
  <2>6. ASSUME NEW m \in Kept
        PROVE  Find(users', user_count', m) = IF m = n THEN p ELSE Find(users, user_count, m)
    <3>1. CASE m = n
      BY <1>2, <2>3, <2>5, <3>1, KeptOnce, FindIs
    <3>2. CASE m # n /\ \E i \in 1 .. user_count : users[i].name = m
      <4>1. PICK i \in 1 .. user_count : users[i].name = m
        BY <3>2
      <4>2. i \in 1 .. user_count' /\ users'[i] = users[i]
        BY <2>4, <2>5
      <4>3. Find(users, user_count, m) = users[i].pass
        BY <4>1, KeptOnce, FindIs
      <4>4. Find(users', user_count', m) = users'[i].pass
        BY <1>2, <4>1, <4>2, KeptOnce, FindIs
      <4> QED
        BY <3>2, <4>2, <4>3, <4>4
    <3>3. CASE m # n /\ \A i \in 1 .. user_count : users[i].name # m
      <4>1. Find(users, user_count, m) = <<>>
        BY <3>3, KeptOnce, FindIs
      <4>2. \A i \in 1 .. user_count' : users'[i].name # m
        BY <2>3, <2>4, <2>5, <3>3
      <4> QED
        BY <1>2, <3>3, <4>1, <4>2, KeptOnce, FindIs
    <3> QED
      BY <3>1, <3>2, <3>3
  <2> QED
    BY <2>2, <2>6
<1>6. ~ok => UNCHANGED <<users, user_count>>
  BY <1>1
<1>7. result' = <<"ADD", n, p, ok>>
  BY <1>1 DEF Done
<1>. HIDE DEF ok
<1>8. passwordOf' = [m \in Kept |-> IF ok /\ m = n THEN p ELSE passwordOf[m]]
  <2>1. ASSUME NEW m \in Kept
        PROVE  Find(users', user_count', m)
                  = IF ok /\ m = n THEN p ELSE Find(users, user_count, m)
    BY <1>5, <1>6
  <2> QED
    BY <2>1, PasswordIs
<1>9. user_count' = IF ok THEN user_count + 1 ELSE user_count
  BY <1>5, <1>6
<1>. HIDE DEF tok
<1>10. /\ result' = <<"ADD", n, p, tok>>
       /\ passwordOf' = [m \in Kept |-> IF tok /\ m = n THEN p ELSE passwordOf[m]]
       /\ user_count' = IF tok THEN user_count + 1 ELSE user_count
  BY <1>4, <1>7, <1>8, <1>9
<1> QED
  BY <1>2, <1>10 DEF Table!Add, tok

LEMMA RemoveImplements ==
    ASSUME UsersInv, NEW n \in Name \cup OtherName, user_remove(n)
    PROVE  Table!Delete(n)
<1>1. PICK pos \in user_find(n) :
         /\ IF pos # 0 THEN /\ users' = [users EXCEPT ![pos] = users[user_count]]
                            /\ user_count' = user_count - 1
                       ELSE UNCHANGED <<users, user_count>>
         /\ Done("DEL", n, <<>>, pos # 0)
  BY DEF user_remove
<1>2. /\ UsersInv' /\ n \in Seq(Byte) /\ Table!Names = Kept
      /\ MAX_USER_LENGTH \in Nat /\ Len(n) \in Nat
  BY RemoveKeeps, Given, TableUsers, Bytes, UsersAssumption
<1>3. result' = <<"DEL", n, <<>>, pos # 0>>
  BY <1>1 DEF Done
<1>4. CASE pos = 0
  <2>1. UNCHANGED <<users, user_count>>
    BY <1>1, <1>4
  <2>2. \A i \in InUse : users[i].name = n => Len(n) = MAX_USER_LENGTH
    BY <1>1, <1>2, <1>4, Found
  <2>3. n \in Kept => \A i \in 1 .. user_count : users[i].name # n
    BY <1>2, <2>2 DEF Kept, InUse
  <2>4. n \notin Table!Users
    BY <2>3, TableUsers DEF InUse
  <2>5. n \in Kept => Find(users, user_count, n) = <<>>
    BY <2>3, KeptOnce, FindIs
  <2>6. passwordOf' = [m \in Kept |-> IF m = n THEN <<>> ELSE passwordOf[m]]
    BY <2>1, <2>5, PasswordIs
  <2>7. result' = <<"DEL", n, <<>>, FALSE>> /\ FALSE \in BOOLEAN
    BY <1>3, <1>4
  <2> QED
    BY <1>2, <2>1, <2>4, <2>6, <2>7 DEF Table!Delete
<1>5. CASE pos # 0
  <2>. DEFINE x == users[pos].name
  <2>1. /\ pos \in 1 .. user_count /\ user_count \in 1 .. MAX_USERS
        /\ 1 .. user_count \subseteq 1 .. MAX_USERS
        /\ \/ x = n /\ Len(n) < MAX_USER_LENGTH
           \/ Len(x) = MAX_USER_LENGTH /\ Len(n) > MAX_USER_LENGTH
    BY <1>1, <1>2, <1>5, Found, Sizes DEF UsersInv, InUse
  <2>2. /\ users' = [users EXCEPT ![pos] = users[user_count]]
        /\ user_count' = user_count - 1
    BY <1>1, <1>5
  <2>3. \A i \in 1 .. user_count' : /\ i \in 1 .. user_count /\ i # user_count
                                    /\ user_count \in 1 .. user_count
                                    /\ users'[i] = users[IF i = pos THEN user_count ELSE i]
    BY <2>1, <2>2 DEF UsersInv, UsersTypeOK
  <2>4. ASSUME NEW m \in Kept
        PROVE  Find(users', user_count', m) = IF m = x THEN <<>> ELSE Find(users, user_count, m)
    <3>1. CASE m = x
      <4>1. \A i \in 1 .. user_count' : users'[i].name # m
        BY <2>1, <2>3, <3>1, KeptOnce
      <4> QED
        BY <1>2, <3>1, <4>1, KeptOnce, FindIs
    <3>2. CASE m # x /\ \E i \in 1 .. user_count : users[i].name = m
      <4>1. PICK i \in 1 .. user_count : users[i].name = m
        BY <3>2
      <4>2. i # pos
        BY <2>1, <3>2, <4>1
      <4>3. PICK j \in 1 .. user_count' : users'[j] = users[i]
        <5>1. CASE i = user_count
          <6>1. pos \in 1 .. user_count' /\ users'[pos] = users[i]
            BY <2>1, <2>2, <2>3, <4>2, <5>1
          <6> QED
            BY <6>1
        <5>2. CASE i # user_count
          <6>1. i \in 1 .. user_count' /\ users'[i] = users[i]
            BY <2>1, <2>2, <2>3, <4>2, <5>2
          <6> QED
            BY <6>1
        <5> QED
          BY <5>1, <5>2
      <4>4. Find(users, user_count, m) = users[i].pass
        BY <4>1, KeptOnce, FindIs
      <4>5. Find(users', user_count', m) = users'[j].pass
        BY <1>2, <4>1, <4>3, KeptOnce, FindIs
      <4> QED
        BY <3>2, <4>3, <4>4, <4>5
    <3>3. CASE m # x /\ \A i \in 1 .. user_count : users[i].name # m
      <4>1. Find(users, user_count, m) = <<>>
        BY <3>3, KeptOnce, FindIs
      <4>2. \A i \in 1 .. user_count' : users'[i].name # m
        BY <2>1, <2>3, <3>3
      <4> QED
        BY <1>2, <3>3, <4>1, <4>2, KeptOnce, FindIs
    <3> QED
      BY <3>1, <3>2, <3>3
  <2>. HIDE DEF x
  <2>5. \A m \in Kept : m = x <=> m = n
    BY <1>2, <2>1 DEF Kept
  <2>6. passwordOf' = [m \in Kept |-> IF m = n THEN <<>> ELSE passwordOf[m]]
    BY <2>4, <2>5, PasswordIs
  <2>7. CASE x = n /\ Len(n) < MAX_USER_LENGTH
    <3>1. n \in Table!Users
      BY <2>1, <2>7, TableUsers DEF x, InUse
    <3>2. result' = <<"DEL", n, <<>>, TRUE>> /\ TRUE \in BOOLEAN
      BY <1>3, <1>5
    <3> QED
      BY <1>2, <2>2, <2>6, <3>1, <3>2 DEF Table!Delete
  <2>8. CASE Len(x) = MAX_USER_LENGTH /\ Len(n) > MAX_USER_LENGTH
    <3>1. Table!Hidden
      BY <2>1, <2>8, HiddenUsers DEF x, InUse
    <3>2. result' = <<"DEL", n, <<>>, TRUE>> /\ TRUE \in BOOLEAN
      BY <1>3, <1>5
    <3>3. ~(Len(n) <= MAX_USER_LENGTH)
      BY <1>2, <2>8
    <3> QED
      BY <1>2, <2>2, <2>6, <3>1, <3>2, <3>3 DEF Table!Delete
  <2> QED
    BY <2>1, <2>7, <2>8
<1> QED
  BY <1>4, <1>5

LEMMA CheckImplements ==
    ASSUME UsersInv, NEW n \in Name \cup OtherName, NEW p \in Pass \cup OtherPass,
           user_check_valid(n, p)
    PROVE  Table!Check(n, p)
<1>1. UNCHANGED <<users, user_count>>
  BY DEF user_check_valid
<1>2. PICK valid \in BOOLEAN :
         /\ (\E i \in InUse : MustEqual(i, 0, n) /\ MustEqual(i, MAX_USER_LENGTH, p))
               => valid
         /\ valid => \E i \in InUse : MayEqual(i, 0, n) /\ MayEqual(i, MAX_USER_LENGTH, p)
         /\ result' = <<"PASS", n, p, valid>>
  BY DEF user_check_valid, Done
<1>3. /\ n \in Seq(Byte) /\ p \in Seq(Byte) /\ Len(n) \in Nat /\ MAX_USER_LENGTH \in Nat
      /\ \A i \in InUse : \/ Len(users[i].name) < MAX_USER_LENGTH
                          \/ Len(users[i].name) = MAX_USER_LENGTH
  BY Given, Bytes, Sizes DEF UsersInv
<1>4. \A a, b : Table!IsPrefix(a, b) <=> IsPrefix(a, b)
  BY DEF Table!IsPrefix, IsPrefix
<1>5. ASSUME NEW i \in InUse, MayEqual(i, 0, n), MayEqual(i, MAX_USER_LENGTH, p),
             Len(users[i].name) < MAX_USER_LENGTH
      PROVE  users[i].name = n /\ Table!Begins(n, p)
  <2>1. users[i].name = n /\ IsPrefix(users[i].pass, p)
    BY <1>3, <1>5, NameMatch, PassMatch
  <2>2. n \in Table!Users /\ passwordOf[n] = users[i].pass
    BY <1>5, <2>1, TableUsers
  <2> QED
    BY <1>4, <2>1, <2>2 DEF Table!Begins
<1>6. valid => Table!Begins(n, p) \/ Table!Hidden
  <2>. SUFFICES ASSUME valid PROVE Table!Begins(n, p) \/ Table!Hidden
    OBVIOUS
  <2>1. PICK i \in InUse : MayEqual(i, 0, n) /\ MayEqual(i, MAX_USER_LENGTH, p)
    BY <1>2
  <2> QED
    BY <1>3, <1>5, <2>1, HiddenUsers
<1>7. ASSUME Len(n) <= MAX_USER_LENGTH, NEW i \in InUse, MayEqual(i, 0, n)
      PROVE  Len(users[i].name) < MAX_USER_LENGTH
  BY <1>3, <1>7, NameMatch
<1>8. ASSUME Len(n) <= MAX_USER_LENGTH, valid
      PROVE  Table!Begins(n, p)
  <2>1. PICK i \in InUse : MayEqual(i, 0, n) /\ MayEqual(i, MAX_USER_LENGTH, p)
    BY <1>2, <1>8
  <2> QED
    BY <1>5, <1>7, <1>8, <2>1
<1>9. ASSUME Len(n) <= MAX_USER_LENGTH, n \in Table!Users,
             Len(passwordOf[n]) < MAX_PASS_LENGTH
      PROVE  valid <=> p = passwordOf[n]
  <2>1. n \in Kept
    BY <1>9, TableUsers
  <2>2. PICK i \in InUse : users[i].name = n
    BY <1>9, <2>1, TableUsers
  <2>3. Len(n) < MAX_USER_LENGTH
    BY <1>3, <2>1 DEF Kept
  <2>4. passwordOf[n] = users[i].pass /\ Len(users[i].pass) < MAX_PASS_LENGTH
    BY <1>9, <2>2, <2>3, TableUsers
  <2>5. ASSUME p = users[i].pass
        PROVE  valid
    BY <1>2, <1>3, <2>2, <2>3, <2>4, <2>5, NameMatch, PassMatch
  <2>6. ASSUME valid
        PROVE  p = users[i].pass
    <3>1. PICK j \in InUse : MayEqual(j, 0, n) /\ MayEqual(j, MAX_USER_LENGTH, p)
      BY <1>2, <2>6
    <3>2. users[j].name = n
      BY <1>5, <1>7, <1>9, <3>1
    <3>3. j = i
      BY <2>1, <2>2, <3>2, KeptOnce DEF InUse
    <3> QED
      BY <1>3, <2>4, <3>1, <3>3, PassMatch
  <2> QED
    BY <2>4, <2>5, <2>6
<1>10. passwordOf' = passwordOf /\ user_count' = user_count
  BY <1>1, PasswordIs
<1> QED
  BY <1>2, <1>6, <1>8, <1>9, <1>10 DEF Table!Check

LEMMA InitImplements ==
    ASSUME UsersInit
    PROVE  Table!Init
<1>1. \A n \in Kept : Find(users, user_count, n) = <<>>
  BY DEF UsersInit, Find
<1>2. Table!Names = Kept
  BY DEF Table!Names, Kept
<1> QED
  BY <1>1, <1>2, PasswordIs DEF UsersInit, Table!Init

LEMMA StepImplements ==
    ASSUME UsersInv, [UsersNext]_usersVars
    PROVE  [Table!Next]_(Table!vars)
<1>1. CASE UNCHANGED usersVars
  <2>1. UNCHANGED <<users, user_count, result>>
    BY <1>1 DEF usersVars
  <2>2. passwordOf' = passwordOf
    BY <2>1, PasswordIs
  <2> QED
    BY <2>1, <2>2 DEF Table!vars
<1>2. ASSUME NEW n \in Name \cup OtherName, user_remove(n)
      PROVE  Table!Next
  BY <1>2, RemoveImplements DEF Table!Next
<1>3. ASSUME NEW n \in Name, NEW p \in Pass, user_add(n, p)
      PROVE  Table!Next
  BY <1>3, AddImplements DEF Table!Next
<1>4. ASSUME NEW n \in Name \cup OtherName, NEW p \in Pass \cup OtherPass,
             user_check_valid(n, p)
      PROVE  Table!Next
  BY <1>4, CheckImplements DEF Table!Next
<1> QED
  BY <1>1, <1>2, <1>3, <1>4 DEF UsersNext

(* The array of users.c, with its move of the last entry into the place of *)
(* the one removed, is the table of UserTableAbs: each ADD, DEL and PASS   *)
(* has a result that the table allows (users.c:9-82), whatever the lengths *)
(* of the names and passwords.                                             *)
THEOREM TableImplemented == UsersSpec => ImplementsTable
<1>1. UsersInit => Table!Init
  BY InitImplements
<1>2. UsersInv /\ [UsersNext]_usersVars => [Table!Next]_(Table!vars)
  BY StepImplements
<1> QED
  BY <1>1, <1>2, UsersAlways, PTL DEF UsersSpec, ImplementsTable, Table!Spec
-----------------------------------------------------------------------------
(* -- The manager and the user table -- *)

LEMMA ManagerStepIsUsersStep ==
    [ManagerNext]_managerVars => [UsersNext]_usersVars
<1>. SUFFICES ASSUME [ManagerNext]_managerVars
              PROVE  [UsersNext]_usersVars
  OBVIOUS
<1>1. CASE UNCHANGED managerVars
  BY <1>1 DEF managerVars
<1>2. ASSUME NEW n \in Name \cup OtherName, NEW p \in Pass \cup OtherPass,
             handlePass(n, p)
      PROVE  UsersNext
  BY <1>2 DEF handlePass, UsersNext
<1>3. ASSUME manager_handle_connection
      PROVE  UsersNext \/ UNCHANGED usersVars
  <2>1. PICK q \in Requests : execute_manager_command(q)
    BY <1>3 DEF manager_handle_connection
  <2>2. PICK d \in Datagram : q.state = manager_parser_analyze(d).state
                              /\ q.arg1 = manager_parser_analyze(d).arg1
    BY <2>1 DEF Requests
  <2>3. CASE q.state = "ADD" /\ handleAddUser(q.arg1)
    <3>1. Part(q.arg1, 1) \in Name /\ Part(q.arg1, 2) \in Pass
      BY <2>2, <2>3, ManagerAssumption
    <3> QED
      BY <2>3, <3>1 DEF handleAddUser, UsersNext
  <2>4. CASE q.state = "DEL" /\ handleDeleteUser(q.arg1)
    <3>1. q.arg1 \in Name \cup OtherName
      BY <2>2, <2>4, ManagerAssumption
    <3> QED
      BY <2>4, <3>1 DEF handleDeleteUser, UsersNext
  <2>5. CASE handleStop \/ Report
    BY <2>5 DEF handleStop, Report
  <2> QED
    BY <2>1, <2>3, <2>4, <2>5 DEF execute_manager_command
<1> QED
  BY <1>1, <1>2, <1>3 DEF ManagerNext

(* Whatever a datagram makes of the table is one of the calls of users.c. *)
THEOREM ManagerIsUsers == ManagerSpec => UsersSpec
BY ManagerStepIsUsersStep, PTL DEF ManagerSpec, ManagerInit, UsersSpec

(* The table keeps its type: user_count stays within the array             *)
(* (users.c:10-13, 52).                                                    *)
THEOREM ManagerTypes == ManagerSpec => []UsersTypeOK
<1>1. UsersInv => UsersTypeOK
  BY DEF UsersInv
<1> QED
  BY <1>1, UsersAlways, ManagerIsUsers, PTL

(* A name shorter than its field is in the table once (users.c:33-36). *)
THEOREM ManagerNames == ManagerSpec => []NamesUnique
<1>1. UsersInv => NamesUnique
  BY DEF UsersInv
<1> QED
  BY <1>1, UsersAlways, ManagerIsUsers, PTL

(* The same of the table as the manager and the sessions use it: no word   *)
(* that they give, of whatever length, makes it answer otherwise than the  *)
(* table of UserTableAbs.                                                  *)
THEOREM ManagerTable == ManagerSpec => ImplementsTable
BY ManagerIsUsers, TableImplemented

-----------------------------------------------------------------------------
LEMMA Distance ==
    ASSUME NEW P \in Nat \ {0}, NEW k \in Nat, NEW l \in Nat, k < l
    PROVE  P * k \in Nat /\ P * k + P <= P * l
<1>1. P * (l - k - 1) \in Nat
  <2>1. l - k - 1 \in Nat
    OBVIOUS
  <2> QED
    BY <2>1
<1>2. P * l = P * k + P + P * (l - k - 1)
  OBVIOUS
<1>3. P * k \in Nat
  OBVIOUS
<1> QED
  BY <1>1, <1>2, <1>3

(* Each number is on one page. *)
LEMMA PageOf ==
    ASSUME NEW P \in Nat \ {0}, NEW N \in Nat
    PROVE  \A n \in 0 .. N : \E k \in 0 .. n : P * k <= n /\ n < P * k + P
<1>. DEFINE On(n, k) == P * k <= n /\ n < P * k + P
<1>. DEFINE Q == {n \in 0 .. N : \E k \in 0 .. n : On(n, k)}
<1>1. 0 \in Q
  <2>1. On(0, 0) /\ 0 \in 0 .. 0 /\ 0 \in 0 .. N
    OBVIOUS
  <2>. HIDE DEF On
  <2> QED
    BY <2>1
<1>2. ASSUME NEW n \in 1 .. N, n - 1 \in Q
      PROVE  n \in Q
  <2>1. PICK k \in 0 .. n - 1 : On(n - 1, k)
    BY <1>2
  <2>2. P * k \in Nat /\ P * (k + 1) = P * k + P
    OBVIOUS
  <2>3. k \in 0 .. n /\ k + 1 \in 0 .. n /\ n \in 0 .. N
    BY <2>1
  <2>4. On(n, k) \/ On(n, k + 1)
    BY <2>1, <2>2
  <2>. HIDE DEF On
  <2> QED
    BY <2>3, <2>4
<1>3. Q \in SUBSET (0 .. N)
  OBVIOUS
<1>4. \A n \in 0 .. N : n \in Q
  <2>. HIDE DEF Q
  <2> QED
    BY <1>1, <1>2, <1>3, UpTo
<1> QED
  BY <1>4

(* The entries that the page from o shows. *)
LEMMA PageIs ==
    ASSUME user_count \in Nat, NEW o \in Nat, o <= user_count
    PROVE  \A i : i \in DOMAIN handleUsers(o)
                  <=> i \in Nat /\ o <= i /\ i <= user_count /\ i < o + PAGE
<1>. DEFINE e == o + PAGE - 1
<1>. DEFINE t == {user_count, e}
<1>1. PAGE \in Nat \ {0} /\ e \in Nat
  BY ManagerAssumption
<1>2. t \in SUBSET Nat /\ t # {}
  BY <1>1
<1>3. Min(t) \in t /\ \A i \in t : Min(t) <= i
  <2>. HIDE DEF t
  <2> QED
    BY <1>2, MinIn
<1>4. Min(t) \in Nat /\ Min(t) <= user_count /\ Min(t) <= e /\ (Min(t) = user_count \/ Min(t) = e)
  BY <1>2, <1>3
<1>5. DOMAIN handleUsers(o) = o .. Min(t)
  BY DEF handleUsers
<1>. HIDE DEF t
<1> QED
  BY <1>1, <1>4, <1>5

LEMMA PagesCover ==
    ASSUME UsersTypeOK
    PROVE  PagesCoverTable
<1>. DEFINE Page(k) == DOMAIN handleUsers(1 + PAGE * k)
<1>. DEFINE asked == {k \in 0 .. user_count : 1 + PAGE * k <= user_count}
<1>1. user_count \in Nat /\ PAGE \in Nat \ {0}
  BY UsersAssumption, ManagerAssumption DEF UsersTypeOK
<1>2. ASSUME NEW k \in asked
      PROVE  /\ PAGE * k \in Nat
             /\ \A i : i \in Page(k) <=> /\ i \in Nat /\ 1 + PAGE * k <= i
                                         /\ i <= user_count /\ i <= PAGE * k + PAGE
  <2>1. k \in Nat /\ 1 + PAGE * k <= user_count
    BY <1>1
  <2>2. PAGE * k \in Nat
    BY <1>1, <2>1
  <2>3. 1 + PAGE * k \in Nat
    BY <2>2
  <2>4. \A i : i \in Page(k) <=> /\ i \in Nat /\ 1 + PAGE * k <= i /\ i <= user_count
                                 /\ i < (1 + PAGE * k) + PAGE
    <3>. DEFINE o == 1 + PAGE * k
    <3>1. o \in Nat /\ o <= user_count
      BY <2>1, <2>3
    <3>. HIDE DEF o
    <3>2. \A i : i \in DOMAIN handleUsers(o)
                  <=> i \in Nat /\ o <= i /\ i <= user_count /\ i < o + PAGE
      BY <1>1, <3>1, PageIs
    <3> QED
      BY <3>2 DEF o
  <2>. HIDE DEF Page
  <2> QED
    BY <1>1, <2>2, <2>4
<1>3. ASSUME NEW i \in InUse
      PROVE  \E k \in asked : i \in Page(k)
  <2>1. i \in 1 .. user_count /\ i - 1 \in 0 .. user_count
    BY <1>1 DEF InUse
  <2>2. PICK k \in 0 .. i - 1 : PAGE * k <= i - 1 /\ i - 1 < PAGE * k + PAGE
    BY <1>1, <2>1, PageOf
  <2>3. PAGE * k \in Nat
    BY <1>1, <2>2
  <2>4. k \in asked
    BY <1>1, <2>1, <2>2, <2>3
  <2>. HIDE DEF asked, Page
  <2> QED
    BY <1>1, <1>2, <2>1, <2>2, <2>3, <2>4
<1>4. \A k \in asked : Page(k) \subseteq InUse
  <2>. HIDE DEF asked, Page
  <2> QED
    BY <1>1, <1>2 DEF InUse
<1>5. ASSUME NEW k \in asked, NEW l \in asked, k < l
      PROVE  Page(k) \cap Page(l) = {}
  <2>1. k \in Nat /\ l \in Nat
    BY <1>1
  <2>2. PAGE * k \in Nat /\ PAGE * l \in Nat /\ PAGE * k + PAGE <= PAGE * l
    BY <1>1, <1>2, <1>5, <2>1, Distance
  <2>. HIDE DEF asked, Page
  <2> QED
    BY <1>1, <1>2, <2>2
<1>6. \A k, l \in asked : k # l => k < l \/ l < k
  BY <1>1
<1>7. UNION {Page(k) : k \in asked} = InUse
  <2>. HIDE DEF asked, Page
  <2> QED
    BY <1>3, <1>4
<1>8. \A k, l \in asked : k # l => Page(k) \cap Page(l) = {}
  <2>. HIDE DEF asked, Page
  <2> QED
    BY <1>5, <1>6
<1> QED
  BY <1>7, <1>8 DEF PagesCoverTable

(* Asking USERS for one page after the other shows every user once, for    *)
(* every table and every length of a page (manager_handler.c).             *)
THEOREM ManagerPages == ManagerSpec => []PagesCoverTable
BY PagesCover, ManagerTypes, PTL
-----------------------------------------------------------------------------
(* -- Words, and the parser, token by token -- *)

WordState(T) == [words : Seq(Seq(T)), last : Seq(T)]
NoWords      == [words |-> <<>>, last |-> <<>>]
NextWord(w, t, sep) == IF t = sep THEN [words |-> Ended(w), last |-> <<>>]
                       ELSE [w EXCEPT !.last = Append(@, t)]

LEMMA EndedType ==
    ASSUME NEW T, NEW w \in WordState(T)
    PROVE  Ended(w) \in Seq(Seq(T))
<1>1. w.words \in Seq(Seq(T)) /\ w.last \in Seq(T)
  BY DEF WordState
<1> QED
  BY <1>1, AppendProperties DEF Ended

LEMMA WordType ==
    ASSUME NEW T, NEW w \in WordState(T), NEW t \in T, NEW sep
    PROVE  NextWord(w, t, sep) \in WordState(T)
<1>1. w.last \in Seq(T) /\ Ended(w) \in Seq(Seq(T))
  BY EndedType DEF WordState
<1>2. Append(w.last, t) \in Seq(T) /\ <<>> \in Seq(T)
  BY <1>1, AppendProperties
<1>3. [words |-> Ended(w), last |-> <<>>] \in WordState(T)
  BY <1>1, <1>2 DEF WordState
<1>4. [w EXCEPT !.last = Append(@, t)] \in WordState(T)
  BY <1>2 DEF WordState
<1> QED
  BY <1>3, <1>4 DEF NextWord

(* W[n] is what cutting s at sep has after its first n tokens. *)
WordsRun(W, s, sep, T) ==
    /\ W \in [0 .. Len(s) -> WordState(T)]
    /\ W[0] = NoWords /\ Words(s, sep) = Ended(W[Len(s)])
    /\ \A n \in 1 .. Len(s) : W[n] = NextWord(W[n - 1], s[n], sep)

LEMMA WordsSteps ==
    ASSUME NEW T, NEW s \in Seq(T), NEW sep
    PROVE  \E W : WordsRun(W, s, sep, T)
<1>. DEFINE N == Len(s)
<1>. DEFINE S == WordState(T)
<1>. DEFINE base == NoWords
<1>. DEFINE h == [x \in S \X (1 .. N) |-> NextWord(x[1], s[x[2]], sep)]
<1>1. N \in Nat /\ DOMAIN s = 1 .. N /\ \A i \in 1 .. N : s[i] \in T
  BY LenProperties, ElementOfSeq
<1>2. base \in S
  BY DEF NoWords, WordState
<1>3. h \in [S \X (1 .. N) -> S]
  BY <1>1, WordType
<1>4. \A q \in S, n \in 1 .. N : h[<<q, n>>] = NextWord(q, s[n], sep)
  OBVIOUS
<1>. HIDE DEF S, h, base, N
<1>5. PICK g : FoldsSets(g, S, N, base, h)
  BY <1>1, <1>2, <1>3, FoldExists
<1>6. g = [t \in SUBSET (DOMAIN s) |->
             IF t = {} THEN base ELSE NextWord(g[t \ {Max(t)}], s[Max(t)], sep)]
  <2>1. ASSUME NEW t \in SUBSET (1 .. N), t # {}
        PROVE  h[<<g[t \ {Max(t)}], Max(t)>>]
               = NextWord(g[t \ {Max(t)}], s[Max(t)], sep)
    <3>1. Max(t) \in 1 .. N /\ t \ {Max(t)} \in SUBSET (1 .. N)
      BY <1>1, <2>1, MaxIn
    <3> QED
      BY <1>4, <1>5, <3>1 DEF FoldsSets
  <2> QED
    BY <1>1, <1>5, <2>1 DEF FoldsSets
<1>7. PICK iter :
         /\ iter = [t \in SUBSET (DOMAIN s) |->
                      IF t = {} THEN base
                      ELSE NextWord(iter[t \ {Max(t)}], s[Max(t)], sep)]
         /\ Words(s, sep) = Ended(iter[DOMAIN s])
  BY <1>6 DEF Words, FoldLeft, MapThenFoldSet, base, NoWords, NextWord
<1>8. iter[{}] = base
  BY <1>7
<1>9. \A t \in SUBSET (1 .. N) : t # {} /\ iter[t \ {Max(t)}] \in S
         => iter[t] = h[<<iter[t \ {Max(t)}], Max(t)>>]
  <2>. SUFFICES ASSUME NEW t \in SUBSET (1 .. N), t # {}, iter[t \ {Max(t)}] \in S
                PROVE  iter[t] = h[<<iter[t \ {Max(t)}], Max(t)>>]
    OBVIOUS
  <2>1. Max(t) \in 1 .. N
    BY <1>1, MaxIn
  <2>2. iter[t] = NextWord(iter[t \ {Max(t)}], s[Max(t)], sep)
    BY <1>1, <1>7
  <2> QED
    BY <1>4, <2>1, <2>2
<1>10. FoldsWithin(iter, S, N, base, h)
  BY <1>8, <1>9 DEF FoldsWithin
<1>11. PICK W : FoldsUpTo(W, iter[1 .. N], S, N, base, h)
  BY <1>1, <1>2, <1>3, <1>10, FoldSteps
<1>12. ASSUME NEW n \in 1 .. N
       PROVE  W[n] = NextWord(W[n - 1], s[n], sep)
  <2>1. n - 1 \in 0 .. N
    BY <1>1
  <2> QED
    BY <1>4, <1>11, <2>1 DEF FoldsUpTo
<1> QED
  BY <1>1, <1>7, <1>11, <1>12 DEF S, base, N, FoldsUpTo, WordsRun

ParserState(T) == [state : Verb \cup {"UNDEF", "ERROR"}, line : Seq(T), arg1 : Seq(T)]

LEMMA FeedType ==
    ASSUME NEW T, NEW q \in ParserState(T), NEW c \in T
    PROVE  manager_parser_feed(q, c) \in ParserState(T)
<1>1. q.line \in Seq(T) /\ q.arg1 \in Seq(T) /\ q.state \in Verb \cup {"UNDEF", "ERROR"}
  BY DEF ParserState
<1>2. getParserState(q.line) \in Verb \cup {"UNDEF", "ERROR"}
  BY DEF getParserState
<1>3. m_process_buffer(q) \in ParserState(T)
  BY <1>1, <1>2 DEF m_process_buffer, ParserState
<1>4. <<>> \in Seq(T) /\ Append(q.line, c) \in Seq(T)
  BY <1>1
<1>5. [m_process_buffer(q) EXCEPT !.line = <<>>] \in ParserState(T)
  BY <1>3, <1>4 DEF ParserState
<1>6. [q EXCEPT !.line = Append(@, c)] \in ParserState(T)
  BY <1>4 DEF ParserState
<1>7. [q EXCEPT !.state = "ERROR"] \in ParserState(T)
  BY DEF ParserState
<1> QED
  BY <1>3, <1>5, <1>6, <1>7 DEF manager_parser_feed

(* F[n] is the parser after the first n tokens of d. *)
ParserRun(F, d, T) ==
    /\ F \in [0 .. Len(d) -> ParserState(T)]
    /\ F[0] = manager_parser_init /\ manager_parser_analyze(d) = F[Len(d)]
    /\ \A n \in 1 .. Len(d) : F[n] = manager_parser_feed(F[n - 1], d[n])

LEMMA AnalyzeSteps ==
    ASSUME NEW T, NEW d \in Seq(T)
    PROVE  \E F : ParserRun(F, d, T)
<1>. DEFINE N == Len(d)
<1>. DEFINE S == ParserState(T)
<1>. DEFINE base == manager_parser_init
<1>. DEFINE h == [x \in S \X (1 .. N) |-> manager_parser_feed(x[1], d[x[2]])]
<1>1. N \in Nat /\ DOMAIN d = 1 .. N /\ \A i \in 1 .. N : d[i] \in T
  BY LenProperties, ElementOfSeq
<1>2. base \in S
  BY DEF manager_parser_init, ParserState
<1>3. h \in [S \X (1 .. N) -> S]
  BY <1>1, FeedType
<1>4. \A q \in S, n \in 1 .. N : h[<<q, n>>] = manager_parser_feed(q, d[n])
  OBVIOUS
<1>. HIDE DEF S, h, base, N
<1>5. PICK g : FoldsSets(g, S, N, base, h)
  BY <1>1, <1>2, <1>3, FoldExists
<1>6. g = [t \in SUBSET (DOMAIN d) |->
             IF t = {} THEN base ELSE manager_parser_feed(g[t \ {Max(t)}], d[Max(t)])]
  <2>1. ASSUME NEW t \in SUBSET (1 .. N), t # {}
        PROVE  h[<<g[t \ {Max(t)}], Max(t)>>]
               = manager_parser_feed(g[t \ {Max(t)}], d[Max(t)])
    <3>1. Max(t) \in 1 .. N /\ t \ {Max(t)} \in SUBSET (1 .. N)
      BY <1>1, <2>1, MaxIn
    <3> QED
      BY <1>4, <1>5, <3>1 DEF FoldsSets
  <2> QED
    BY <1>1, <1>5, <2>1 DEF FoldsSets
<1>7. PICK iter :
         /\ iter = [t \in SUBSET (DOMAIN d) |->
                      IF t = {} THEN base
                      ELSE manager_parser_feed(iter[t \ {Max(t)}], d[Max(t)])]
         /\ manager_parser_analyze(d) = iter[DOMAIN d]
  BY <1>6 DEF manager_parser_analyze, FoldLeft, MapThenFoldSet, base
<1>8. iter[{}] = base
  BY <1>7
<1>9. \A t \in SUBSET (1 .. N) : t # {} /\ iter[t \ {Max(t)}] \in S
         => iter[t] = h[<<iter[t \ {Max(t)}], Max(t)>>]
  <2>. SUFFICES ASSUME NEW t \in SUBSET (1 .. N), t # {}, iter[t \ {Max(t)}] \in S
                PROVE  iter[t] = h[<<iter[t \ {Max(t)}], Max(t)>>]
    OBVIOUS
  <2>1. Max(t) \in 1 .. N
    BY <1>1, MaxIn
  <2>2. iter[t] = manager_parser_feed(iter[t \ {Max(t)}], d[Max(t)])
    BY <1>1, <1>7
  <2> QED
    BY <1>4, <2>1, <2>2
<1>. HIDE DEF h
<1>10. FoldsWithin(iter, S, N, base, h)
  BY <1>8, <1>9 DEF FoldsWithin
<1>11. PICK F : FoldsUpTo(F, iter[1 .. N], S, N, base, h)
  BY <1>1, <1>2, <1>3, <1>10, FoldSteps
<1>12. ASSUME NEW n \in 1 .. N
       PROVE  F[n] = manager_parser_feed(F[n - 1], d[n])
  <2>1. n - 1 \in 0 .. N
    BY <1>1
  <2> QED
    BY <1>4, <1>11, <2>1 DEF FoldsUpTo
<1> QED
  BY <1>1, <1>7, <1>11, <1>12 DEF S, base, N, FoldsUpTo, ParserRun
-----------------------------------------------------------------------------
(* -- The parser on the first line, and after it -- *)

(* The parser q and the words w of the line so far. *)
Follows(q, w) ==
    /\ q.line = w.last
    /\ q.state = "UNDEF" => w.words = <<>> /\ q.arg1 = <<>>
    /\ q.state \in Verb =>
          /\ w.words # <<>> /\ w.words[1] = <<q.state>>
          /\ IF q.arg1 = <<>> THEN Len(w.words) = 1
             ELSE Len(w.words) >= 2 /\ w.words[2] = q.arg1

Agrees(q, ws) ==
    q.state \in Verb => /\ ws # <<>> /\ ws[1] = <<q.state>>
                        /\ q.arg1 # <<>> => Len(ws) >= 2 /\ ws[2] = q.arg1

LEMMA VerbLine ==
    ASSUME NEW T, NEW l \in Seq(T), getParserState(l) # "ERROR"
    PROVE  getParserState(l) \in Verb /\ l = <<getParserState(l)>>
<1>1. l # <<>> /\ Tail(l) = <<>> /\ Head(l) \in Verb /\ getParserState(l) = Head(l)
  BY DEF getParserState
<1>2. Len(l) = 1 /\ Head(l) = l[1]
  <2>1. Len(Tail(l)) = 0
    <3>. DEFINE t == Tail(l)
    <3>1. t = <<>>
      BY <1>1
    <3>. HIDE DEF t
    <3>2. Len(t) = 0
      BY <3>1
    <3> QED
      BY <3>2 DEF t
  <2>2. Len(Tail(l)) = Len(l) - 1 /\ Len(l) \in Nat
    BY <1>1, HeadTailProperties, LenProperties
  <2>3. Len(l) = 1
    BY <2>1, <2>2
  <2> QED
    BY <2>3
<1>3. l = <<l[1]>>
  BY <1>2
<1> QED
  BY <1>1, <1>2, <1>3

LEMMA ProcessFollows ==
    ASSUME NEW T, NEW q \in ParserState(T), NEW w \in WordState(T), Follows(q, w)
    PROVE  LET r == m_process_buffer(q) IN
              /\ r \in ParserState(T) /\ r.state # "UNDEF" /\ r.line = q.line
              /\ Agrees(r, Ended(w))
              /\ r.state \in Verb /\ r.arg1 = <<>> => Len(Ended(w)) = 1
              /\ r.state \in Verb /\ q.line # <<>> => r.arg1 # <<>> \/ q.line[1] \in Verb
<1>. DEFINE r == m_process_buffer(q)
<1>1. /\ q.line \in Seq(T) /\ q.arg1 \in Seq(T) /\ q.state \in Verb \cup {"UNDEF", "ERROR"}
      /\ w.last \in Seq(T) /\ w.words \in Seq(Seq(T)) /\ q.line = w.last
  BY DEF ParserState, WordState, Follows
<1>2. "UNDEF" \notin Verb /\ "ERROR" \notin Verb
  BY DEF Verb
<1>3. Len(w.words) \in Nat
  BY <1>1, LenProperties
<1>4. CASE q.state = "UNDEF"
  <2>1. r = [q EXCEPT !.state = getParserState(q.line)]
    BY <1>4 DEF m_process_buffer
  <2>2. w.words = <<>> /\ q.arg1 = <<>>
    BY <1>4 DEF Follows
  <2>3. r.state = getParserState(q.line) /\ r.line = q.line /\ r.arg1 = <<>>
    BY <2>1, <2>2 DEF ParserState
  <2>4. r.state \in Verb \cup {"ERROR"} /\ r \in ParserState(T)
    BY <1>1, <2>1 DEF ParserState, getParserState
  <2>5. r.state \in Verb => q.line = <<r.state>> /\ Ended(w) = <<q.line>>
    <3>1. r.state \in Verb => q.line = <<r.state>>
      BY <1>1, <1>2, <2>3, VerbLine
    <3>2. r.state \in Verb => q.line # <<>>
      <4>1. \A x : <<x>> # <<>>
        OBVIOUS
      <4>. HIDE DEF r
      <4> QED
        BY <3>1, <4>1
    <3>3. w.last # <<>> => Ended(w) = Append(<<>>, w.last)
      BY <2>2 DEF Ended
    <3>4. Append(<<>>, w.last) = <<w.last>>
      BY <1>1
    <3> QED
      BY <1>1, <3>1, <3>2, <3>3, <3>4
  <2>. HIDE DEF r
  <2> QED
    BY <1>2, <2>3, <2>4, <2>5 DEF Agrees, r
<1>5. CASE q.state = "ERROR"
  <2>1. r = q
    BY <1>5 DEF m_process_buffer
  <2>. HIDE DEF r
  <2> QED
    BY <1>2, <1>5, <2>1 DEF Agrees, r
<1>6. CASE q.state \in Verb
  <2>1. /\ w.words # <<>> /\ w.words[1] = <<q.state>>
        /\ IF q.arg1 = <<>> THEN Len(w.words) = 1
           ELSE Len(w.words) >= 2 /\ w.words[2] = q.arg1
    BY <1>6 DEF Follows
  <2>2. r = IF q.arg1 = <<>> THEN [q EXCEPT !.arg1 = q.line] ELSE q
    BY <1>2, <1>6 DEF m_process_buffer
  <2>3. r.state = q.state /\ r.line = q.line
        /\ r.arg1 = IF q.arg1 = <<>> THEN q.line ELSE q.arg1
    BY <2>2 DEF ParserState
  <2>4. r \in ParserState(T)
    BY <1>1, <2>2 DEF ParserState
  <2>5. q.line # <<>> => /\ Len(Ended(w)) = Len(w.words) + 1
                         /\ Ended(w)[Len(w.words) + 1] = q.line
                         /\ \A i \in 1 .. Len(w.words) : Ended(w)[i] = w.words[i]
    BY <1>1, AppendProperties DEF Ended
  <2>6. q.line = <<>> => Ended(w) = w.words
    BY <1>1 DEF Ended
  <2>7. Ended(w) # <<>> /\ Ended(w)[1] = <<q.state>>
    BY <1>1, <1>3, <2>1, <2>5, <2>6
  <2>8. r.arg1 # <<>> => Len(Ended(w)) >= 2 /\ Ended(w)[2] = r.arg1
    BY <1>1, <1>3, <2>1, <2>3, <2>5, <2>6
  <2>9. r.arg1 = <<>> => Len(Ended(w)) = 1
    BY <1>1, <1>3, <2>1, <2>3, <2>5, <2>6
  <2>. HIDE DEF r
  <2> QED
    BY <1>2, <1>6, <2>3, <2>4, <2>7, <2>8, <2>9 DEF Agrees, r
<1> QED
  BY <1>1, <1>4, <1>5, <1>6

LEMMA FeedFollows ==
    ASSUME NEW T, NEW q \in ParserState(T), NEW w \in WordState(T), Follows(q, w),
           NEW c \in T, c # "LF"
    PROVE  Follows(manager_parser_feed(q, c), NextWord(w, c, "SP"))
<1>1. CASE c = "SP"
  <2>. DEFINE r == m_process_buffer(q)
  <2>1. /\ r \in ParserState(T) /\ r.state # "UNDEF" /\ Agrees(r, Ended(w))
        /\ r.state \in Verb /\ r.arg1 = <<>> => Len(Ended(w)) = 1
    BY ProcessFollows
  <2>2. NextWord(w, c, "SP") = [words |-> Ended(w), last |-> <<>>]
    BY <1>1 DEF NextWord
  <2>3. manager_parser_feed(q, c) = [r EXCEPT !.line = <<>>]
    BY <1>1 DEF manager_parser_feed
  <2>. HIDE DEF r
  <2>4. [r EXCEPT !.line = <<>>].line = <<>> /\ [r EXCEPT !.line = <<>>].state = r.state
        /\ [r EXCEPT !.line = <<>>].arg1 = r.arg1
    BY <2>1 DEF ParserState
  <2> QED
    BY <2>1, <2>2, <2>3, <2>4 DEF Follows, Agrees
<1>2. CASE c # "SP"
  <2>1. NextWord(w, c, "SP") = [w EXCEPT !.last = Append(@, c)]
    BY <1>2 DEF NextWord
  <2>2. manager_parser_feed(q, c) = [q EXCEPT !.line = Append(@, c)]
    BY <1>2 DEF manager_parser_feed
  <2> QED
    BY <2>1, <2>2 DEF Follows, ParserState, WordState
<1> QED
  BY <1>1, <1>2

LEMMA FirstTokens ==
    ASSUME NEW T, NEW d \in Seq(T), NEW m \in 1 .. Len(d)
    PROVE  /\ SubSeq(d, 1, m) \in Seq(T) /\ Len(SubSeq(d, 1, m)) = m
           /\ \A i \in 1 .. m : SubSeq(d, 1, m)[i] = d[i]
           /\ SubSeq(d, 1, m) = Append(SubSeq(d, 1, m - 1), d[m])
           /\ SubSeq(d, 1, 0) = <<>>
<1>1. SubSeq(d, 1, m) \in Seq(T) /\ Len(SubSeq(d, 1, m)) = m
      /\ \A i \in 1 .. m : SubSeq(d, 1, m)[i] = d[i]
  OBVIOUS
<1>2. SubSeq(d, 1, 0) = <<>>
  OBVIOUS
<1>3. SubSeq(d, 1, m) = Append(SubSeq(d, 1, m - 1), d[m])
  OBVIOUS
<1> QED
  BY <1>1, <1>2, <1>3

LEMMA AppendFirst ==
    ASSUME NEW T, NEW s \in Seq(T), NEW e \in T, s # <<>>
    PROVE  Append(s, e) # <<>> /\ Append(s, e)[1] = s[1]
<1>1. Len(s) \in Nat /\ Len(s) # 0
  BY LenProperties, EmptySeq
<1>2. Len(Append(s, e)) = Len(s) + 1 /\ Append(s, e)[1] = s[1]
  BY <1>1, AppendProperties
<1>3. Len(<<>>) = 0
  OBVIOUS
<1> QED
  BY <1>1, <1>2, <1>3

(* Where the first part of d ends. *)
LEMMA LineEnd ==
    ASSUME NEW T, NEW d \in Seq(T), NEW sep, d # <<>>, d[1] # sep
    PROVE  \E m \in 1 .. Len(d) : /\ \A i \in 1 .. m : d[i] # sep
                                  /\ m < Len(d) => d[m + 1] = sep
<1>. DEFINE N == Len(d)
<1>. DEFINE Ends(m) == (\A i \in 1 .. m : d[i] # sep) /\ d[m + 1] = sep
<1>. DEFINE P == {n \in 0 .. N : \/ \A i \in 1 .. n : d[i] # sep
                                 \/ \E m \in 1 .. n - 1 : Ends(m)}
<1>1. N \in Nat /\ N >= 1
  BY EmptySeq, LenProperties
<1>2. 0 \in P
  BY <1>1
<1>3. ASSUME NEW n \in 1 .. N, n - 1 \in P
      PROVE  n \in P
  <2>1. CASE \E m \in 1 .. (n - 1) - 1 : Ends(m)
    <3>1. PICK m \in 1 .. (n - 1) - 1 : Ends(m)
      BY <2>1
    <3>2. m \in 1 .. n - 1 /\ n \in 0 .. N
      BY <3>1
    <3>. HIDE DEF Ends, N
    <3> QED
      BY <3>1, <3>2
  <2>2. CASE (\A i \in 1 .. n - 1 : d[i] # sep) /\ d[n] # sep
    <3>1. \A i \in 1 .. n : d[i] # sep
      BY <2>2
    <3> QED
      BY <3>1
  <2>3. CASE (\A i \in 1 .. n - 1 : d[i] # sep) /\ d[n] = sep
    <3>1. n # 1
      BY <2>3
    <3>2. Ends(n - 1) /\ n - 1 \in 1 .. n - 1 /\ n \in 0 .. N
      BY <2>3, <3>1
    <3>. HIDE DEF Ends, N
    <3> QED
      BY <3>2
  <2>4. (\A i \in 1 .. n - 1 : d[i] # sep) \/ \E m \in 1 .. (n - 1) - 1 : Ends(m)
    BY <1>3
  <2> QED
    BY <2>1, <2>2, <2>3, <2>4
<1>4. \A n \in 0 .. N : n \in P
  <2>1. P \in SUBSET (0 .. N)
    OBVIOUS
  <2>. HIDE DEF P, N
  <2> QED
    BY <1>1, <1>2, <1>3, <2>1, UpTo
<1>5. N \in P
  BY <1>1, <1>4
<1>6. CASE \A i \in 1 .. N : d[i] # sep
  BY <1>1, <1>6
<1>7. CASE \E m \in 1 .. N - 1 : Ends(m)
  <2>1. PICK m \in 1 .. N - 1 : Ends(m)
    BY <1>7
  <2>2. m \in 1 .. Len(d)
    BY <1>1, <2>1
  <2> QED
    BY <2>1, <2>2
<1> QED
  BY <1>5, <1>6, <1>7

(* The first of the words of d is d up to there. *)
LEMMA FirstLine ==
    ASSUME NEW T, NEW d \in Seq(T), NEW sep, NEW m \in 1 .. Len(d),
           \A i \in 1 .. m : d[i] # sep, m < Len(d) => d[m + 1] = sep
    PROVE  Words(d, sep) # <<>> /\ Words(d, sep)[1] = SubSeq(d, 1, m)
<1>. DEFINE N == Len(d)
<1>. DEFINE x == SubSeq(d, 1, m)
<1>1. PICK W : WordsRun(W, d, sep, T)
  BY WordsSteps
<1>2. /\ N \in Nat /\ m \in 1 .. N
      /\ W \in [0 .. N -> WordState(T)] /\ W[0] = NoWords /\ Words(d, sep) = Ended(W[N])
      /\ \A n \in 1 .. N : W[n] = NextWord(W[n - 1], d[n], sep)
  BY <1>1, LenProperties DEF WordsRun
<1>3. x \in Seq(T) /\ Len(x) = m /\ x # <<>>
  <2>1. x \in Seq(T) /\ Len(x) = m
    BY FirstTokens
  <2>. HIDE DEF x
  <2> QED
    BY <1>2, <2>1
<1>. DEFINE In(n)   == W[n] = [words |-> <<>>, last |-> SubSeq(d, 1, n)]
<1>. DEFINE Past(n) == W[n].words # <<>> /\ W[n].words[1] = x
<1>. DEFINE P == {n \in 0 .. N : IF n <= m THEN In(n) ELSE Past(n)}
<1>4. 0 \in P
  <2>1. SubSeq(d, 1, 0) = <<>>
    BY FirstTokens
  <2>2. In(0) /\ 0 \in 0 .. N /\ 0 <= m
    BY <1>2, <2>1 DEF NoWords
  <2>. HIDE DEF In, Past
  <2> QED
    BY <2>2
<1>5. \A n \in 0 .. N : /\ W[n] \in WordState(T) /\ W[n].words \in Seq(Seq(T))
                        /\ W[n].last \in Seq(T)
  BY <1>2 DEF WordState
<1>6. ASSUME NEW n \in 1 .. N, n - 1 \in P
      PROVE  n \in P
  <2>1. W[n] = NextWord(W[n - 1], d[n], sep) /\ n - 1 \in 0 .. N /\ n \in 0 .. N
    BY <1>2
  <2>2. CASE n <= m
    <3>1. In(n - 1) /\ d[n] # sep
      BY <1>6, <2>2
    <3>2. SubSeq(d, 1, n) = Append(SubSeq(d, 1, n - 1), d[n])
      BY FirstTokens
    <3>3. W[n] = [W[n - 1] EXCEPT !.last = Append(@, d[n])]
      BY <2>1, <3>1 DEF NextWord
    <3>4. In(n)
      <4>. DEFINE a == SubSeq(d, 1, n - 1)
      <4>. DEFINE b == SubSeq(d, 1, n)
      <4>1. W[n - 1] = [words |-> <<>>, last |-> a] /\ b = Append(a, d[n])
        BY <3>1, <3>2
      <4>. HIDE DEF a, b
      <4>2. W[n] = [words |-> <<>>, last |-> b]
        <5>. DEFINE w == W[n - 1]
        <5>1. w = [words |-> <<>>, last |-> a]
          BY <4>1
        <5>2. W[n] = [w EXCEPT !.last = Append(w.last, d[n])]
          BY <3>3
        <5>. HIDE DEF w
        <5>3. w.last = a
          BY <5>1
        <5>4. W[n] = [w EXCEPT !.last = b]
          BY <4>1, <5>2, <5>3
        <5> QED
          BY <5>1, <5>4
      <4> QED
        BY <4>2 DEF b
    <3>. HIDE DEF In, Past
    <3> QED
      BY <2>1, <2>2, <3>4
  <2>3. CASE n = m + 1
    <3>1. In(n - 1) /\ n - 1 = m /\ d[n] = sep
      BY <1>2, <1>6, <2>3
    <3>2. W[n - 1].words = <<>> /\ W[n - 1].last = x
      BY <3>1
    <3>. HIDE DEF x, In
    <3>3. Ended(W[n - 1]) = Append(<<>>, x)
      BY <1>3, <3>2 DEF Ended
    <3>4. W[n].words = Append(<<>>, x)
      BY <2>1, <3>1, <3>3 DEF NextWord
    <3>5. Append(<<>>, x) # <<>> /\ Append(<<>>, x)[1] = x
      OBVIOUS
    <3>6. Past(n)
      BY <3>4, <3>5
    <3>. HIDE DEF Past
    <3> QED
      BY <2>1, <2>3, <3>6
  <2>4. CASE n > m + 1
    <3>1. Past(n - 1)
      BY <1>2, <1>6, <2>4
    <3>. HIDE DEF x, In
    <3>2. W[n].words = W[n - 1].words \/ W[n].words = Append(W[n - 1].words, W[n - 1].last)
      <4>1. d[n] # sep => W[n].words = W[n - 1].words
        BY <1>5, <2>1 DEF NextWord
      <4>2. d[n] = sep => W[n].words = Ended(W[n - 1])
        BY <2>1 DEF NextWord
      <4> QED
        BY <4>1, <4>2 DEF Ended
    <3>3. W[n - 1].words \in Seq(Seq(T)) /\ W[n - 1].last \in Seq(T)
      BY <1>5, <2>1
    <3>4. /\ Append(W[n - 1].words, W[n - 1].last) # <<>>
          /\ Append(W[n - 1].words, W[n - 1].last)[1] = W[n - 1].words[1]
      BY <3>1, <3>3, AppendFirst
    <3>5. Past(n)
      BY <3>1, <3>2, <3>4
    <3>. HIDE DEF Past
    <3> QED
      BY <2>1, <2>4, <3>5
  <2> QED
    BY <2>2, <2>3, <2>4
<1>7. N \in P
  <2>1. P \in SUBSET (0 .. N)
    OBVIOUS
  <2>. HIDE DEF P, N
  <2>2. \A n \in 0 .. N : n \in P
    BY <1>2, <1>4, <1>6, <2>1, UpTo
  <2> QED
    BY <1>2, <2>2
<1>8. CASE N = m
  <2>1. W[N].words = <<>> /\ W[N].last = x
    BY <1>7, <1>8
  <2>. HIDE DEF x
  <2>2. Ended(W[N]) = Append(<<>>, x)
    BY <1>3, <2>1 DEF Ended
  <2> QED
    BY <1>2, <2>2 DEF x
<1>9. CASE N # m
  <2>1. Past(N)
    BY <1>2, <1>7, <1>9
  <2>2. Ended(W[N]) = W[N].words \/ Ended(W[N]) = Append(W[N].words, W[N].last)
    BY DEF Ended
  <2>. HIDE DEF x
  <2>3. W[N].words \in Seq(Seq(T)) /\ W[N].last \in Seq(T)
    BY <1>2, <1>5
  <2>4. /\ Append(W[N].words, W[N].last) # <<>>
        /\ Append(W[N].words, W[N].last)[1] = W[N].words[1]
    BY <2>1, <2>3, AppendFirst
  <2>5. Ended(W[N]) # <<>> /\ Ended(W[N])[1] = x
    BY <2>1, <2>2, <2>4
  <2> QED
    BY <1>2, <2>5 DEF x
<1> QED
  BY <1>8, <1>9

LEMMA FirstPart ==
    ASSUME NEW T, NEW s \in Seq(T), NEW sep, s # <<>>, s[1] # sep
    PROVE  Words(s, sep)[1][1] = s[1]
<1>1. PICK m \in 1 .. Len(s) : /\ \A i \in 1 .. m : s[i] # sep
                               /\ m < Len(s) => s[m + 1] = sep
  BY LineEnd
<1>2. Words(s, sep)[1] = SubSeq(s, 1, m)
  BY <1>1, FirstLine
<1>3. 1 \in 1 .. m
  BY LenProperties
<1> QED
  BY <1>2, <1>3, FirstTokens

LEMMA NoParts == ASSUME NEW sep PROVE Words(<<>>, sep) = <<>>
<1>. DEFINE T == {}
<1>1. <<>> \in Seq(T) /\ Len(<<>>) = 0
  OBVIOUS
<1>2. PICK W : WordsRun(W, <<>>, sep, T)
  <2>. HIDE DEF T
  <2> QED
    BY <1>1, WordsSteps
<1> QED
  BY <1>1, <1>2 DEF WordsRun, NoWords, Ended

(* The parser after the first line, whose words are ws. *)
After(q, ws) ==
    /\ q.state # "UNDEF"
    /\ q.state \in Verb =>
          /\ ws # <<>> /\ ws[1] = <<q.state>>
          /\ IF q.arg1 = <<>> THEN q.line # <<>> /\ q.line[1] \in Verb
             ELSE (Len(ws) >= 2 /\ ws[2] = q.arg1) \/ q.arg1[1] \in Verb

LEMMA AfterFeed ==
    ASSUME NEW T, NEW q \in ParserState(T), NEW ws, After(q, ws), NEW c \in T
    PROVE  After(manager_parser_feed(q, c), ws)
<1>. DEFINE r == m_process_buffer(q)
<1>1. "UNDEF" \notin Verb /\ "ERROR" \notin Verb
  BY DEF Verb
<1>2. q.line \in Seq(T) /\ q.arg1 \in Seq(T) /\ q.state \in Verb \cup {"ERROR"}
  BY DEF ParserState, After
<1>3. /\ r.state = q.state /\ r.line = q.line
      /\ r.arg1 = IF q.state \in Verb /\ q.arg1 = <<>> THEN q.line ELSE q.arg1
  BY <1>1, <1>2 DEF m_process_buffer, ParserState
<1>4. q.state \in Verb => r.arg1 # <<>>
                          /\ \/ Len(ws) >= 2 /\ ws[2] = r.arg1
                             \/ r.arg1[1] \in Verb
  BY <1>3 DEF After
<1>5. CASE c = "SP"
  <2>1. manager_parser_feed(q, c) = [r EXCEPT !.line = <<>>]
    BY <1>5 DEF manager_parser_feed
  <2>2. r \in ParserState(T)
    BY <1>1, <1>2 DEF m_process_buffer, ParserState
  <2>. HIDE DEF r
  <2>3. [r EXCEPT !.line = <<>>].state = r.state /\ [r EXCEPT !.line = <<>>].arg1 = r.arg1
    BY <2>2 DEF ParserState
  <2> QED
    BY <1>1, <1>2, <1>3, <1>4, <2>1, <2>3 DEF After
<1>6. CASE c = "LF" /\ q.line # <<>>
  <2>1. manager_parser_feed(q, c) = r
    BY <1>6 DEF manager_parser_feed
  <2>. HIDE DEF r
  <2> QED
    BY <1>1, <1>2, <1>3, <1>4, <2>1 DEF After
<1>7. CASE c = "LF" /\ q.line = <<>>
  <2>1. manager_parser_feed(q, c) = [q EXCEPT !.state = "ERROR"]
    BY <1>7 DEF manager_parser_feed
  <2>2. [q EXCEPT !.state = "ERROR"].state = "ERROR"
    BY DEF ParserState
  <2> QED
    BY <1>1, <2>1, <2>2 DEF After
<1>8. CASE c # "SP" /\ c # "LF"
  <2>1. manager_parser_feed(q, c) = [q EXCEPT !.line = Append(q.line, c)]
    BY <1>8 DEF manager_parser_feed
  <2>. DEFINE s == [q EXCEPT !.line = Append(q.line, c)]
  <2>2. s.state = q.state /\ s.arg1 = q.arg1 /\ s.line = Append(q.line, c)
    BY DEF ParserState
  <2>. HIDE DEF s, r
  <2>3. q.line # <<>> => s.line # <<>> /\ s.line[1] = q.line[1]
    BY <1>2, <2>2, AppendFirst
  <2>4. After(s, ws)
    BY <2>2, <2>3 DEF After
  <2> QED
    BY <2>1, <2>4 DEF s
<1> QED
  BY <1>5, <1>6, <1>7, <1>8

(* The values the parser goes through. *)
LEMMA RunTypes ==
    ASSUME NEW T, NEW d \in Seq(T), NEW A, ParserRun(A, d, T)
    PROVE  /\ Len(d) \in Nat /\ manager_parser_analyze(d) = A[Len(d)]
           /\ \A n \in 0 .. Len(d) : A[n] \in ParserState(T)
           /\ \A n \in 1 .. Len(d) : d[n] \in T /\ A[n - 1] \in ParserState(T)
                                     /\ A[n] = manager_parser_feed(A[n - 1], d[n])
<1>1. Len(d) \in Nat
  BY LenProperties
<1>2. \A n \in 1 .. Len(d) : n - 1 \in 0 .. Len(d)
  BY <1>1
<1> QED
  BY <1>1, <1>2, ElementOfSeq DEF ParserRun

(* After an error nothing is a command. *)
LEMMA ErrorStays ==
    ASSUME NEW T, NEW d \in Seq(T), NEW A, ParserRun(A, d, T), NEW k \in 0 .. Len(d),
           A[k].state = "ERROR"
    PROVE  manager_parser_analyze(d).state = "ERROR"
<1>. DEFINE N == Len(d)
<1>. DEFINE P == {n \in 0 .. N : n >= k => A[n].state = "ERROR"}
<1>1. /\ N \in Nat /\ manager_parser_analyze(d) = A[N]
      /\ \A n \in 1 .. N : /\ A[n - 1] \in ParserState(T)
                           /\ A[n] = manager_parser_feed(A[n - 1], d[n])
  BY RunTypes
<1>2. 0 \in P
  BY <1>1
<1>3. ASSUME NEW n \in 1 .. N, n - 1 \in P
      PROVE  n \in P
  <2>1. CASE n > k
    <3>1. A[n - 1].state = "ERROR"
      BY <1>3, <2>1
    <3>2. m_process_buffer(A[n - 1]) = A[n - 1]
      BY <3>1 DEF m_process_buffer
    <3>3. A[n].state = "ERROR"
      <4>. DEFINE q == A[n - 1]
      <4>1. q \in ParserState(T) /\ q.state = "ERROR" /\ m_process_buffer(q) = q
            /\ A[n] = manager_parser_feed(q, d[n])
        BY <1>1, <3>1, <3>2
      <4>. HIDE DEF q
      <4>2. \A l : [q EXCEPT !.line = l].state = "ERROR"
        BY <4>1 DEF ParserState
      <4>3. [q EXCEPT !.state = "ERROR"].state = "ERROR"
        BY <4>1 DEF ParserState
      <4> QED
        BY <4>1, <4>2, <4>3 DEF manager_parser_feed
    <3> QED
      BY <3>3
  <2>2. CASE n <= k
    BY <2>2
  <2> QED
    BY <2>1, <2>2
<1>4. \A n \in 0 .. N : n \in P
  <2>1. P \in SUBSET (0 .. N)
    OBVIOUS
  <2>. HIDE DEF P, N
  <2> QED
    BY <1>1, <1>2, <1>3, <2>1, UpTo
<1> QED
  BY <1>1, <1>4

(* The line as a sequence of tokens, up to its end, and the parser on it. *)
LEMMA LineFollows ==
    ASSUME NEW T, NEW d \in Seq(T), NEW A, ParserRun(A, d, T),
           NEW m \in 1 .. Len(d), \A i \in 1 .. m : d[i] # "LF",
           NEW V, WordsRun(V, SubSeq(d, 1, m), "SP", T)
    PROVE  /\ V[m] \in WordState(T) /\ Words(SubSeq(d, 1, m), "SP") = Ended(V[m])
           /\ Follows(A[m], V[m])
<1>. DEFINE x == SubSeq(d, 1, m)
<1>1. /\ m \in Nat /\ Len(x) = m /\ \A i \in 1 .. m : x[i] = d[i]
  BY LenProperties, FirstTokens
<1>2. \A n \in 1 .. m : n - 1 \in 0 .. m
  BY <1>1
<1>. HIDE DEF x
<1>3. /\ \A n \in 0 .. m : V[n] \in WordState(T)
      /\ V[0] = NoWords /\ Words(x, "SP") = Ended(V[m])
      /\ \A n \in 1 .. m : V[n] = NextWord(V[n - 1], d[n], "SP")
  BY <1>1 DEF WordsRun, x
<1>4. /\ A[0] = manager_parser_init
      /\ \A n \in 1 .. m : /\ d[n] \in T /\ A[n - 1] \in ParserState(T) /\ d[n] # "LF"
                           /\ A[n] = manager_parser_feed(A[n - 1], d[n])
  <2>1. Len(d) \in Nat /\ 1 .. m \subseteq 1 .. Len(d)
    BY LenProperties
  <2> QED
    BY <2>1, RunTypes DEF ParserRun
<1>. DEFINE P == {n \in 0 .. m : Follows(A[n], V[n])}
<1>5. 0 \in P
  <2>1. Follows(manager_parser_init, NoWords)
    BY DEF Follows, manager_parser_init, NoWords, Verb
  <2> QED
    BY <1>1, <1>3, <1>4, <2>1
<1>6. ASSUME NEW n \in 1 .. m, n - 1 \in P
      PROVE  n \in P
  <2>1. Follows(A[n], V[n])
    BY <1>2, <1>3, <1>4, <1>6, FeedFollows
  <2> QED
    BY <2>1
<1>7. \A n \in 0 .. m : n \in P
  <2>1. P \in SUBSET (0 .. m)
    OBVIOUS
  <2>. HIDE DEF P
  <2> QED
    BY <1>1, <1>5, <1>6, <2>1, UpTo
<1> QED
  BY <1>1, <1>3, <1>7 DEF x

LEMMA LineAgrees ==
    ASSUME NEW T, NEW q \in ParserState(T), NEW w \in WordState(T), Follows(q, w)
    PROVE  Agrees(q, Ended(w))
<1>1. w.words \in Seq(Seq(T)) /\ w.last \in Seq(T)
  BY DEF WordState
<1>2. Len(w.words) \in Nat
  BY <1>1, LenProperties
<1>3. Ended(w) = w.words
      \/ /\ Len(Ended(w)) = Len(w.words) + 1
         /\ \A i \in 1 .. Len(w.words) : Ended(w)[i] = w.words[i]
  BY <1>1, AppendProperties DEF Ended
<1>4. w.words # <<>> => Len(w.words) >= 1
  BY <1>1, <1>2, EmptySeq
<1>5. w.words # <<>> => Ended(w) # <<>> /\ Ended(w)[1] = w.words[1]
  <2>1. Len(<<>>) = 0
    OBVIOUS
  <2> QED
    BY <1>2, <1>3, <1>4, <2>1
<1>6. Len(w.words) >= 2 => Len(Ended(w)) >= 2 /\ Ended(w)[2] = w.words[2]
  BY <1>2, <1>3
<1> QED
  BY <1>5, <1>6 DEF Agrees, Follows

(* A command has the first word of the first line for its verb, and the    *)
(* second for its argument, unless that begins with a verb.                *)
LEMMA FirstWords ==
    ASSUME NEW T, NEW d \in Seq(T), manager_parser_analyze(d).state \in Verb
    PROVE  LET q  == manager_parser_analyze(d)
               ws == Words(Words(d, "LF")[1], "SP")
           IN  /\ ws \in Seq(Seq(T)) /\ ws # <<>> /\ ws[1] = <<q.state>>
               /\ q.arg1 # <<>> =>
                     (Len(ws) >= 2 /\ ws[2] = q.arg1) \/ q.arg1[1] \in Verb
<1>. DEFINE N == Len(d)
<1>1. PICK A : ParserRun(A, d, T)
  BY AnalyzeSteps
<1>2. /\ N \in Nat /\ manager_parser_analyze(d) = A[N]
      /\ \A n \in 0 .. N : A[n] \in ParserState(T)
      /\ \A n \in 1 .. N : d[n] \in T /\ A[n - 1] \in ParserState(T)
                           /\ A[n] = manager_parser_feed(A[n - 1], d[n])
  BY <1>1, RunTypes
<1>3. A[0] = manager_parser_init /\ "UNDEF" \notin Verb /\ "ERROR" \notin Verb
  BY <1>1 DEF ParserRun, Verb
<1>4. d # <<>>
  <2>1. d = <<>> => N = 0
    OBVIOUS
  <2> QED
    BY <1>2, <1>3, <2>1 DEF manager_parser_init
<1>5. 1 \in 1 .. N /\ 1 \in 0 .. N
  BY <1>2, <1>4, EmptySeq
<1>6. d[1] # "LF"
  <2>. SUFFICES ASSUME d[1] = "LF" PROVE FALSE
    OBVIOUS
  <2>1. A[1] = manager_parser_feed(A[0], "LF")
    BY <1>2, <1>5
  <2>2. A[1].state = "ERROR"
    BY <1>3, <2>1 DEF manager_parser_feed, manager_parser_init
  <2> QED
    BY <1>1, <1>3, <1>5, <2>2, ErrorStays
<1>7. PICK m \in 1 .. N : /\ \A i \in 1 .. m : d[i] # "LF"
                          /\ m < N => d[m + 1] = "LF"
  BY <1>4, <1>6, LineEnd
<1>. DEFINE x == SubSeq(d, 1, m)
<1>8. Words(d, "LF")[1] = x
  BY <1>7, FirstLine
<1>9. x \in Seq(T)
  BY FirstTokens
<1>10. PICK V : WordsRun(V, x, "SP", T)
  <2>. HIDE DEF x
  <2> QED
    BY <1>9, WordsSteps
<1>11. V[m] \in WordState(T) /\ Words(x, "SP") = Ended(V[m]) /\ Follows(A[m], V[m])
  BY <1>1, <1>7, <1>10, LineFollows
<1>. HIDE DEF x
<1>. DEFINE ws == Ended(V[m])
<1>12. ws \in Seq(Seq(T)) /\ ws = Words(Words(d, "LF")[1], "SP")
  BY <1>8, <1>11, EndedType
<1>13. CASE m = N
  <2>1. A[N] \in ParserState(T)
    BY <1>2
  <2>2. Agrees(A[N], ws)
    BY <1>11, <1>13, <2>1, LineAgrees
  <2> QED
    BY <1>2, <1>12, <2>2 DEF Agrees
<1>14. CASE m # N
  <2>1. m + 1 \in 1 .. N /\ m + 1 \in 0 .. N /\ d[m + 1] = "LF" /\ m \in 0 .. N
    BY <1>2, <1>7, <1>14
  <2>2. A[m + 1] = manager_parser_feed(A[m], "LF") /\ A[m] \in ParserState(T)
    BY <1>2, <2>1
  <2>3. A[m].line # <<>>
    <3>. SUFFICES ASSUME A[m].line = <<>> PROVE FALSE
      OBVIOUS
    <3>1. A[m + 1].state = "ERROR"
      BY <2>2 DEF manager_parser_feed, ParserState
    <3> QED
      BY <1>1, <1>3, <2>1, <3>1, ErrorStays
  <2>4. A[m + 1] = m_process_buffer(A[m])
    BY <2>2, <2>3 DEF manager_parser_feed
  <2>5. After(A[m + 1], ws)
    <3>. DEFINE r == m_process_buffer(A[m])
    <3>1. /\ r.state # "UNDEF" /\ r.line = A[m].line /\ Agrees(r, ws)
          /\ r.state \in Verb /\ A[m].line # <<>> => r.arg1 # <<>> \/ A[m].line[1] \in Verb
      BY <1>11, <2>2, ProcessFollows
    <3>. HIDE DEF r, ws
    <3>2. After(r, ws)
      BY <2>3, <3>1 DEF After, Agrees
    <3> QED
      BY <2>4, <3>2 DEF r
  <2>. HIDE DEF ws
  <2>. DEFINE P == {n \in 0 .. N : n > m => After(A[n], ws)}
  <2>6. 0 \in P
    BY <1>2
  <2>7. ASSUME NEW n \in 1 .. N, n - 1 \in P
        PROVE  n \in P
    <3>1. CASE n = m + 1
      BY <2>5, <3>1
    <3>2. CASE n > m + 1
      <4>1. After(A[n - 1], ws)
        BY <2>7, <3>2
      <4>2. After(A[n], ws)
        BY <1>2, <4>1, AfterFeed
      <4> QED
        BY <4>2
    <3>3. CASE n <= m
      BY <3>3
    <3> QED
      BY <3>1, <3>2, <3>3
  <2>8. \A n \in 0 .. N : n \in P
    <3>1. P \in SUBSET (0 .. N)
      OBVIOUS
    <3>. HIDE DEF P, N
    <3> QED
      BY <1>2, <2>6, <2>7, <3>1, UpTo
  <2>9. After(A[N], ws)
    <3>1. N > m
      BY <1>2, <1>7, <1>14
    <3> QED
      BY <1>2, <2>8, <3>1
  <2> QED
    BY <1>2, <1>12, <2>9 DEF After
<1> QED
  BY <1>13, <1>14
-----------------------------------------------------------------------------
(* What the handler is told of a datagram. *)
LEMMA Requested ==
    ASSUME NEW q \in Requests, q.state \in Verb
    PROVE  /\ q.arg1 \in Seq(Token) /\ q.said[1] = <<q.state>>
           /\ q.arg1 # <<>> => q.said[2] = q.arg1 \/ q.arg1[1] \in Verb
           /\ q.state = "ADD" => Part(q.arg1, 1) \in Name
           /\ q.state = "DEL" => q.arg1 \in Name \cup OtherName
<1>1. PICK d \in Datagram :
         /\ q.said = Said(d) /\ q.state = manager_parser_analyze(d).state
         /\ q.arg1 = manager_parser_analyze(d).arg1
  BY DEF Requests
<1>. DEFINE w == Words(Words(d, "LF")[1], "SP")
<1>2. d \in Seq(Token)
  BY ManagerAssumption
<1>3. /\ w \in Seq(Seq(Token)) /\ w # <<>> /\ w[1] = <<q.state>>
      /\ q.arg1 # <<>> => (Len(w) >= 2 /\ w[2] = q.arg1) \/ q.arg1[1] \in Verb
  BY <1>1, <1>2, FirstWords
<1>4. manager_parser_analyze(d) \in ParserState(Token)
  <2>1. PICK A : ParserRun(A, d, Token)
    BY <1>2, AnalyzeSteps
  <2>2. Len(d) \in 0 .. Len(d)
    BY <1>2, LenProperties
  <2> QED
    BY <1>2, <2>1, <2>2, RunTypes
<1>5. q.arg1 \in Seq(Token)
  BY <1>1, <1>4 DEF ParserState
<1>6. /\ q.state = "ADD" => Part(q.arg1, 1) \in Name
      /\ q.state = "DEL" => q.arg1 \in Name \cup OtherName
  BY <1>1, ManagerAssumption
<1>7. q.said = SubSeq(w, 1, Min({2, Len(w)}))
  BY <1>1 DEF Said
<1>. HIDE DEF w
<1>8. q.said[1] = w[1] /\ (Len(w) >= 2 => q.said[2] = w[2])
  <2>. DEFINE k == Min({2, Len(w)})
  <2>1. Len(w) \in Nat /\ Len(w) >= 1
    BY <1>3, LenProperties, EmptySeq
  <2>2. k \in {2, Len(w)} /\ k <= 2 /\ k <= Len(w)
    <3>. DEFINE t == {2, Len(w)}
    <3>1. t \in SUBSET Nat /\ t # {}
      BY <2>1
    <3>2. Min(t) \in t /\ \A i \in t : Min(t) <= i
      <4>. HIDE DEF t
      <4> QED
        BY <3>1, MinIn
    <3> QED
      BY <3>2
  <2>3. k \in 1 .. Len(w) /\ 1 \in 1 .. k /\ (Len(w) >= 2 => 2 \in 1 .. k)
    BY <2>1, <2>2
  <2>4. \A i \in 1 .. k : SubSeq(w, 1, k)[i] = w[i]
    <3>. HIDE DEF k
    <3> QED
      BY <1>3, <2>3, FirstTokens
  <2>. HIDE DEF k
  <2>5. q.said = SubSeq(w, 1, k)
    BY <1>7 DEF k
  <2> QED
    BY <2>3, <2>4, <2>5
<1> QED
  BY <1>3, <1>5, <1>6, <1>8

(* The body of ObeysFirstWords. *)
Obeys ==
    /\ done' # done => said'[1] = <<"STOP">>
    /\ user_count' > user_count =>
          /\ said'[1] = <<"ADD">>
          /\ users'[user_count'].name = Part(said'[2], 1)
    /\ user_count' < user_count => said'[1] = <<"DEL">> /\ result'[2] = said'[2]

LEMMA StepObeys ==
    ASSUME UsersInv, NoVerbNames, [ManagerNext]_managerVars
    PROVE  Obeys
<1>1. user_count \in Nat /\ UsersTypeOK
  BY Sizes DEF UsersInv
<1>2. CASE UNCHANGED <<done, user_count>>
  BY <1>1, <1>2 DEF Obeys
<1>3. ASSUME NEW n \in Name \cup OtherName, NEW p \in Pass \cup OtherPass,
             handlePass(n, p)
      PROVE  UNCHANGED <<done, user_count>>
  BY <1>3 DEF handlePass, user_check_valid
<1>4. ASSUME NEW q \in Requests, execute_manager_command(q), said' = q.said
      PROVE  Obeys
  <2>1. CASE q.state = "STOP" /\ handleStop
    <3>1. said'[1] = <<"STOP">>
      BY <1>4, <2>1, Requested DEF Verb
    <3>2. user_count' = user_count
      BY <2>1 DEF handleStop, usersVars
    <3> QED
      BY <1>1, <3>1, <3>2 DEF Obeys
  <2>2. CASE q.state = "ADD" /\ handleAddUser(q.arg1)
    <3>. DEFINE f == Words(q.arg1, "COLON")
    <3>. DEFINE n == Part(q.arg1, 1)
    <3>. DEFINE p == Part(q.arg1, 2)
    <3>1. /\ done' = done /\ n \in Name /\ q.arg1 \in Seq(Token) /\ said'[1] = <<"ADD">>
          /\ q.arg1 # <<>> => said'[2] = q.arg1 \/ q.arg1[1] \in Verb
      BY <1>4, <2>2, Requested DEF handleAddUser, Verb
    <3>2. \/ UNCHANGED <<users, user_count>>
          \/ user_count < MAX_USERS /\ Accepted(n, p) /\ Store(n, p)
      BY <2>2 DEF handleAddUser, user_add
    <3>3. CASE UNCHANGED <<users, user_count>>
      BY <1>2, <3>1, <3>3
    <3>4. CASE user_count < MAX_USERS /\ Accepted(n, p) /\ Store(n, p)
      <4>1. n # <<>>
        <5>1. Len(<<>>) = 0
          OBVIOUS
        <5> QED
          BY <3>4, <5>1 DEF Accepted
      <4>2. n = f[1] /\ f # <<>>
        <5>1. Len(<<>>) = 0
          OBVIOUS
        <5> QED
          BY <4>1, <5>1 DEF Part
      <4>3. q.arg1 # <<>>
        BY <4>2, NoParts
      <4>4. q.arg1[1] \notin Verb
        <5>1. q.arg1[1] \in Verb => q.arg1[1] # "COLON"
          BY DEF Verb
        <5>2. q.arg1[1] \in Verb => f[1][1] \in Verb
          BY <3>1, <4>3, <5>1, FirstPart
        <5>. HIDE DEF n, f
        <5> QED
          BY <3>1, <4>1, <4>2, <5>2 DEF NoVerbNames
      <4>5. said'[2] = q.arg1
        BY <3>1, <4>3, <4>4
      <4>6. user_count' = user_count + 1 /\ user_count + 1 \in 1 .. MAX_USERS
        BY <1>1, <3>4, Sizes DEF Store
      <4>7. users'[user_count'].name = n
        BY <1>1, <3>4, <4>6 DEF UsersTypeOK, Store
      <4>8. user_count' > user_count /\ ~(user_count' < user_count)
        BY <1>1, <4>6
      <4> QED
        BY <3>1, <4>5, <4>7, <4>8 DEF Obeys
    <3> QED
      BY <3>2, <3>3, <3>4
  <2>3. CASE q.state = "DEL" /\ handleDeleteUser(q.arg1)
    <3>. DEFINE n == q.arg1
    <3>1. /\ done' = done /\ n \in Seq(Byte) /\ said'[1] = <<"DEL">>
          /\ n # <<>> => said'[2] = n \/ n[1] \in Verb
      BY <1>4, <2>3, Requested, Given DEF handleDeleteUser, Verb
    <3>2. PICK pos \in user_find(n) :
             /\ IF pos # 0 THEN user_count' = user_count - 1
                           ELSE user_count' = user_count
             /\ result' = <<"DEL", n, <<>>, pos # 0>>
      BY <2>3 DEF handleDeleteUser, user_remove, Done
    <3>3. CASE pos = 0
      BY <1>2, <3>1, <3>2, <3>3
    <3>4. CASE pos # 0
      <4>. HIDE DEF n
      <4>1. pos \in InUse /\ n # <<>> /\ n[1] = users[pos].name[1]
        BY <3>1, <3>2, <3>4, Found
      <4>2. users[pos].name \in Name /\ users[pos].name # <<>>
        <5>1. Len(users[pos].name) >= 1 /\ users[pos].name \in Name \cup {<<>>}
          BY <4>1, Sizes DEF UsersInv, UsersTypeOK, Entry
        <5>2. Len(<<>>) = 0
          OBVIOUS
        <5> QED
          BY <5>1, <5>2
      <4>3. said'[2] = n
        BY <3>1, <4>1, <4>2 DEF NoVerbNames
      <4>4. ~(user_count' > user_count)
        BY <1>1, <3>2, <3>4
      <4> QED
        BY <3>1, <3>2, <4>3, <4>4 DEF Obeys
    <3> QED
      BY <3>3, <3>4
  <2>4. CASE Report
    BY <1>2, <2>4 DEF Report, usersVars
  <2> QED
    BY <1>4, <2>1, <2>2, <2>3, <2>4 DEF execute_manager_command
<1>5. CASE UNCHANGED managerVars
  BY <1>2, <1>5 DEF managerVars, usersVars
<1> QED
  BY <1>2, <1>3, <1>4, <1>5 DEF ManagerNext, manager_handle_connection

(* The server stops, and users are added and removed, only by a datagram   *)
(* whose first word says so, and the user is the one it names              *)
(* (manager_parser.c:54-97), if no name that is added begins with a verb.  *)
THEOREM FirstWordsObeyed ==
    ASSUME NoVerbNames
    PROVE  ManagerSpec => ObeysFirstWords
<1>1. UsersInv /\ [ManagerNext]_managerVars => [Obeys]_managerVars
  BY StepObeys
<1>2. ObeysFirstWords <=> [][Obeys]_managerVars
  BY DEF ObeysFirstWords, Obeys
<1> QED
  BY <1>1, <1>2, UsersAlways, ManagerIsUsers, PTL DEF ManagerSpec
=============================================================================
