--------------------------- MODULE SessionProofs ---------------------------
(***************************************************************************)
(* Proofs about Session for any number of connections and users, any       *)
(* buffer and any pipelining: the connections drive the command layer as   *)
(* Maildrop says (so that what is proved of Maildrop holds of the server   *)
(* as its peers see it), and no answer is lost, doubled or torn; then      *)
(* (from OrderOK on), an answer of several events works on the session     *)
(* that began it, a listing adds up whatever the sends, only the end of a  *)
(* file that filled the buffer overruns it, and a peer that waits for each *)
(* answer never finds the state machine without a handler.                 *)
(***************************************************************************)
EXTENDS Session, MaildropProofs

Input == Command \cup {Half}

-----------------------------------------------------------------------------
(* Counting the elements of a sequence. *)

Places(s, x) == {i \in 1 .. Len(s) : s[i] = x}

LEMMA CountIsPlaces ==
    ASSUME NEW S, NEW s \in Seq(S), NEW x
    PROVE  /\ Count(s, x) = Cardinality(Places(s, x))
           /\ IsFiniteSet(Places(s, x))
           /\ Count(s, x) \in Nat /\ Count(s, x) <= Len(s)
<1>1. DOMAIN s = 1 .. Len(s) /\ Len(s) \in Nat
  BY LenProperties
<1>2. IsFiniteSet(1 .. Len(s)) /\ Cardinality(1 .. Len(s)) = Len(s)
  BY <1>1, FS_Interval
<1>3. Places(s, x) \in SUBSET (1 .. Len(s))
  BY DEF Places
<1>4. IsFiniteSet(Places(s, x)) /\ Cardinality(Places(s, x)) <= Len(s)
  BY <1>2, <1>3, FS_Subset
<1>5. Count(s, x) = Cardinality(Places(s, x))
  BY <1>1 DEF Count, Places
<1> QED
  BY <1>4, <1>5, FS_CardinalityType

(* Moving a set of numbers leaves it as many. *)
LEMMA ShiftedCardinality ==
    ASSUME NEW A, IsFiniteSet(A), A \subseteq Int, NEW d \in Int
    PROVE  LET B == {i + d : i \in A}
           IN  IsFiniteSet(B) /\ Cardinality(B) = Cardinality(A)
<1>. DEFINE B == {i + d : i \in A}
<1>. DEFINE f == [i \in A |-> i + d]
<1>1. f \in [A -> B]
  OBVIOUS
<1>2. \A i, j \in A : f[i] = f[j] => i = j
  OBVIOUS
<1>3. \A b \in B : \E i \in A : f[i] = b
  OBVIOUS
<1>4. f \in Bijection(A, B)
  <2>. HIDE DEF f, B
  <2> QED
    BY <1>1, <1>2, <1>3 DEF Bijection, Injection, Surjection, IsInjective
<1>5. ExistsBijection(A, B)
  BY <1>4 DEF ExistsBijection
<1>. HIDE DEF B
<1>6. IsFiniteSet(B) /\ Cardinality(B) = Cardinality(A)
  BY <1>5, FS_Bijection
<1> QED
  BY <1>6 DEF B

LEMMA CountConcat ==
    ASSUME NEW S, NEW s \in Seq(S), NEW t \in Seq(S), NEW x
    PROVE  Count(s \o t, x) = Count(s, x) + Count(t, x)
<1>. DEFINE n == Len(s)
<1>. DEFINE A == Places(s, x)
<1>. DEFINE B == {i + n : i \in Places(t, x)}
<1>1. /\ s \o t \in Seq(S) /\ Len(s \o t) = n + Len(t)
      /\ \A i \in 1 .. n + Len(t) :
            (s \o t)[i] = IF i <= n THEN s[i] ELSE t[i - n]
      /\ n \in Nat /\ Len(t) \in Nat
  BY ConcatProperties, LenProperties
<1>2. Places(s \o t, x) = A \cup B
  <2>1. ASSUME NEW i \in Places(s \o t, x)
        PROVE  i \in A \cup B
    <3>1. i \in 1 .. n + Len(t) /\ (s \o t)[i] = x
      BY <1>1 DEF Places
    <3>2. CASE i <= n
      BY <1>1, <3>1, <3>2 DEF Places
    <3>3. CASE i > n
      <4>1. i - n \in 1 .. Len(t) /\ t[i - n] = x /\ i = (i - n) + n
        BY <1>1, <3>1, <3>3
      <4>2. i - n \in Places(t, x)
        BY <4>1 DEF Places
      <4> QED
        BY <4>1, <4>2
    <3> QED
      BY <1>1, <3>1, <3>2, <3>3
  <2>2. ASSUME NEW i \in A
        PROVE  i \in Places(s \o t, x)
    BY <1>1 DEF Places
  <2>3. ASSUME NEW j \in Places(t, x)
        PROVE  j + n \in Places(s \o t, x)
    <3>1. j \in 1 .. Len(t) /\ t[j] = x
      BY DEF Places
    <3>2. j + n \in 1 .. n + Len(t) /\ ~(j + n <= n) /\ (j + n) - n = j
      BY <1>1, <3>1
    <3> QED
      BY <1>1, <3>1, <3>2 DEF Places
  <2> QED
    BY <2>1, <2>2, <2>3
<1>3. A \cap B = {}
  BY <1>1 DEF Places
<1>4. /\ Count(s, x) = Cardinality(A) /\ IsFiniteSet(A)
      /\ Count(t, x) = Cardinality(Places(t, x)) /\ IsFiniteSet(Places(t, x))
      /\ Count(s, x) \in Nat /\ Count(t, x) \in Nat
      /\ Count(s \o t, x) = Cardinality(Places(s \o t, x))
  BY <1>1, CountIsPlaces
<1>5. IsFiniteSet(B) /\ Cardinality(B) = Cardinality(Places(t, x))
  <2>1. Places(t, x) \subseteq Int /\ n \in Int
    BY <1>1 DEF Places
  <2> QED
    BY <1>4, <2>1, ShiftedCardinality
<1>. HIDE DEF A, B
<1>6. Cardinality(A \cup B) = Cardinality(A) + Cardinality(B) - Cardinality({})
  BY <1>3, <1>4, <1>5, FS_Union
<1> QED
  BY <1>2, <1>4, <1>5, <1>6, FS_EmptySet

(* Taking n elements off the front splits what there is to count. *)
LEMMA CountSplit ==
    ASSUME NEW S, NEW s \in Seq(S), NEW n \in 0 .. Len(s), NEW x
    PROVE  /\ SubSeq(s, 1, n) \in Seq(S) /\ SubSeq(s, n + 1, Len(s)) \in Seq(S)
           /\ Len(SubSeq(s, 1, n)) = n
           /\ Len(SubSeq(s, n + 1, Len(s))) = Len(s) - n
           /\ Count(s, x) = Count(SubSeq(s, 1, n), x)
                            + Count(SubSeq(s, n + 1, Len(s)), x)
<1>1. Len(s) \in Nat /\ DOMAIN s = 1 .. Len(s)
      /\ \A i \in 1 .. Len(s) : s[i] \in S
  BY LenProperties, ElementOfSeq
<1>2. SubSeq(s, 1, n) \in Seq(S) /\ Len(SubSeq(s, 1, n)) = n
  <2>1. 1 \in Int /\ n \in Int /\ \A i \in 1 .. n : s[i] \in S
    BY <1>1
  <2>2. SubSeq(s, 1, n) \in Seq(S)
        /\ Len(SubSeq(s, 1, n)) = IF 1 <= n THEN n - 1 + 1 ELSE 0
    BY <2>1, SubSeqProperties
  <2> QED
    BY <1>1, <2>2
<1>3. SubSeq(s, n + 1, Len(s)) \in Seq(S)
      /\ Len(SubSeq(s, n + 1, Len(s))) = Len(s) - n
  <2>1. n + 1 \in Int /\ Len(s) \in Int /\ \A i \in n + 1 .. Len(s) : s[i] \in S
    BY <1>1
  <2>2. SubSeq(s, n + 1, Len(s)) \in Seq(S)
        /\ Len(SubSeq(s, n + 1, Len(s)))
           = IF n + 1 <= Len(s) THEN Len(s) - (n + 1) + 1 ELSE 0
    BY <2>1, SubSeqProperties
  <2>3. \A m \in Nat : \A k \in 0 .. m :
           (IF k + 1 <= m THEN m - (k + 1) + 1 ELSE 0) = m - k
    OBVIOUS
  <2>4. (IF n + 1 <= Len(s) THEN Len(s) - (n + 1) + 1 ELSE 0) = Len(s) - n
    BY <1>1, <2>3
  <2> QED
    BY <2>2, <2>4
<1>4. SubSeq(s, 1, n) \o SubSeq(s, n + 1, Len(s)) = s
  <2>1. 1 \in 1 .. Len(s) + 1 /\ n \in 1 - 1 .. Len(s) /\ Len(s) \in n .. Len(s)
    BY <1>1
  <2>2. SubSeq(s, 1, n) \o SubSeq(s, n + 1, Len(s)) = SubSeq(s, 1, Len(s))
    BY <2>1, ConcatAdjacentSubSeq
  <2> QED
    BY <2>2, SubSeqFull
<1>5. Count(SubSeq(s, 1, n) \o SubSeq(s, n + 1, Len(s)), x)
      = Count(SubSeq(s, 1, n), x) + Count(SubSeq(s, n + 1, Len(s)), x)
  BY <1>2, <1>3, CountConcat
<1> QED
  BY <1>2, <1>3, <1>4, <1>5

(* The number of command lines in a piece of input. *)
LEMMA EndsConcat ==
    ASSUME NEW s \in Seq(Input), NEW t \in Seq(Input)
    PROVE  /\ Ends(s \o t) = Ends(s) + Ends(t)
           /\ Ends(s) \in Nat /\ Ends(t) \in Nat
<1>1. Count(s \o t, Half) = Count(s, Half) + Count(t, Half)
  BY CountConcat
<1>2. /\ Count(s, Half) \in Nat /\ Count(s, Half) <= Len(s)
      /\ Count(t, Half) \in Nat /\ Count(t, Half) <= Len(t)
  BY CountIsPlaces
<1>3. Len(s \o t) = Len(s) + Len(t) /\ Len(s) \in Nat /\ Len(t) \in Nat
  BY ConcatProperties, LenProperties
<1> QED
  BY <1>1, <1>2, <1>3 DEF Ends

LEMMA EndsSplit ==
    ASSUME NEW s \in Seq(Input), NEW n \in 0 .. Len(s)
    PROVE  /\ SubSeq(s, 1, n) \in Seq(Input)
           /\ SubSeq(s, n + 1, Len(s)) \in Seq(Input)
           /\ Ends(s) = Ends(SubSeq(s, 1, n)) + Ends(SubSeq(s, n + 1, Len(s)))
<1>1. Len(s) \in Nat
  BY LenProperties
<1>2. /\ SubSeq(s, 1, n) \in Seq(Input) /\ SubSeq(s, n + 1, Len(s)) \in Seq(Input)
      /\ Len(SubSeq(s, 1, n)) = n
      /\ Len(SubSeq(s, n + 1, Len(s))) = Len(s) - n
      /\ Count(s, Half) = Count(SubSeq(s, 1, n), Half)
                          + Count(SubSeq(s, n + 1, Len(s)), Half)
  BY CountSplit
<1>3. /\ Count(SubSeq(s, 1, n), Half) \in Nat
      /\ Count(SubSeq(s, n + 1, Len(s)), Half) \in Nat
  BY <1>2, CountIsPlaces
<1> QED
  BY <1>1, <1>2, <1>3 DEF Ends

-----------------------------------------------------------------------------
(* The pieces the handlers write and the peers send. *)

LEMMA HalfIsNoCommand == Half \notin Command
BY DEF Half, Command

(* The front of a line ends nothing, its last unit ends an answer if it is *)
(* the last line of one, and a block of a file never does.                 *)
LEMMA Pieces ==
    /\ <<>> \in Seq(Unit) /\ Count(<<>>, "end") = 0
    /\ PartLine \in Seq(Unit) /\ Count(PartLine, "end") = 0 /\ Len(PartLine) = 2
    /\ LastLine \in Seq(Unit) /\ Count(LastLine, "end") = 1 /\ Len(LastLine) = 2
<1>1. <<>> \in Seq(Unit) /\ PartLine \in Seq(Unit) /\ LastLine \in Seq(Unit)
  BY DEF PartLine, LastLine, Unit
<1>2. Len(<<>>) = 0 /\ Len(PartLine) = 2 /\ Len(LastLine) = 2
  BY DEF PartLine, LastLine
<1>3. Places(<<>>, "end") = {}
  BY <1>2 DEF Places
<1>4. Places(PartLine, "end") = {}
  BY <1>2 DEF Places, PartLine
<1>5. Places(LastLine, "end") = {2}
  BY <1>2 DEF Places, LastLine
<1>6. ASSUME NEW t \in Seq(Unit)
      PROVE  Count(t, "end") = Cardinality(Places(t, "end"))
  BY CountIsPlaces
<1>7. Count(<<>>, "end") = 0 /\ Count(PartLine, "end") = 0
  BY <1>1, <1>3, <1>4, <1>6, FS_EmptySet
<1>8. Count(LastLine, "end") = 1
  BY <1>1, <1>5, <1>6, FS_Singleton
<1> QED
  BY <1>1, <1>2, <1>7, <1>8

LEMMA BlockPiece ==
    ASSUME NEW n \in Int
    PROVE  Block(n) \in Seq(Unit) /\ Count(Block(n), "end") = 0
<1>1. Block(n) \in [1 .. n -> Unit]
  BY DEF Block, Unit
<1>2. \E m \in Nat : 1 .. n = 1 .. m
  <2>1. CASE n \in Nat
    BY <2>1
  <2>2. CASE n \notin Nat
    <3>1. 1 .. n = {} /\ 1 .. 0 = {}
      BY <2>2
    <3> QED
      BY <3>1
  <2> QED
    BY <2>1, <2>2
<1>3. Block(n) \in Seq(Unit)
  BY <1>1, <1>2, SeqDef
<1>4. DOMAIN Block(n) = 1 .. Len(Block(n))
  BY <1>3, LenProperties
<1>5. \A i \in DOMAIN Block(n) : Block(n)[i] = "cut"
  BY DEF Block
<1>6. Places(Block(n), "end") = {}
  BY <1>4, <1>5 DEF Places
<1> QED
  BY <1>3, <1>6, CountIsPlaces, FS_EmptySet

LEMMA NoInput == <<>> \in Seq(Input) /\ Ends(<<>>) = 0
<1>1. <<>> \in Seq(Input) /\ Len(<<>>) = 0
  BY EmptySeq
<1>2. Places(<<>>, Half) = {}
  BY <1>1 DEF Places
<1>3. Count(<<>>, Half) = Cardinality(Places(<<>>, Half))
  BY <1>1, CountIsPlaces
<1>4. Count(<<>>, Half) = 0
  BY <1>2, <1>3, FS_EmptySet
<1> QED
  BY <1>1, <1>4 DEF Ends

LEMMA LineOfInput ==
    ASSUME NEW cmd \in Command
    PROVE  <<Half, cmd>> \in Seq(Input) /\ Ends(<<Half, cmd>>) = 1
<1>1. <<Half, cmd>> \in Seq(Input) /\ Len(<<Half, cmd>>) = 2
  BY DEF Input
<1>2. Places(<<Half, cmd>>, Half) = {1}
  BY <1>1, HalfIsNoCommand DEF Places
<1>3. Count(<<Half, cmd>>, Half) = Cardinality(Places(<<Half, cmd>>, Half))
  BY <1>1, CountIsPlaces
<1>4. Count(<<Half, cmd>>, Half) = 1
  BY <1>2, <1>3, FS_Singleton
<1> QED
  BY <1>1, <1>4 DEF Ends

LEMMA Least ==
    ASSUME NEW S \in SUBSET Nat, S # {}
    PROVE  Min(S) \in S /\ \A i \in S : Min(S) <= i
<1>. DEFINE R == OpToRel(<, Nat)
<1>1. IsWellFoundedOn(R, Nat)
  BY NatLessThanWellFounded
<1>2. \E x \in S : \A y \in S : ~(<<y, x>> \in R)
  <2>. HIDE DEF R
  <2> QED
    BY <1>1, WFMin
<1>3. PICK x \in S : \A y \in S : ~(y < x)
  BY <1>2 DEF OpToRel
<1>4. \A y \in S : x <= y
  BY <1>3
<1> QED
  BY <1>4 DEF Min

(* The input up to the first end of a line is one command; input without   *)
(* an end has none.                                                        *)
LEMMA FirstLine ==
    ASSUME NEW s \in Seq(Input)
    PROVE  LET ends == {i \in DOMAIN s : s[i] # Half}
               i    == Min(ends)
           IN  /\ ends = {} => Ends(s) = 0
               /\ ends # {} => /\ s[i] \in Command
                               /\ Unconsumed(s, i) \in Seq(Input)
                               /\ Ends(s) = 1 + Ends(Unconsumed(s, i))
<1>. DEFINE ends == {i \in DOMAIN s : s[i] # Half}
<1>. DEFINE i == Min(ends)
<1>1. Len(s) \in Nat /\ DOMAIN s = 1 .. Len(s)
      /\ \A j \in DOMAIN s : s[j] \in Input
  BY LenProperties, ElementOfSeq
<1>2. ASSUME ends = {}
      PROVE  Ends(s) = 0
  <2>1. Places(s, Half) = 1 .. Len(s)
    BY <1>1, <1>2 DEF Places
  <2>2. Cardinality(1 .. Len(s)) = Len(s)
    BY <1>1, FS_Interval
  <2> QED
    BY <1>1, <2>1, <2>2, CountIsPlaces DEF Ends
<1>3. ASSUME ends # {}
      PROVE  /\ s[i] \in Command /\ Unconsumed(s, i) \in Seq(Input)
             /\ Ends(s) = 1 + Ends(Unconsumed(s, i))
  <2>1. ends \in SUBSET Nat
    BY <1>1
  <2>2. i \in ends /\ \A j \in ends : i <= j
    <3>. HIDE DEF ends
    <3> QED
      BY <1>3, <2>1, Least
  <2>. HIDE DEF i
  <2>3. i \in 1 .. Len(s) /\ s[i] \in Command /\ s[i] # Half
        /\ \A j \in 1 .. i - 1 : s[j] = Half
    BY <1>1, <2>2 DEF Input
  <2>. DEFINE t == SubSeq(s, 1, i)
  <2>4. i \in 0 .. Len(s)
    BY <1>1, <2>3
  <2>5. t \in Seq(Input) /\ Unconsumed(s, i) \in Seq(Input)
        /\ Ends(s) = Ends(t) + Ends(Unconsumed(s, i))
    BY <2>4, EndsSplit DEF Unconsumed
  <2>6. Len(t) = i /\ \A j \in 1 .. i : t[j] = s[j]
    <3>1. 1 \in Int /\ i \in Int /\ \A j \in 1 .. i : s[j] \in Input
      BY <1>1, <2>3
    <3>2. /\ Len(t) = IF 1 <= i THEN i - 1 + 1 ELSE 0
          /\ \A j \in 1 .. i - 1 + 1 : t[j] = s[1 + j - 1]
      BY <3>1, SubSeqProperties
    <3> QED
      BY <1>1, <2>3, <3>2
  <2>. HIDE DEF t
  <2>7. Places(t, Half) = 1 .. i - 1
    BY <1>1, <2>3, <2>6 DEF Places
  <2>8. Cardinality(1 .. i - 1) = i - 1
    BY <1>1, <2>3, FS_Interval
  <2>9. Ends(t) = 1
    BY <1>1, <2>3, <2>5, <2>6, <2>7, <2>8, CountIsPlaces DEF Ends
  <2> QED
    BY <2>3, <2>5, <2>9
<1> QED
  BY <1>2, <1>3

-----------------------------------------------------------------------------
(* The invariant. *)

(* An answer of several events that has not been ended yet. *)
Answering(k) ==
    k.stm = "WRITE_LIST" \/ (k.stm = "WRITE_FILE" /\ ~k.fileDoneReading)

(* The answers a connection has still to give for what it has read. *)
Due(k) == Ends(k.clientBuffer) + Count(k.serverBuffer, "end")
          + (IF Answering(k) THEN 1 ELSE 0)

(* A connection and its peer agree on what is owed. *)
LinkOK(c, k, p) ==
    /\ k \in Conn /\ p \in Peer
    /\ p.owed <= Ahead[c]
    /\ p.owed = Ends(p.inq) + Due(k)

SessionInv ==
    /\ conn \in [Client -> Conn] /\ peer \in [Client -> Peer]
    /\ \A c \in Client : LinkOK(c, conn[c], peer[c])
    /\ server \in {"up", "no_handler", "overrun"}
    /\ server = "up" => \A c \in Client : Written(conn[c]) <= Room
    /\ \A c \in Client : client[c].state = "NONE"
                            => conn[c] = NoConn /\ peer[c] = NoPeer

(* What is due is a number, and is in three places. *)
LEMMA DueIsNat ==
    ASSUME NEW k \in Conn
    PROVE  /\ Due(k) \in Nat
           /\ Ends(k.clientBuffer) \in Nat
           /\ Count(k.serverBuffer, "end") \in Nat
           /\ (IF Answering(k) THEN 1 ELSE 0) \in Nat
<1>1. k.clientBuffer \in Seq(Input) /\ k.serverBuffer \in Seq(Unit)
  BY DEF Conn, Input
<1>2. Ends(k.clientBuffer) \in Nat
  BY <1>1, EndsConcat
<1>3. Count(k.serverBuffer, "end") \in Nat
  BY <1>1, CountIsPlaces
<1>4. (IF Answering(k) THEN 1 ELSE 0) \in Nat
  OBVIOUS
<1> QED
  BY <1>2, <1>3, <1>4 DEF Due

(* No connection: nothing read, nothing due. *)
LEMMA NoLink ==
    ASSUME NEW c \in Client
    PROVE  /\ NoConn \in Conn /\ NoPeer \in Peer
           /\ LinkOK(c, NoConn, NoPeer) /\ Written(NoConn) <= Room
<1>1. NoConn \in Conn
  BY NoInput, Pieces, SessionAssumption, MaildropAssumption
     DEF NoConn, Conn, Input, Closed
<1>2. NoPeer \in Peer
  BY NoInput DEF NoPeer, Peer, Input
<1>3. Due(NoConn) = 0
  <2>1. ~Answering(NoConn)
    BY DEF Answering, NoConn
  <2>2. NoConn.clientBuffer = <<>> /\ NoConn.serverBuffer = <<>>
    BY DEF NoConn
  <2> QED
    BY <2>1, <2>2, NoInput, Pieces DEF Due
<1>4. NoPeer.owed = 0 /\ Ends(NoPeer.inq) = 0
  BY NoInput DEF NoPeer
<1>5. Written(NoConn) <= Room
  <2>1. NoConn.read = 0 /\ NoConn.serverBuffer = <<>> /\ Len(<<>>) = 0
    BY DEF NoConn
  <2> QED
    BY <2>1, SessionAssumption DEF Written
<1>6. Ahead[c] \in Nat
  BY SessionAssumption
<1> QED
  BY <1>1, <1>2, <1>3, <1>4, <1>5, <1>6 DEF LinkOK

-----------------------------------------------------------------------------
(* What the handlers do to the record of a connection. *)

LEMMA PutDue ==
    ASSUME NEW k \in Conn, NEW units \in Seq(Unit)
    PROVE  LET r == Put(k, units)
           IN  /\ r \in Conn
               /\ Due(r) = Due(k) + Count(units, "end")
               /\ r.clientBuffer = k.clientBuffer
<1>. DEFINE r == Put(k, units)
<1>1. k.serverBuffer \in Seq(Unit)
  BY DEF Conn
<1>2. k.serverBuffer \o units \in Seq(Unit)
      /\ Count(k.serverBuffer \o units, "end")
         = Count(k.serverBuffer, "end") + Count(units, "end")
  BY <1>1, ConcatProperties, CountConcat
<1>3. /\ r.serverBuffer = k.serverBuffer \o units
      /\ r.clientBuffer = k.clientBuffer /\ r.stm = k.stm
      /\ r.fileDoneReading = k.fileDoneReading
  BY DEF Put, Conn
<1>4. r \in Conn
  BY <1>2 DEF Put, Conn
<1>5. Answering(r) <=> Answering(k)
  BY <1>3 DEF Answering
<1>6. Count(units, "end") \in Nat
  BY CountIsPlaces
<1>. HIDE DEF r
<1>7. (IF Answering(r) THEN 1 ELSE 0) = (IF Answering(k) THEN 1 ELSE 0)
  BY <1>5
<1>8. Due(r) = Due(k) + Count(units, "end")
  <2>. DEFINE a == IF Answering(k) THEN 1 ELSE 0
  <2>1. Due(r) = Ends(k.clientBuffer)
                 + (Count(k.serverBuffer, "end") + Count(units, "end")) + a
    BY <1>2, <1>3, <1>7 DEF Due
  <2>2. Due(k) = Ends(k.clientBuffer) + Count(k.serverBuffer, "end") + a
    BY DEF Due
  <2>3. a \in Nat
    OBVIOUS
  <2>. HIDE DEF a
  <2> QED
    BY <1>6, <2>1, <2>2, <2>3, DueIsNat
<1> QED
  BY <1>3, <1>4, <1>8 DEF r

LEMMA SentDue ==
    ASSUME NEW k \in Conn, Written(k) <= Room,
           NEW n \in 1 .. Len(k.serverBuffer)
    PROVE  LET s == Sent(k, n)
               units == SubSeq(k.serverBuffer, 1, n)
           IN  /\ s \in Conn /\ Written(s) <= Room
               /\ Due(k) = Due(s) + Count(units, "end")
               /\ s.clientBuffer = k.clientBuffer /\ s.stm = k.stm
               /\ s.fileDoneReading = k.fileDoneReading
               /\ units \in Seq(Unit) /\ Count(units, "end") \in Nat
<1>. DEFINE s == Sent(k, n)
<1>. DEFINE b == k.serverBuffer
<1>. DEFINE front == SubSeq(b, 1, n)
<1>. DEFINE rest == SubSeq(b, n + 1, Len(b))
<1>. DEFINE at == IF n = Len(b) THEN 0 ELSE k.read + n
<1>1. b \in Seq(Unit) /\ Len(b) \in Nat /\ k.read \in 0 .. Room /\ Room \in Nat
  BY LenProperties, SessionAssumption DEF Conn
<1>2. n \in 0 .. Len(b)
  BY <1>1
<1>3. /\ front \in Seq(Unit) /\ rest \in Seq(Unit)
      /\ Len(rest) = Len(b) - n
      /\ Count(b, "end") = Count(front, "end") + Count(rest, "end")
  <2>. HIDE DEF b
  <2> QED
    BY <1>1, <1>2, CountSplit
<1>4. Count(front, "end") \in Nat /\ Count(rest, "end") \in Nat
  BY <1>3, CountIsPlaces
<1>5. at \in 0 .. Room /\ at + Len(rest) <= Room
  <2>1. k.read + Len(b) <= Room
    BY DEF Written
  <2>. HIDE DEF b
  <2>2. CASE n = Len(b)
    BY <1>1, <1>3, <2>2
  <2>3. CASE n # Len(b)
    BY <1>1, <1>2, <1>3, <2>1, <2>3
  <2> QED
    BY <2>2, <2>3
<1>6. /\ s.serverBuffer = rest /\ s.read = at
      /\ s.clientBuffer = k.clientBuffer /\ s.stm = k.stm
      /\ s.fileDoneReading = k.fileDoneReading
  BY DEF Sent, Conn
<1>7. s \in Conn
  <2>1. s = [[k EXCEPT !.serverBuffer = rest] EXCEPT !.read = at]
    BY DEF Sent, Conn
  <2>. HIDE DEF s, rest, at
  <2>2. [k EXCEPT !.serverBuffer = rest] \in Conn
    BY <1>3 DEF Conn
  <2> QED
    BY <1>5, <2>1, <2>2 DEF Conn
<1>. HIDE DEF s, b, front, rest, at
<1>8. Due(k) = Due(s) + Count(front, "end")
  <2>1. Answering(s) <=> Answering(k)
    BY <1>6 DEF Answering
  <2>. DEFINE a == IF Answering(k) THEN 1 ELSE 0
  <2>2. Due(s) = Ends(k.clientBuffer) + Count(rest, "end") + a
    BY <1>6, <2>1 DEF Due
  <2>3. Due(k) = Ends(k.clientBuffer) + Count(b, "end") + a
    BY DEF Due, b
  <2>4. a \in Nat
    OBVIOUS
  <2>. HIDE DEF a
  <2> QED
    BY <1>3, <1>4, <2>2, <2>3, <2>4, DueIsNat
<1>9. Written(s) <= Room
  BY <1>5, <1>6 DEF Written
<1> QED
  BY <1>3, <1>4, <1>6, <1>7, <1>8, <1>9 DEF s, b, front

(* Answering or not is what the control fields change. *)
LEMMA ControlDue ==
    ASSUME NEW k \in Conn, NEW r \in Conn,
           r.clientBuffer = k.clientBuffer, r.serverBuffer = k.serverBuffer
    PROVE  /\ (Answering(r) <=> Answering(k)) => Due(r) = Due(k)
           /\ Answering(k) /\ ~Answering(r) => Due(k) = Due(r) + 1
           /\ ~Answering(k) /\ Answering(r) => Due(r) = Due(k) + 1
<1>. DEFINE e == Ends(k.clientBuffer)
<1>. DEFINE u == Count(k.serverBuffer, "end")
<1>1. e \in Nat /\ u \in Nat
  BY DueIsNat
<1>2. Due(k) = e + u + (IF Answering(k) THEN 1 ELSE 0)
      /\ Due(r) = e + u + (IF Answering(r) THEN 1 ELSE 0)
  BY DEF Due
<1>. HIDE DEF e, u
<1> QED
  BY <1>1, <1>2

LEMMA BackToReadDue ==
    ASSUME NEW k \in Conn, ~Answering(k)
    PROVE  BackToRead(k) \in Conn /\ Due(BackToRead(k)) = Due(k)
<1>. DEFINE r == BackToRead(k)
<1>1. r \in Conn
  BY DEF BackToRead, Conn
<1>2. /\ r.clientBuffer = k.clientBuffer /\ r.serverBuffer = k.serverBuffer
      /\ r.stm = "READ"
  BY DEF BackToRead, Conn
<1>3. ~Answering(r)
  BY <1>2 DEF Answering
<1>. HIDE DEF r
<1>4. Due(r) = Due(k)
  BY <1>1, <1>2, <1>3, ControlDue
<1> QED
  BY <1>1, <1>4 DEF r

(* The terminator ends the answer that was being given. *)
LEMMA EndOfFileDue ==
    ASSUME NEW k \in Conn, k.stm = "WRITE_FILE", ~k.fileDoneReading
    PROVE  EndOfFile(k) \in Conn /\ Due(EndOfFile(k)) = Due(k)
<1>. DEFINE r == [k EXCEPT !.fileDoneReading = TRUE, !.blocks = Closed]
<1>1. r \in Conn
  BY DEF Conn, Closed
<1>2. /\ r.clientBuffer = k.clientBuffer /\ r.serverBuffer = k.serverBuffer
      /\ r.stm = "WRITE_FILE" /\ r.fileDoneReading
  BY DEF Conn
<1>3. Answering(k) /\ ~Answering(r)
  BY <1>2 DEF Answering
<1>4. EndOfFile(k) = Put(r, LastLine)
  BY DEF EndOfFile
<1>. HIDE DEF r
<1>5. Due(k) = Due(r) + 1
  BY <1>1, <1>2, <1>3, ControlDue
<1>6. LastLine \in Seq(Unit) /\ Count(LastLine, "end") = 1
  BY Pieces
<1>7. Put(r, LastLine) \in Conn /\ Due(Put(r, LastLine)) = Due(r) + 1
  <2>1. Put(r, LastLine) \in Conn
        /\ Due(Put(r, LastLine)) = Due(r) + Count(LastLine, "end")
    BY <1>1, <1>6, PutDue
  <2> QED
    BY <1>6, <2>1
<1> QED
  BY <1>4, <1>5, <1>7

(* A block ends nothing. *)
LEMMA BlockDue ==
    ASSUME NEW k \in Conn, NEW left \in 0 .. MaxBlocks, left > 0, NEW n \in Int
    PROVE  LET r == Put([k EXCEPT !.blocks = left - 1], Block(n))
           IN  r \in Conn /\ Due(r) = Due(k)
<1>. DEFINE q == [k EXCEPT !.blocks = left - 1]
<1>1. left - 1 \in 0 .. MaxBlocks
  BY SessionAssumption
<1>2. q \in Conn
  BY <1>1 DEF Conn
<1>3. /\ q.clientBuffer = k.clientBuffer /\ q.serverBuffer = k.serverBuffer
      /\ q.stm = k.stm /\ q.fileDoneReading = k.fileDoneReading
  BY DEF Conn
<1>4. Answering(q) <=> Answering(k)
  BY <1>3 DEF Answering
<1>. HIDE DEF q
<1>5. Due(q) = Due(k)
  BY <1>2, <1>3, <1>4, ControlDue
<1>6. Block(n) \in Seq(Unit) /\ Count(Block(n), "end") = 0
  BY BlockPiece
<1>7. Put(q, Block(n)) \in Conn
      /\ Due(Put(q, Block(n))) = Due(q) + Count(Block(n), "end")
  BY <1>2, <1>6, PutDue
<1>8. Due(Put(q, Block(n))) = Due(k)
  BY <1>5, <1>6, <1>7, DueIsNat
<1> QED
  BY <1>7, <1>8 DEF q

(* An entry of a listing is not the end of it, its terminator is. *)
LEMMA ListDue ==
    ASSUME MaildropInv, NEW c \in Client, NEW k \in Conn, k.stm = "WRITE_LIST"
    PROVE  pop3ReadList(c, k) \in Conn /\ Due(pop3ReadList(c, k)) = Due(k)
<1>. DEFINE todo == {i \in Active(c) : i >= k.lastFileList}
<1>1. Answering(k)
  BY DEF Answering
<1>2. CASE todo = {}
  <2>. DEFINE r == [k EXCEPT !.stm = "WRITE", !.lastFileList = 0]
  <2>1. r \in Conn
    <3>1. 0 \in 0 .. MAX_EMAILS /\ "WRITE" \in Writers
      BY MaildropAssumption DEF Writers
    <3> QED
      BY <3>1 DEF Conn
  <2>2. /\ r.clientBuffer = k.clientBuffer /\ r.serverBuffer = k.serverBuffer
        /\ r.stm = "WRITE"
    BY DEF Conn
  <2>3. ~Answering(r)
    BY <2>2 DEF Answering
  <2>4. pop3ReadList(c, k) = Put(r, LastLine)
    BY <1>2 DEF pop3ReadList
  <2>. HIDE DEF r
  <2>5. Due(k) = Due(r) + 1
    BY <1>1, <2>1, <2>2, <2>3, ControlDue
  <2>6. LastLine \in Seq(Unit) /\ Count(LastLine, "end") = 1
    BY Pieces
  <2>7. Put(r, LastLine) \in Conn
        /\ Due(Put(r, LastLine)) = Due(r) + Count(LastLine, "end")
    BY <2>1, <2>6, PutDue
  <2> QED
    BY <2>4, <2>5, <2>6, <2>7
<1>3. CASE todo # {}
  <2>. DEFINE m == Min(todo)
  <2>. DEFINE r == [k EXCEPT !.lastFileList = m + 1]
  <2>1. client[c].file_cant \in Nat /\ client[c].file_cant < MAX_EMAILS
    <3>1. /\ client[c].file_cant \in Nat
          /\ client[c].file_cant <= Len(client[c].files)
          /\ Len(client[c].files) < MAX_EMAILS
          /\ client[c].files \in Seq(Msg)
      BY DEF MaildropInv, RecordOK, ClientRecord
    <3>2. Len(client[c].files) \in Nat
      BY <3>1, LenProperties
    <3> QED
      BY <3>1, <3>2, MaildropAssumption
  <2>2. todo \in SUBSET (1 .. client[c].file_cant)
    BY DEF Active, Slots
  <2>3. m \in todo
    <3>1. todo \in SUBSET Nat
      BY <2>1, <2>2
    <3>. HIDE DEF todo
    <3> QED
      BY <1>3, <3>1, Least
  <2>4. m \in 1 .. client[c].file_cant
    BY <2>2, <2>3
  <2>. HIDE DEF m
  <2>5. m + 1 \in 0 .. MAX_EMAILS
    BY <2>1, <2>4, MaildropAssumption
  <2>6. r \in Conn
    BY <2>5 DEF Conn
  <2>7. /\ r.clientBuffer = k.clientBuffer /\ r.serverBuffer = k.serverBuffer
        /\ r.stm = k.stm
    BY DEF Conn
  <2>8. Answering(r)
    BY <2>7 DEF Answering
  <2>9. pop3ReadList(c, k) = Put(r, PartLine)
    BY <1>3 DEF pop3ReadList, m
  <2>. HIDE DEF r
  <2>10. Due(r) = Due(k)
    BY <1>1, <2>6, <2>7, <2>8, ControlDue
  <2>11. PartLine \in Seq(Unit) /\ Count(PartLine, "end") = 0
    BY Pieces
  <2>12. Put(r, PartLine) \in Conn
         /\ Due(Put(r, PartLine)) = Due(r) + Count(PartLine, "end")
    BY <2>6, <2>11, PutDue
  <2> QED
    BY <2>9, <2>10, <2>11, <2>12, DueIsNat
<1> QED
  BY <1>2, <1>3

(* What a handler of the command layer may hand to the connection. *)
Outcome(a) == /\ a.st \in Return
              /\ a.st = "WRITE_FILE" => a.arg[1] \in 0 .. MAX_EMAILS

(* A command executed is one answer more to give. *)
LEMMA CommandDue ==
    ASSUME NEW k \in Conn, ~Answering(k), NEW a, Outcome(a)
    PROVE  AfterCommand(k, a) \in Conn /\ Due(AfterCommand(k, a)) = Due(k) + 1
<1>. DEFINE b == [k EXCEPT !.stm = a.st, !.interest = "OP_WRITE"]
<1>1. a.st \in Return /\ Return \subseteq Writers \cup {"NONE", "READ", "ERROR_STATE"}
  BY DEF Outcome, Return, Writers
<1>2. b \in Conn
  BY <1>1 DEF Conn
<1>3. /\ b.clientBuffer = k.clientBuffer /\ b.serverBuffer = k.serverBuffer
      /\ b.stm = a.st
  BY DEF Conn
<1>4. Due(k) \in Nat
  BY DueIsNat
<1>. HIDE DEF b
<1>5. CASE a.st = "WRITE_LIST"
  <2>. DEFINE r == [b EXCEPT !.lastFileList = 1]
  <2>1. r \in Conn
    <3>1. 1 \in 0 .. MAX_EMAILS
      <4>1. Cardinality(Msg) \in Nat
        BY MaildropAssumption, FS_CardinalityType
      <4> QED
        BY <4>1, MaildropAssumption
    <3> QED
      BY <1>2, <3>1 DEF Conn
  <2>2. /\ r.clientBuffer = k.clientBuffer /\ r.serverBuffer = k.serverBuffer
        /\ r.stm = "WRITE_LIST"
    BY <1>2, <1>3, <1>5 DEF Conn
  <2>3. Answering(r)
    BY <2>2 DEF Answering
  <2>4. AfterCommand(k, a) = Put(r, PartLine)
    BY <1>5 DEF AfterCommand, b
  <2>. HIDE DEF r
  <2>5. Due(r) = Due(k) + 1
    BY <2>1, <2>2, <2>3, ControlDue
  <2>6. PartLine \in Seq(Unit) /\ Count(PartLine, "end") = 0
    BY Pieces
  <2>7. Put(r, PartLine) \in Conn
        /\ Due(Put(r, PartLine)) = Due(r) + Count(PartLine, "end")
    BY <2>1, <2>6, PutDue
  <2> QED
    BY <1>4, <2>4, <2>5, <2>6, <2>7
<1>6. CASE a.st = "WRITE_FILE"
  <2>. DEFINE r == [b EXCEPT !.activeFile = a.arg[1], !.fileDoneReading = FALSE]
  <2>1. r \in Conn
    <3>1. a.arg[1] \in 0 .. MAX_EMAILS
      BY <1>6 DEF Outcome
    <3> QED
      BY <1>2, <3>1 DEF Conn
  <2>2. /\ r.clientBuffer = k.clientBuffer /\ r.serverBuffer = k.serverBuffer
        /\ r.stm = "WRITE_FILE" /\ ~r.fileDoneReading
    BY <1>2, <1>3, <1>6 DEF Conn
  <2>3. Answering(r)
    BY <2>2 DEF Answering
  <2>4. AfterCommand(k, a) = Put(r, PartLine)
    BY <1>6 DEF AfterCommand, b
  <2>. HIDE DEF r
  <2>5. Due(r) = Due(k) + 1
    BY <2>1, <2>2, <2>3, ControlDue
  <2>6. PartLine \in Seq(Unit) /\ Count(PartLine, "end") = 0
    BY Pieces
  <2>7. Put(r, PartLine) \in Conn
        /\ Due(Put(r, PartLine)) = Due(r) + Count(PartLine, "end")
    BY <2>1, <2>6, PutDue
  <2> QED
    BY <1>4, <2>4, <2>5, <2>6, <2>7
<1>7. CASE a.st \notin {"WRITE_LIST", "WRITE_FILE"}
  <2>1. ~Answering(b)
    BY <1>3, <1>7 DEF Answering
  <2>2. AfterCommand(k, a) = Put(b, LastLine)
    BY <1>7 DEF AfterCommand, b
  <2>3. Due(b) = Due(k)
    BY <1>2, <1>3, <2>1, ControlDue
  <2>4. LastLine \in Seq(Unit) /\ Count(LastLine, "end") = 1
    BY Pieces
  <2>5. Put(b, LastLine) \in Conn
        /\ Due(Put(b, LastLine)) = Due(b) + Count(LastLine, "end")
    BY <1>2, <2>4, PutDue
  <2> QED
    BY <2>2, <2>3, <2>4, <2>5
<1> QED
  BY <1>5, <1>6, <1>7

-----------------------------------------------------------------------------
(* A peer that receives, and a command executed, as steps of one client.   *)

LEMMA ReceivedOwed ==
    ASSUME NEW p \in Peer, NEW units \in Seq(Unit), Count(units, "end") <= p.owed
    PROVE  LET q == Received(p, units)
           IN  /\ q \in Peer /\ q.inq = p.inq
               /\ q.owed = p.owed - Count(units, "end")
<1>. DEFINE q == Received(p, units)
<1>. DEFINE owed == p.owed - Count(units, "end")
<1>. DEFINE got == IF Count(units, "end") > 0 THEN 0 ELSE p.got + Count(units, "part")
<1>1. Count(units, "end") \in Nat /\ Count(units, "part") \in Nat
  BY CountIsPlaces
<1>2. p.owed \in Nat /\ p.got \in Nat
  BY DEF Peer
<1>3. owed \in Nat /\ got \in Nat
  BY <1>1, <1>2
<1>4. q = [[p EXCEPT !.owed = owed] EXCEPT !.got = got]
  BY DEF Received, Peer
<1>. HIDE DEF q, owed, got
<1>5. [p EXCEPT !.owed = owed] \in Peer
  BY <1>3 DEF Peer
<1>6. q \in Peer /\ q.inq = p.inq /\ q.owed = owed
  BY <1>3, <1>4, <1>5 DEF Peer
<1> QED
  BY <1>6 DEF q, owed

(* A send takes from the connection what it gives to the peer. *)
LEMMA SentLink ==
    ASSUME NEW c \in Client, NEW k \in Conn, NEW p \in Peer, LinkOK(c, k, p),
           Written(k) <= Room, NEW n \in 1 .. Len(k.serverBuffer)
    PROVE  /\ LinkOK(c, Sent(k, n), Received(p, SubSeq(k.serverBuffer, 1, n)))
           /\ Sent(k, n) \in Conn /\ Written(Sent(k, n)) <= Room
           /\ Sent(k, n).stm = k.stm
           /\ Sent(k, n).fileDoneReading = k.fileDoneReading
<1>. DEFINE s == Sent(k, n)
<1>. DEFINE units == SubSeq(k.serverBuffer, 1, n)
<1>. DEFINE q == Received(p, units)
<1>1. /\ s \in Conn /\ Written(s) <= Room
      /\ Due(k) = Due(s) + Count(units, "end")
      /\ s.stm = k.stm /\ s.fileDoneReading = k.fileDoneReading
      /\ units \in Seq(Unit) /\ Count(units, "end") \in Nat
  BY SentDue
<1>. HIDE DEF s, units
<1>2. /\ p.owed \in Nat /\ p.owed <= Ahead[c] /\ Ahead[c] \in Nat
      /\ p.owed = Ends(p.inq) + Due(k) /\ p.inq \in Seq(Input)
  BY SessionAssumption DEF LinkOK, Peer, Input
<1>3. Ends(p.inq) \in Nat /\ Due(s) \in Nat
  BY <1>1, <1>2, DueIsNat, EndsConcat
<1>4. Count(units, "end") <= p.owed
  BY <1>1, <1>2, <1>3
<1>5. q \in Peer /\ q.inq = p.inq /\ q.owed = p.owed - Count(units, "end")
  BY <1>1, <1>4, ReceivedOwed
<1>. HIDE DEF q
<1>6. q.owed = Ends(q.inq) + Due(s) /\ q.owed <= Ahead[c]
  BY <1>1, <1>2, <1>3, <1>5
<1> QED
  BY <1>1, <1>5, <1>6 DEF LinkOK, s, units, q

(* A step of the command layer that is one client's alone and does not end *)
(* its connection.                                                         *)
ClientMoves(c) ==
    /\ [Next]_maildropVars
    /\ \A d \in Client : d # c => client'[d] = client[d]
    /\ client[c].state # "NONE" => client'[c].state # "NONE"

LEMMA NothingMoves ==
    ASSUME NEW c \in Client, UNCHANGED maildropVars
    PROVE  ClientMoves(c)
BY DEF ClientMoves, maildropVars

LEMMA CommandMoves ==
    ASSUME MaildropInv, NEW c \in Client, NEW cmd \in Command,
           executeCommand(c, cmd[1], cmd[2])
    PROVE  ClientMoves(c) /\ Outcome(reply')
<1>1. Next
  BY DEF Next, ClientStep
<1>2. reply' \in Reply
  BY <1>1, NextStep DEF MaildropInv
<1>. DEFINE verb == cmd[1]
<1>. DEFINE arg == cmd[2]
<1>. DEFINE Quiet == /\ \A d \in Client : d # c => client'[d] = client[d]
                     /\ client[c].state # "NONE" => client'[c].state # "NONE"
<1>. DEFINE Silent == reply'.st # "WRITE_FILE"
<1>3. client \in [Client -> ClientRecord] /\ RecordOK(client[c])
  BY DEF MaildropInv
<1>4. ASSUME NEW a, answer(a)
      PROVE  Quiet /\ reply' = a
  BY <1>4 DEF answer
<1>5. /\ OK(<<>>).st = "WRITE" /\ ERR.st = "WRITE" /\ (\A a : OK(a).st = "WRITE")
      /\ \A st, ok, a : Answer(st, ok, a).st = st /\ Answer(st, ok, a).arg = a
  BY DEF OK, ERR, Answer
<1>6. Silent => Outcome(reply')
  BY <1>2 DEF Outcome, Reply
<1>7. ASSUME nonAuthTable(c, verb, arg), client[c].state # "NONE"
      PROVE  Quiet /\ Silent
  <2>1. ASSUME handleQuitNonAuth(c)
        PROVE  Quiet /\ Silent
    <3>1. /\ client' = [client EXCEPT ![c].state = "CLOSED"]
          /\ reply' = OK(<<>>)
      BY <2>1 DEF handleQuitNonAuth
    <3> QED
      BY <1>3, <1>5, <3>1 DEF ClientRecord
  <2>2. ASSUME handleUser(c, arg)
        PROVE  Quiet /\ Silent
    <3>1. /\ client' = [client EXCEPT ![c].name = arg]
          /\ reply' = OK(<<>>)
      BY <2>2 DEF handleUser
    <3> QED
      BY <1>3, <1>5, <1>7, <3>1 DEF ClientRecord
  <2>3. ASSUME NEW valid \in BOOLEAN, handlePass(c, valid)
        PROVE  Quiet /\ Silent
    <3>. DEFINE rec == [client[c] EXCEPT !.state = "TRANSACTION"]
    <3>1. reply' \in {OK(<<>>), ERR}
      BY <2>3 DEF handlePass
    <3>2. \/ UNCHANGED client
          \/ client' = [client EXCEPT ![c] = [client[c] EXCEPT !.name = NULL]]
          \/ \E l : client' = [client EXCEPT ![c] = populate_array(rec, l)]
          \/ client' = [client EXCEPT ![c] = rec]
      BY <2>3 DEF handlePass
    <3>3. rec.state = "TRANSACTION" /\ rec \in ClientRecord
      BY <1>3 DEF ClientRecord, State
    <3>4. \A l : populate_array(rec, l).state = "TRANSACTION"
      <4>. HIDE DEF rec
      <4> QED
        BY <3>3 DEF populate_array, ClientRecord
    <3>5. [client[c] EXCEPT !.name = NULL].state = client[c].state
      BY <1>3 DEF ClientRecord
    <3>6. Quiet
      <4>. HIDE DEF rec
      <4>1. ASSUME NEW r, client' = [client EXCEPT ![c] = r], r.state # "NONE"
            PROVE  Quiet
        BY <1>3, <4>1
      <4>2. CASE UNCHANGED client
        BY <4>2
      <4> QED
        BY <1>7, <3>2, <3>3, <3>4, <3>5, <4>1, <4>2
    <3>7. Silent
      BY <1>5, <3>1
    <3> QED
      BY <3>6, <3>7
  <2>4. ASSUME handleCapa
        PROVE  Quiet /\ Silent
    BY <1>4, <1>5, <2>4 DEF handleCapa
  <2> QED
    BY <1>7, <2>1, <2>2, <2>3, <2>4 DEF nonAuthTable
<1>8. ASSUME authTable(c, verb, arg), client[c].state # "NONE"
      PROVE  Quiet /\ Outcome(reply')
  <2>1. ASSUME handleQuitAuth(c)
        PROVE  Quiet /\ Silent
    <3>1. \/ reply' = ERR
          \/ \E a : reply' = OK(a)
      BY <2>1 DEF handleQuitAuth
    <3>. DEFINE left == client[c].file_cant - Cardinality(Removed(c))
    <3>2. PICK st \in {"UPDATE", "CLOSED"} :
             client' = [client EXCEPT ![c].state = st, ![c].file_cant = left]
      BY <2>1 DEF handleQuitAuth
    <3>. HIDE DEF left
    <3>. DEFINE r == [client[c] EXCEPT !.state = st, !.file_cant = left]
    <3>3. client' = [client EXCEPT ![c] = r]
      BY <1>3, <3>2
    <3>4. r.state = st
      BY <1>3 DEF ClientRecord
    <3>. HIDE DEF r
    <3>5. Quiet
      BY <1>3, <3>3, <3>4
    <3> QED
      BY <1>5, <3>1, <3>5
  <2>2. ASSUME handleStat(c)
        PROVE  Quiet /\ Silent
    BY <1>4, <1>5, <2>2 DEF handleStat
  <2>3. ASSUME handleList(c, arg)
        PROVE  Quiet /\ Silent
    <3>1. \/ answer(ERR)
          \/ \E a : answer(OK(a))
          \/ \E a : answer(Answer("WRITE_LIST", TRUE, a))
      BY <2>3 DEF handleList, pop3ReadListHeader
    <3>2. ASSUME NEW a, answer(a), a.st # "WRITE_FILE"
          PROVE  Quiet /\ Silent
      BY <1>4, <3>2
    <3>3. \A a : Answer("WRITE_LIST", TRUE, a).st # "WRITE_FILE"
      BY DEF Answer
    <3> QED
      BY <1>5, <3>1, <3>2, <3>3
  <2>4. ASSUME handleRetr(c, arg)
        PROVE  Quiet /\ Outcome(reply')
    <3>1. CASE arg \in Active(c)
      <4>1. answer(Answer("WRITE_FILE", TRUE, <<arg, OctetsOf(c, arg)>>))
        BY <2>4, <3>1 DEF handleRetr
      <4>2. Quiet /\ reply'.arg = <<arg, OctetsOf(c, arg)>>
        BY <1>4, <4>1 DEF Answer
      <4>3. arg \in 0 .. MAX_EMAILS
        <5>1. client[c].file_cant \in 0 .. MAX_EMAILS
          BY <1>3 DEF RecordOK, ClientRecord
        <5> QED
          BY <3>1, <5>1, MaildropAssumption DEF Active, Slots
      <4> QED
        BY <1>2, <4>2, <4>3 DEF Outcome, Reply
    <3>2. CASE arg \notin Active(c)
      <4>1. answer(ERR)
        BY <2>4, <3>2 DEF handleRetr
      <4> QED
        BY <1>4, <1>5, <1>6, <4>1
    <3> QED
      BY <3>1, <3>2
  <2>5. ASSUME handleDele(c, arg)
        PROVE  Quiet /\ Silent
    <3>1. CASE answer(ERR)
      BY <1>4, <1>5, <3>1
    <3>2. CASE ~answer(ERR)
      <4>. DEFINE r == [client[c] EXCEPT
                          !.to_delete = @ \cup {arg}, !.active_file_cant = @ - 1,
                          !.active_file_size = @ - OctetsOf(c, arg)]
      <4>1. client' = [client EXCEPT ![c] = r] /\ reply' = OK(<<arg>>)
        BY <2>5, <3>2 DEF handleDele
      <4>2. r.state = client[c].state
        BY <1>3 DEF ClientRecord
      <4>. HIDE DEF r
      <4> QED
        BY <1>3, <1>5, <1>8, <4>1, <4>2
    <3> QED
      BY <3>1, <3>2
  <2>6. ASSUME handleNoop \/ handleCapa
        PROVE  Quiet /\ Silent
    BY <1>4, <1>5, <2>6 DEF handleNoop, handleCapa
  <2>7. ASSUME handleRset(c)
        PROVE  Quiet /\ Silent
    <3>. DEFINE back == Slots(c) \cap Marked(c)
    <3>. DEFINE r(count, size) ==
           [client[c] EXCEPT !.to_delete = @ \ back, !.active_file_cant = count,
                             !.active_file_size = size]
    <3>1. \E count, size : /\ client' = [client EXCEPT ![c] = r(count, size)]
                           /\ reply' = OK(<<count, size>>)
      BY <2>7 DEF handleRset
    <3>2. \A count, size : r(count, size).state = client[c].state
      BY <1>3 DEF ClientRecord
    <3>. HIDE DEF r
    <3> QED
      BY <1>3, <1>5, <1>8, <3>1, <3>2
  <2> QED
    BY <1>6, <1>8, <2>1, <2>2, <2>3, <2>4, <2>5, <2>6, <2>7 DEF authTable
<1>9. CASE \E a : answer(a) /\ a.st # "WRITE_FILE"
  BY <1>1, <1>4, <1>6, <1>9 DEF ClientMoves
<1>10. CASE client[c].state \in {"AUTHORIZATION", "UPDATE"} /\ nonAuthTable(c, verb, arg)
  BY <1>1, <1>6, <1>7, <1>10 DEF ClientMoves
<1>11. CASE client[c].state = "TRANSACTION" /\ authTable(c, verb, arg)
  BY <1>1, <1>8, <1>11 DEF ClientMoves
<1>. HIDE DEF verb, arg
<1> QED
  BY <1>5, <1>9, <1>10, <1>11 DEF executeCommand, verb, arg

-----------------------------------------------------------------------------
(* Each handler, as a change of one connection and its peer. *)

(* Parsing what is in the client buffer leaves as many answers due: a line *)
(* executed is an answer begun.                                            *)
LEMMA ParseMoves ==
    ASSUME MaildropInv, NEW c \in Client, NEW k \in Conn, ~Answering(k),
           parseCommandInBuffer(c, k)
    PROVE  /\ ClientMoves(c)
           /\ \E r \in Conn : Due(r) = Due(k) /\ Become(c, r)
<1>. DEFINE s == k.clientBuffer
<1>. DEFINE ends == {i \in DOMAIN s : s[i] # Half}
<1>0. s \in Seq(Input)
  BY DEF Conn, Input
<1>1. CASE ends = {}
  <2>. DEFINE r == [k EXCEPT !.stm = "READ", !.clientBuffer = <<>>]
  <2>1. Become(c, r) /\ UNCHANGED maildropVars
    BY <1>1 DEF parseCommandInBuffer
  <2>2. r \in Conn
    BY NoInput DEF Conn, Input
  <2>3. /\ r.clientBuffer = <<>> /\ r.serverBuffer = k.serverBuffer
        /\ r.stm = "READ"
    BY DEF Conn
  <2>4. ~Answering(r)
    BY <2>3 DEF Answering
  <2>5. Ends(s) = 0
    <3>. HIDE DEF s
    <3> QED
      BY <1>0, <1>1, FirstLine
  <2>. HIDE DEF r
  <2>6. Due(r) = Due(k)
    BY <2>3, <2>4, <2>5, NoInput DEF Due
  <2> QED
    BY <2>1, <2>2, <2>6, NothingMoves
<1>2. CASE ends # {}
  <2>. DEFINE i == Min(ends)
  <2>. DEFINE rest == Unconsumed(s, i)
  <2>. DEFINE q == [k EXCEPT !.clientBuffer = rest]
  <2>1. /\ s[i] \in Command /\ rest \in Seq(Input)
        /\ Ends(s) = 1 + Ends(rest)
    <3>. HIDE DEF s
    <3> QED
      BY <1>0, <1>2, FirstLine
  <2>2. /\ executeCommand(c, s[i][1], s[i][2])
        /\ Become(c, AfterCommand(q, reply'))
    BY <1>2 DEF parseCommandInBuffer
  <2>3. ClientMoves(c) /\ Outcome(reply')
    <3>. HIDE DEF s, i
    <3> QED
      BY <2>1, <2>2, CommandMoves
  <2>4. q \in Conn
    BY <2>1 DEF Conn, Input
  <2>5. /\ q.clientBuffer = rest /\ q.serverBuffer = k.serverBuffer
        /\ q.stm = k.stm /\ q.fileDoneReading = k.fileDoneReading
    BY DEF Conn
  <2>6. ~Answering(q)
    BY <2>5 DEF Answering
  <2>. HIDE DEF q, rest, i, s, ends
  <2>7. AfterCommand(q, reply') \in Conn /\ Due(AfterCommand(q, reply')) = Due(q) + 1
    BY <2>3, <2>4, <2>6, CommandDue
  <2>8. Due(k) = Due(q) + 1
    <3>. DEFINE u == Count(k.serverBuffer, "end")
    <3>1. Due(k) = Ends(s) + u + 0 /\ Due(q) = Ends(rest) + u + 0
      BY <2>5, <2>6 DEF Due, s
    <3>2. Ends(rest) \in Nat /\ u \in Nat
      BY <2>1, DueIsNat, EndsConcat
    <3>. HIDE DEF u
    <3> QED
      BY <2>1, <3>1, <3>2
  <2> QED
    BY <2>2, <2>3, <2>7, <2>8
<1> QED
  BY <1>1, <1>2

(* A change of one connection keeps the invariant if it keeps its part.    *)
LEMMA OneLink ==
    ASSUME SessionInv, server = "up", NEW c \in Client, NEW r, NEW p,
           conn' = [conn EXCEPT ![c] = r], peer' = [peer EXCEPT ![c] = p],
           LinkOK(c, r, p), server' \in {"up", "no_handler", "overrun"},
           server' = "up" => Written(r) <= Room,
           \A d \in Client : d # c => client'[d] = client[d],
           client'[c].state = "NONE" => r = NoConn /\ p = NoPeer
    PROVE  SessionInv'
<1>1. r \in Conn /\ p \in Peer
  BY DEF LinkOK
<1>2. conn' \in [Client -> Conn] /\ peer' \in [Client -> Peer]
  BY <1>1 DEF SessionInv
<1>3. \A d \in Client : /\ conn'[d] = IF d = c THEN r ELSE conn[d]
                        /\ peer'[d] = IF d = c THEN p ELSE peer[d]
  BY DEF SessionInv
<1>4. \A d \in Client : LinkOK(d, conn'[d], peer'[d])
  BY <1>3 DEF SessionInv
<1>5. server' = "up" => \A d \in Client : Written(conn'[d]) <= Room
  BY <1>3 DEF SessionInv
<1>6. \A d \in Client : client'[d].state = "NONE"
                           => conn'[d] = NoConn /\ peer'[d] = NoPeer
  BY <1>3 DEF SessionInv
<1>7. SessionInv' <=>
        /\ conn' \in [Client -> Conn] /\ peer' \in [Client -> Peer]
        /\ \A d \in Client : LinkOK(d, conn'[d], peer'[d])
        /\ server' \in {"up", "no_handler", "overrun"}
        /\ server' = "up" => \A d \in Client : Written(conn'[d]) <= Room
        /\ \A d \in Client : client'[d].state = "NONE"
                                => conn'[d] = NoConn /\ peer'[d] = NoPeer
  BY DEF SessionInv, LinkOK, Due, Answering, Written
<1> QED
  BY <1>2, <1>4, <1>5, <1>6, <1>7

(* A handler that leaves as much due and the connection open. *)
LEMMA Handled ==
    ASSUME SessionInv, server = "up", NEW c \in Client,
           client[c].state # "NONE", ClientMoves(c),
           NEW k \in Conn, NEW p, LinkOK(c, k, p), peer' = [peer EXCEPT ![c] = p],
           \E r \in Conn : Due(r) = Due(k) /\ Become(c, r)
    PROVE  SessionInv'
<1>1. PICK r \in Conn : Due(r) = Due(k) /\ Become(c, r)
  OBVIOUS
<1>2. /\ conn' = [conn EXCEPT ![c] = r]
      /\ server' = IF Written(r) <= Room THEN "up" ELSE "overrun"
  BY <1>1 DEF Become
<1>3. LinkOK(c, r, p)
  BY <1>1 DEF LinkOK
<1>4. /\ \A d \in Client : d # c => client'[d] = client[d]
      /\ client'[c].state # "NONE"
  BY DEF ClientMoves
<1>5. server' \in {"up", "no_handler", "overrun"}
      /\ (server' = "up" => Written(r) <= Room)
  BY <1>2
<1> QED
  BY <1>2, <1>3, <1>4, <1>5, OneLink

LEMMA CloseStep ==
    ASSUME SessionInv, server = "up", NEW c \in Client, Close(c),
           client \in [Client -> ClientRecord]
    PROVE  SessionInv' /\ [Next]_maildropVars
<1>1. /\ closeConnection(c)
      /\ conn' = [conn EXCEPT ![c] = NoConn] /\ peer' = [peer EXCEPT ![c] = NoPeer]
      /\ server' = server
  BY DEF Close
<1>2. \A d \in Client : d # c => client'[d] = client[d]
  BY <1>1 DEF closeConnection
<1>3. SessionInv'
  BY <1>1, <1>2, NoLink, OneLink
<1>4. Next
  BY <1>1 DEF Next, ClientStep
<1> QED
  BY <1>3, <1>4

-----------------------------------------------------------------------------
(* The steps. *)

(* The invariant of the connections and that of the command layer. *)
ServiceInv == SessionInv /\ MaildropInv

(* What an event finds: a connection that agrees with its peer and a client*)
(* that exists.                                                            *)
LEMMA AtEvent ==
    ASSUME ServiceInv, NEW c \in Client, Up(c)
    PROVE  /\ server = "up" /\ client[c].state # "NONE"
           /\ conn[c] \in Conn /\ peer[c] \in Peer
           /\ LinkOK(c, conn[c], peer[c]) /\ Written(conn[c]) <= Room
           /\ client \in [Client -> ClientRecord]
           /\ MaildropInv /\ SessionInv
<1>1. conn[c].stm # "NONE" /\ NoConn.stm = "NONE"
  BY DEF Up, NoConn
<1> QED
  BY <1>1 DEF Up, ServiceInv, SessionInv, MaildropInv

LEMMA ReadStep ==
    ASSUME ServiceInv, NEW c \in Client, pop3Read(c)
    PROVE  SessionInv' /\ [Next]_maildropVars
<1>1. Up(c) /\ conn[c].stm = "READ" /\ pop3ReadCommand(c)
  BY DEF pop3Read
<1>2. /\ server = "up" /\ client[c].state # "NONE"
      /\ conn[c] \in Conn /\ peer[c] \in Peer
      /\ LinkOK(c, conn[c], peer[c])
      /\ client \in [Client -> ClientRecord]
      /\ MaildropInv /\ SessionInv
  BY <1>1, AtEvent
<1>3. CASE Close(c)
  BY <1>2, <1>3, CloseStep
<1>4. CASE ~Close(c)
  <2>. DEFINE inq == peer[c].inq
  <2>. DEFINE it == IF conn[c].serverBuffer = <<>> THEN conn[c].interest
                    ELSE "OP_WRITE"
  <2>. DEFINE k(n) == [conn[c] EXCEPT
                         !.clientBuffer = @ \o SubSeq(inq, 1, n),
                         !.interest = IF conn[c].serverBuffer = <<>> THEN @
                                      ELSE "OP_WRITE"]
  <2>. DEFINE p(n) == [peer[c] EXCEPT !.inq = SubSeq(inq, n + 1, Len(inq))]
  <2>1. PICK n \in 0 .. Len(inq) :
           /\ peer' = [peer EXCEPT ![c].inq = SubSeq(inq, n + 1, Len(inq))]
           /\ parseCommandInBuffer(c, k(n))
    BY <1>1, <1>4 DEF pop3ReadCommand
  <2>2. inq \in Seq(Input) /\ conn[c].clientBuffer \in Seq(Input)
    BY <1>2 DEF Peer, Conn, Input
  <2>. DEFINE front == SubSeq(inq, 1, n)
  <2>. DEFINE rest == SubSeq(inq, n + 1, Len(inq))
  <2>3. front \in Seq(Input) /\ rest \in Seq(Input) /\ Ends(inq) = Ends(front) + Ends(rest)
    <3>. HIDE DEF inq
    <3> QED
      BY <2>1, <2>2, EndsSplit
  <2>4. peer' = [peer EXCEPT ![c] = p(n)]
    BY <1>2, <2>1 DEF SessionInv
  <2>. DEFINE cb == conn[c].clientBuffer \o front
  <2>5. cb \in Seq(Input) /\ Ends(cb) = Ends(conn[c].clientBuffer) + Ends(front)
        /\ Ends(conn[c].clientBuffer) \in Nat /\ Ends(front) \in Nat
    <3>. HIDE DEF front
    <3> QED
      BY <2>2, <2>3, ConcatProperties, EndsConcat
  <2>6. Ends(rest) \in Nat
    <3>. HIDE DEF rest
    <3> QED
      BY <2>3, EndsConcat
  <2>7. it \in {"OP_NOOP", "OP_READ", "OP_WRITE"}
    BY <1>2 DEF Conn
  <2>8. k(n) = [[conn[c] EXCEPT !.clientBuffer = cb] EXCEPT !.interest = it]
    BY <1>2 DEF Conn
  <2>9. p(n) = [peer[c] EXCEPT !.inq = rest]
    OBVIOUS
  <2>. HIDE DEF k, p, it, cb, rest, front
  <2>10. [conn[c] EXCEPT !.clientBuffer = cb] \in Conn
    BY <1>2, <2>5 DEF Conn, Input
  <2>11. /\ k(n) \in Conn /\ k(n).clientBuffer = cb
         /\ k(n).serverBuffer = conn[c].serverBuffer
         /\ k(n).stm = "READ"
    BY <1>1, <1>2, <2>7, <2>8, <2>10 DEF Conn
  <2>12. /\ p(n) \in Peer /\ p(n).inq = rest /\ p(n).owed = peer[c].owed
    BY <1>2, <2>3, <2>9 DEF Peer, Input
  <2>13. ~Answering(k(n)) /\ ~Answering(conn[c])
    BY <1>1, <2>11 DEF Answering
  <2>14. LinkOK(c, k(n), p(n))
    <3>. DEFINE u == Count(conn[c].serverBuffer, "end")
    <3>. DEFINE e == Ends(conn[c].clientBuffer)
    <3>1. u \in Nat
      BY <1>2, DueIsNat
    <3>2. Due(k(n)) = Ends(cb) + u + 0 /\ Due(conn[c]) = e + u + 0
      BY <2>11, <2>13 DEF Due
    <3>3. peer[c].owed = Ends(inq) + Due(conn[c]) /\ peer[c].owed <= Ahead[c]
      BY <1>2 DEF LinkOK
    <3>. HIDE DEF u, e, inq
    <3>4. e \in Nat /\ Ends(cb) = e + Ends(front)
      BY <2>5 DEF e
    <3>5. p(n).owed = Ends(p(n).inq) + Due(k(n))
      BY <2>3, <2>5, <2>6, <2>12, <3>1, <3>2, <3>3, <3>4
    <3> QED
      BY <2>11, <2>12, <3>3, <3>5 DEF LinkOK
  <2>15. ClientMoves(c) /\ \E r \in Conn : Due(r) = Due(k(n)) /\ Become(c, r)
    BY <1>2, <2>1, <2>11, <2>13, ParseMoves
  <2>16. SessionInv'
    BY <1>2, <2>4, <2>11, <2>14, <2>15, Handled
  <2> QED
    BY <2>15, <2>16 DEF ClientMoves
<1> QED
  BY <1>3, <1>4

(* A send of n units, and what follows it in the handler. *)
LEMMA SentThen ==
    ASSUME ServiceInv, NEW c \in Client, Up(c), ClientMoves(c),
           NEW n \in 1 .. Len(conn[c].serverBuffer), Delivered(c, n),
           \E r \in Conn : Due(r) = Due(Sent(conn[c], n)) /\ Become(c, r)
    PROVE  SessionInv' /\ [Next]_maildropVars
<1>. DEFINE s == Sent(conn[c], n)
<1>. DEFINE q == Received(peer[c], SubSeq(conn[c].serverBuffer, 1, n))
<1>1. /\ server = "up" /\ client[c].state # "NONE" /\ conn[c] \in Conn
      /\ peer[c] \in Peer /\ LinkOK(c, conn[c], peer[c])
      /\ Written(conn[c]) <= Room /\ SessionInv
  BY AtEvent
<1>2. s \in Conn /\ LinkOK(c, s, q)
  BY <1>1, SentLink
<1>3. peer' = [peer EXCEPT ![c] = q]
  BY DEF Delivered
<1>. HIDE DEF q
<1>4. SessionInv'
  BY <1>1, <1>2, <1>3, Handled
<1> QED
  BY <1>4 DEF ClientMoves

LEMMA WriteCommandStep ==
    ASSUME ServiceInv, NEW c \in Client, Up(c), conn[c].stm = "WRITE",
           pop3WriteCommand(c)
    PROVE  SessionInv' /\ [Next]_maildropVars
<1>1. PICK n \in 1 .. Len(conn[c].serverBuffer) :
         LET k    == Sent(conn[c], n)
             done == k.serverBuffer = <<>>
             more == k.clientBuffer # <<>>
             Keep(r) == Delivered(c, n) /\ Become(c, r) /\ UNCHANGED maildropVars
         IN  \/ ~done /\ Keep(k)
             \/ done /\ more /\ Delivered(c, n) /\ parseCommandInBuffer(c, k)
             \/ done /\ ~more /\ SignedOff(c) /\ Close(c)
             \/ done /\ ~more /\ ~SignedOff(c) /\ Keep(BackToRead(k))
  BY DEF pop3WriteCommand
<1>. DEFINE k == Sent(conn[c], n)
<1>2. /\ server = "up" /\ conn[c] \in Conn /\ peer[c] \in Peer
      /\ LinkOK(c, conn[c], peer[c]) /\ Written(conn[c]) <= Room
      /\ client \in [Client -> ClientRecord]
      /\ MaildropInv /\ SessionInv
  BY AtEvent
<1>3. k \in Conn /\ k.stm = "WRITE"
  BY <1>2, SentLink
<1>4. ~Answering(k)
  BY <1>3 DEF Answering
<1>. HIDE DEF k
<1>5. CASE Close(c)
  BY <1>2, <1>5, CloseStep
<1>6. CASE Delivered(c, n) /\ Become(c, k) /\ UNCHANGED maildropVars
  <2>1. ClientMoves(c)
    BY <1>6, NothingMoves
  <2> QED
    BY <1>3, <1>6, <2>1, SentThen DEF k
<1>7. CASE Delivered(c, n) /\ parseCommandInBuffer(c, k)
  <2>1. ClientMoves(c) /\ \E r \in Conn : Due(r) = Due(k) /\ Become(c, r)
    BY <1>2, <1>3, <1>4, <1>7, ParseMoves
  <2> QED
    BY <1>7, <2>1, SentThen DEF k
<1>8. CASE Delivered(c, n) /\ Become(c, BackToRead(k)) /\ UNCHANGED maildropVars
  <2>1. ClientMoves(c)
    BY <1>8, NothingMoves
  <2>2. BackToRead(k) \in Conn /\ Due(BackToRead(k)) = Due(k)
    BY <1>3, <1>4, BackToReadDue
  <2> QED
    BY <1>8, <2>1, <2>2, SentThen DEF k
<1> QED
  BY <1>1, <1>5, <1>6, <1>7, <1>8 DEF k

(* The next block, the terminator or the way back to reading. *)
LEMMA ReadFileDue ==
    ASSUME NEW c \in Client, NEW k \in Conn, k.stm = "WRITE_FILE",
           \/ ~k.fileDoneReading /\ pop3ReadFile(c, k)
           \/ k.fileDoneReading /\ Become(c, BackToRead(k))
    PROVE  \E r \in Conn : Due(r) = Due(k) /\ Become(c, r)
<1>1. CASE k.fileDoneReading /\ Become(c, BackToRead(k))
  <2>1. ~Answering(k)
    BY <1>1 DEF Answering
  <2> QED
    BY <1>1, <2>1, BackToReadDue
<1>2. CASE ~k.fileDoneReading /\ pop3ReadFile(c, k)
  <2>1. PICK left \in BlocksLeft(c, k) :
           \/ left = 0 /\ Become(c, EndOfFile(k))
           \/ \E size \in 1 .. MaxBlock :
                 LET fits == Min({size, Room - Written(k)})
                 IN  /\ left > 0
                     /\ Become(c, Put([k EXCEPT !.blocks = left - 1], Block(fits)))
    BY <1>2 DEF pop3ReadFile
  <2>2. CASE Become(c, EndOfFile(k))
    BY <1>2, <2>2, EndOfFileDue
  <2>3. ASSUME NEW size \in 1 .. MaxBlock, left > 0,
               Become(c, Put([k EXCEPT !.blocks = left - 1],
                             Block(Min({size, Room - Written(k)}))))
        PROVE  \E r \in Conn : Due(r) = Due(k) /\ Become(c, r)
    <3>. DEFINE fits == Min({size, Room - Written(k)})
    <3>1. left \in 0 .. MaxBlocks
      <4>1. k.blocks \in {Closed} \cup 0 .. MaxBlocks
        BY DEF Conn
      <4> QED
        BY <4>1, SessionAssumption DEF BlocksLeft
    <3>2. size \in Int /\ Room - Written(k) \in Int
      <4>1. k.serverBuffer \in Seq(Unit) /\ k.read \in 0 .. Room
        BY DEF Conn
      <4>2. Len(k.serverBuffer) \in Nat
        BY <4>1, LenProperties
      <4> QED
        BY <4>1, <4>2, SessionAssumption DEF Written
    <3>3. \A x, y \in Int : Min({x, y}) \in Int
      BY DEF Min
    <3>4. fits \in Int
      BY <3>2, <3>3
    <3>. HIDE DEF fits
    <3>5. LET r == Put([k EXCEPT !.blocks = left - 1], Block(fits))
          IN  r \in Conn /\ Due(r) = Due(k)
      BY <2>3, <3>1, <3>4, BlockDue
    <3> QED
      BY <2>3, <3>5 DEF fits
  <2> QED
    BY <2>1, <2>2, <2>3
<1> QED
  BY <1>1, <1>2

LEMMA WriteFileStep ==
    ASSUME ServiceInv, NEW c \in Client, Up(c), conn[c].stm = "WRITE_FILE",
           pop3WriteFile(c)
    PROVE  SessionInv' /\ [Next]_maildropVars
<1>. DEFINE Go(k) == \/ ~k.fileDoneReading /\ pop3ReadFile(c, k)
                     \/ k.fileDoneReading /\ Become(c, BackToRead(k))
<1>1. /\ server = "up" /\ client[c].state # "NONE" /\ conn[c] \in Conn
      /\ peer[c] \in Peer /\ LinkOK(c, conn[c], peer[c])
      /\ Written(conn[c]) <= Room /\ SessionInv
  BY AtEvent
<1>2. ClientMoves(c)
  BY NothingMoves DEF pop3WriteFile
<1>3. CASE Go(conn[c]) /\ UNCHANGED peer
  <2>1. \E r \in Conn : Due(r) = Due(conn[c]) /\ Become(c, r)
    BY <1>1, <1>3, ReadFileDue
  <2>2. peer' = [peer EXCEPT ![c] = peer[c]]
    BY <1>1, <1>3 DEF SessionInv
  <2>3. SessionInv'
    BY <1>1, <1>2, <2>1, <2>2, Handled
  <2> QED
    BY <1>2, <2>3 DEF ClientMoves
<1>4. ASSUME NEW n \in 1 .. Len(conn[c].serverBuffer), Delivered(c, n),
             Become(c, Sent(conn[c], n)) \/ Go(Sent(conn[c], n))
      PROVE  SessionInv' /\ [Next]_maildropVars
  <2>. DEFINE k == Sent(conn[c], n)
  <2>1. k \in Conn /\ k.stm = "WRITE_FILE"
    BY <1>1, SentLink
  <2>2. \E r \in Conn : Due(r) = Due(k) /\ Become(c, r)
    <3>. HIDE DEF k
    <3>1. Become(c, k) \/ Go(k)
      BY <1>4 DEF k
    <3>2. CASE Become(c, k)
      BY <2>1, <3>2
    <3>3. CASE Go(k)
      BY <2>1, <3>3, ReadFileDue
    <3> QED
      BY <3>1, <3>2, <3>3
  <2> QED
    BY <1>2, <1>4, <2>2, SentThen
<1> QED
  BY <1>3, <1>4 DEF pop3WriteFile

LEMMA WriteListStep ==
    ASSUME ServiceInv, NEW c \in Client, Up(c), conn[c].stm = "WRITE_LIST",
           pop3WriteList(c)
    PROVE  SessionInv' /\ [Next]_maildropVars
<1>1. PICK n \in 1 .. Len(conn[c].serverBuffer) :
         LET k == Sent(conn[c], n)
         IN  /\ Delivered(c, n)
             /\ Become(c, IF k.serverBuffer = <<>> THEN pop3ReadList(c, k) ELSE k)
             /\ UNCHANGED maildropVars
  BY DEF pop3WriteList
<1>. DEFINE k == Sent(conn[c], n)
<1>2. /\ conn[c] \in Conn /\ peer[c] \in Peer /\ LinkOK(c, conn[c], peer[c])
      /\ Written(conn[c]) <= Room /\ MaildropInv
  BY AtEvent
<1>3. k \in Conn /\ k.stm = "WRITE_LIST"
  BY <1>2, SentLink
<1>. HIDE DEF k
<1>4. pop3ReadList(c, k) \in Conn /\ Due(pop3ReadList(c, k)) = Due(k)
  BY <1>2, <1>3, ListDue
<1>5. Become(c, pop3ReadList(c, k)) \/ Become(c, k)
  BY <1>1 DEF k
<1>6. \E r \in Conn : Due(r) = Due(k) /\ Become(c, r)
  BY <1>3, <1>4, <1>5
<1>7. ClientMoves(c)
  BY <1>1, NothingMoves
<1> QED
  BY <1>1, <1>6, <1>7, SentThen DEF k

LEMMA AcceptStep ==
    ASSUME ServiceInv, NEW c \in Client, Accept(c)
    PROVE  SessionInv' /\ [Next]_maildropVars
<1>. DEFINE r == [NoConn EXCEPT !.stm = "WRITE", !.interest = "OP_WRITE",
                                !.serverBuffer = LastLine]
<1>. DEFINE p == [NoPeer EXCEPT !.owed = 1]
<1>1. /\ server = "up" /\ server' = server
      /\ pop3_handle_connection(c)
      /\ conn' = [conn EXCEPT ![c] = r]
      /\ peer' = [peer EXCEPT ![c].owed = 1]
  BY DEF Accept
<1>2. SessionInv /\ client \in [Client -> ClientRecord]
  BY DEF ServiceInv, MaildropInv
<1>3. peer[c] = NoPeer
  BY <1>1, <1>2 DEF pop3_handle_connection, SessionInv
<1>4. peer' = [peer EXCEPT ![c] = p]
  BY <1>1, <1>2, <1>3 DEF SessionInv
<1>5. r \in Conn /\ r.clientBuffer = <<>> /\ r.serverBuffer = LastLine
      /\ r.stm = "WRITE" /\ r.read = 0
  BY NoLink, Pieces DEF NoConn, Conn, Writers
<1>6. p \in Peer /\ p.inq = <<>> /\ p.owed = 1
  BY NoLink DEF NoPeer, Peer
<1>. HIDE DEF r, p
<1>7. Due(r) = 1
  <2>1. ~Answering(r)
    BY <1>5 DEF Answering
  <2> QED
    BY <1>5, <2>1, Pieces, NoInput DEF Due
<1>8. Ahead[c] \in Nat \ {0}
  BY SessionAssumption
<1>9. LinkOK(c, r, p)
  BY <1>5, <1>6, <1>7, <1>8, NoInput DEF LinkOK
<1>10. Written(r) <= Room
  BY <1>5, Pieces, SessionAssumption DEF Written
<1>11. /\ \A d \in Client : d # c => client'[d] = client[d]
       /\ client'[c].state = "AUTHORIZATION"
  BY <1>1, <1>2 DEF pop3_handle_connection, ClientRecord
<1>12. SessionInv'
  BY <1>1, <1>2, <1>4, <1>9, <1>10, <1>11, OneLink
<1>13. Next
  BY <1>1 DEF Next, ClientStep
<1> QED
  BY <1>12, <1>13

(* What the peer does: only its side of the connection changes. *)
LEMMA PeerStep ==
    ASSUME ServiceInv, NEW c \in Client, Up(c), NEW p,
           peer' = [peer EXCEPT ![c] = p], LinkOK(c, conn[c], p),
           UNCHANGED <<maildropVars, conn, server>>
    PROVE  SessionInv' /\ [Next]_maildropVars
<1>1. /\ server = "up" /\ client[c].state # "NONE" /\ SessionInv
      /\ Written(conn[c]) <= Room
  BY AtEvent
<1>2. conn' = [conn EXCEPT ![c] = conn[c]]
  BY <1>1 DEF SessionInv
<1>3. client' = client
  BY DEF maildropVars
<1>4. SessionInv'
  BY <1>1, <1>2, <1>3, OneLink
<1> QED
  BY <1>4

LEMMA PeerSendStep ==
    ASSUME ServiceInv, NEW c \in Client, NEW cmd \in Lines[c], PeerSend(c, cmd)
    PROVE  SessionInv' /\ [Next]_maildropVars
<1>1. Up(c) /\ peer[c].owed < Ahead[c]
      /\ UNCHANGED <<maildropVars, conn, server>>
  BY DEF PeerSend
<1>2. /\ peer[c] \in Peer /\ LinkOK(c, conn[c], peer[c]) /\ conn[c] \in Conn
      /\ SessionInv
  BY <1>1, AtEvent
<1>3. cmd \in Command
  BY SessionAssumption
<1>. DEFINE line == <<Half, cmd>>
<1>. DEFINE inq == peer[c].inq \o line
<1>. DEFINE p == [peer[c] EXCEPT !.inq = inq, !.owed = peer[c].owed + 1]
<1>4. line \in Seq(Input) /\ Ends(line) = 1
  BY <1>3, LineOfInput
<1>5. peer[c].inq \in Seq(Input) /\ peer[c].owed \in Nat
  BY <1>2 DEF Peer, Input
<1>6. inq \in Seq(Input) /\ Ends(inq) = Ends(peer[c].inq) + 1
      /\ Ends(peer[c].inq) \in Nat
  <2>. HIDE DEF line
  <2> QED
    BY <1>4, <1>5, ConcatProperties, EndsConcat
<1>7. peer' = [peer EXCEPT ![c] = p]
  BY <1>2 DEF PeerSend, SessionInv
<1>. HIDE DEF inq, line
<1>8. p \in Peer /\ p.inq = inq /\ p.owed = peer[c].owed + 1
  <2>. DEFINE q == [peer[c] EXCEPT !.inq = inq]
  <2>1. q \in Peer /\ q.inq = inq
    BY <1>2, <1>6 DEF Peer, Input
  <2>2. p = [q EXCEPT !.owed = peer[c].owed + 1]
    BY <1>2 DEF Peer
  <2>3. peer[c].owed + 1 \in Nat
    BY <1>5
  <2>. HIDE DEF q, p
  <2> QED
    BY <2>1, <2>2, <2>3 DEF Peer
<1>. HIDE DEF p
<1>9. Ahead[c] \in Nat /\ Due(conn[c]) \in Nat
  BY <1>2, SessionAssumption, DueIsNat
<1>10. LinkOK(c, conn[c], p)
  BY <1>1, <1>2, <1>5, <1>6, <1>8, <1>9 DEF LinkOK
<1> QED
  BY <1>1, <1>7, <1>10, PeerStep

LEMMA PeerShutdownStep ==
    ASSUME ServiceInv, NEW c \in Client, PeerShutdown(c)
    PROVE  SessionInv' /\ [Next]_maildropVars
<1>1. Up(c) /\ UNCHANGED <<maildropVars, conn, server>>
  BY DEF PeerShutdown
<1>2. peer[c] \in Peer /\ LinkOK(c, conn[c], peer[c]) /\ SessionInv
  BY <1>1, AtEvent
<1>. DEFINE p == [peer[c] EXCEPT !.eof = TRUE]
<1>3. peer' = [peer EXCEPT ![c] = p]
  BY <1>2 DEF PeerShutdown, SessionInv
<1>4. p \in Peer /\ p.inq = peer[c].inq /\ p.owed = peer[c].owed
  BY <1>2 DEF Peer
<1>. HIDE DEF p
<1>5. LinkOK(c, conn[c], p)
  BY <1>2, <1>4 DEF LinkOK
<1> QED
  BY <1>1, <1>3, <1>5, PeerStep

(* Steps that leave every connection as it is. *)
LEMMA OutsideStep ==
    ASSUME SessionInv, UNCHANGED <<conn, peer>>, client' = client,
           \/ server' = server
           \/ server' = "no_handler"
    PROVE  SessionInv'
BY DEF SessionInv, LinkOK, Due, Answering, Written

LEMMA StopStep ==
    ASSUME ServiceInv, Stop
    PROVE  SessionInv' /\ [Next]_maildropVars
<1>1. /\ conn' = [c \in Client |-> NoConn] /\ peer' = [c \in Client |-> NoPeer]
      /\ server' = server /\ sigterm_handler
  BY DEF Stop
<1>2. \A c \in Client : conn'[c] = NoConn /\ peer'[c] = NoPeer
  BY <1>1
<1>3. server' \in {"up", "no_handler", "overrun"}
  BY <1>1 DEF ServiceInv, SessionInv
<1>4. \A c \in Client : LinkOK(c, conn'[c], peer'[c]) /\ Written(conn'[c]) <= Room
  BY <1>2, NoLink
<1>5. conn' \in [Client -> Conn] /\ peer' \in [Client -> Peer]
  BY <1>1, NoLink
<1>6. SessionInv' <=>
        /\ conn' \in [Client -> Conn] /\ peer' \in [Client -> Peer]
        /\ \A d \in Client : LinkOK(d, conn'[d], peer'[d])
        /\ server' \in {"up", "no_handler", "overrun"}
        /\ server' = "up" => \A d \in Client : Written(conn'[d]) <= Room
        /\ \A d \in Client : client'[d].state = "NONE"
                                => conn'[d] = NoConn /\ peer'[d] = NoPeer
  BY DEF SessionInv, LinkOK, Due, Answering, Written
<1>7. SessionInv'
  BY <1>2, <1>3, <1>4, <1>5, <1>6
<1>8. Next
  BY <1>1 DEF Next
<1> QED
  BY <1>7, <1>8

(* Every step of the connections keeps the invariant and is a step of the  *)
(* command layer, or none.                                                 *)
LEMMA SessionStep ==
    ASSUME ServiceInv, [SessionNext]_sessionVars
    PROVE  ServiceInv' /\ [Next]_maildropVars
<1>1. CASE UNCHANGED sessionVars
  <2>1. UNCHANGED maildropVars /\ UNCHANGED <<conn, peer>> /\ client' = client
        /\ server' = server
    BY <1>1 DEF sessionVars, maildropVars
  <2> QED
    BY <2>1, OutsideStep, NextStep DEF ServiceInv
<1>2. ASSUME NEW c \in Client, pop3Write(c)
      PROVE  SessionInv' /\ [Next]_maildropVars
  BY <1>2, WriteCommandStep, WriteFileStep, WriteListStep DEF pop3Write
<1>3. ASSUME NEW c \in Client, stm_abort(c)
      PROVE  SessionInv' /\ [Next]_maildropVars
  <2>1. UNCHANGED maildropVars /\ UNCHANGED <<conn, peer>> /\ client' = client
        /\ server' = "no_handler"
    BY <1>3 DEF stm_abort, maildropVars
  <2> QED
    BY <2>1, OutsideStep DEF ServiceInv
<1>4. ASSUME NEW u \in User, NEW m \in Msg, Deliver(u, m),
             UNCHANGED <<conn, peer, server>>
      PROVE  SessionInv' /\ [Next]_maildropVars
  <2>1. Next /\ client' = client
    BY <1>4 DEF Next, Deliver
  <2> QED
    BY <1>4, <2>1, OutsideStep DEF ServiceInv
<1>5. CASE SessionNext
  <2>1. SessionInv' /\ [Next]_maildropVars
    BY <1>2, <1>3, <1>4, <1>5, AcceptStep, ReadStep, PeerSendStep,
       PeerShutdownStep, StopStep DEF SessionNext, handle_iteration
  <2> QED
    BY <2>1, NextStep DEF ServiceInv
<1> QED
  BY <1>1, <1>5

-----------------------------------------------------------------------------
(* The theorems. *)

(* The invariant of the connections holds with that of the command layer.  *)
THEOREM SessionInvariant == SessionSpec => []ServiceInv
<1>1. SessionInit => ServiceInv
  <2>1. SessionInit => MaildropInv
    BY FreshRecord, AnswerTypes DEF SessionInit, Init, MaildropInv, RecordOK
  <2>2. ASSUME SessionInit
        PROVE  SessionInv
    <3>1. /\ conn = [c \in Client |-> NoConn] /\ peer = [c \in Client |-> NoPeer]
          /\ server = "up"
      BY <2>2 DEF SessionInit
    <3>2. \A c \in Client : conn[c] = NoConn /\ peer[c] = NoPeer
      BY <3>1
    <3> QED
      BY <3>1, <3>2, NoLink DEF SessionInv
  <2> QED
    BY <2>1, <2>2 DEF ServiceInv
<1>2. ServiceInv /\ [SessionNext]_sessionVars => ServiceInv'
  BY SessionStep
<1> QED
  BY <1>1, <1>2, PTL DEF SessionSpec

(* The connections drive the command layer as Maildrop describes it, so    *)
(* everything proved of Maildrop holds of sessions spread over events:     *)
(* short reads, short sends and pipelining add nothing to a maildrop.      *)
THEOREM SessionDrivesMaildrop == SessionSpec => Spec
<1>1. SessionInit => Init
  BY DEF SessionInit
<1>2. ServiceInv /\ [SessionNext]_sessionVars => [Next]_maildropVars
  BY SessionStep
<1> QED
  BY <1>1, <1>2, SessionInvariant, PTL DEF SessionSpec, Spec

(* As its peers see it, the server keeps the promise of MaildropAbs.       *)
THEOREM SessionRefinement == SessionSpec => ImplementsMaildrop
BY SessionDrivesMaildrop, Refinement, PTL

(* Every field of a connection keeps its type; no answer is sent that no   *)
(* command asked for.                                                      *)
THEOREM SessionTypes == SessionSpec => []SessionTypeOK
<1>1. ServiceInv => SessionTypeOK
  BY DEF ServiceInv, SessionInv, LinkOK, SessionTypeOK
<1> QED
  BY <1>1, SessionInvariant, PTL

(* No answer is lost, given twice or begun inside another, whatever way    *)
(* the input is cut, the sends are short and the peers run ahead.          *)
THEOREM AnswersCorrect == SessionSpec => []AnswersConserved
<1>1. ASSUME ServiceInv, NEW c \in Client
      PROVE  peer[c].owed = Ends(peer[c].inq) + Ends(conn[c].clientBuffer)
                            + Count(conn[c].serverBuffer, "end")
                            + (IF Answering(conn[c]) THEN 1 ELSE 0)
  <2>. DEFINE a == IF Answering(conn[c]) THEN 1 ELSE 0
  <2>. DEFINE u == Count(conn[c].serverBuffer, "end")
  <2>. DEFINE e == Ends(conn[c].clientBuffer)
  <2>1. LinkOK(c, conn[c], peer[c]) /\ conn[c] \in Conn
    BY <1>1 DEF ServiceInv, SessionInv
  <2>2. a \in Nat /\ u \in Nat /\ e \in Nat
    BY <2>1, DueIsNat
  <2>3. Ends(peer[c].inq) \in Nat
    <3>1. peer[c].inq \in Seq(Input)
      BY <2>1 DEF LinkOK, Peer, Input
    <3> QED
      BY <3>1, EndsConcat
  <2>4. peer[c].owed = Ends(peer[c].inq) + (e + u + a)
    BY <2>1 DEF LinkOK, Due
  <2>. HIDE DEF a, u, e
  <2>5. peer[c].owed = Ends(peer[c].inq) + e + u + a
    BY <2>2, <2>3, <2>4
  <2> QED
    BY <2>5 DEF a, u, e
<1>2. ServiceInv => AnswersConserved
  BY <1>1 DEF AnswersConserved, Answering
<1> QED
  BY <1>2, SessionInvariant, PTL

-----------------------------------------------------------------------------

-----------------------------------------------------------------------------
(* The invariant, of a client's record cl and its connection k. *)

OrderOK(cl, k) ==
    /\ k.stm \in {"WRITE_FILE", "WRITE_LIST"} => cl.state = "TRANSACTION"
    /\ k.stm = "WRITE_FILE" => k.activeFile \in 1 .. cl.file_cant \ cl.to_delete
    /\ k.stm # "WRITE_FILE" \/ k.fileDoneReading => k.blocks = Closed
    /\ k.lastFileList # 0 <=> k.stm = "WRITE_LIST"

(* The buffer is empty where the next answer starts, and starts over when  *)
(* it is empty; after the end of a file it is not full, unless it has been *)
(* overrun.                                                                *)
FitOK(k) ==
    /\ k.stm = "READ" => k.serverBuffer = <<>>
    /\ k.serverBuffer = <<>> => k.read = 0
    /\ k.stm = "WRITE_FILE" /\ k.fileDoneReading /\ Written(k) <= Room => CanWrite(k)

(* In lockstep nothing read waits in the buffer, and a client that has     *)
(* said QUIT waits for its last answer.                                    *)
SyncOK(cl, k) ==
    /\ k.clientBuffer = <<>>
    /\ HasHandler(k) /\ k.stm # "ERROR_STATE"
    /\ cl.state = "CLOSED" => k.stm = "WRITE"

Good(c, cl, k) == /\ OrderOK(cl, k)
                  /\ FitOK(k)
                  /\ Ahead[c] = 1 => SyncOK(cl, k)

(* What a peer has sent is whole lines. *)
EndsInLine(s) == s # <<>> => s[Len(s)] # Half

HandlerInv ==
    \A c \in Client : Good(c, client[c], conn[c]) /\ EndsInLine(peer[c].inq)

(* What a step that leaves connection k as r may do to the buffer. *)
Fits(k, r) == Written(r) <= Room \/ (FilledByFile(k) /\ r.fileDoneReading)

(* A step that overruns the buffer comes to the end of a file that has     *)
(* filled it.                                                              *)
Overrun == server' = "overrun" /\ server # "overrun"
              => \E c \in Client : FilledByFile(conn[c]) /\ conn'[c].fileDoneReading
HandlerStepOK == HandlerInv' /\ Overrun

-----------------------------------------------------------------------------
(* Every change of a connection, field by field. *)

LEMMA SentFields ==
    ASSUME NEW k \in Conn, NEW n \in 1 .. Len(k.serverBuffer)
    PROVE  LET s == Sent(k, n)
           IN  /\ s.stm = k.stm /\ s.interest = k.interest
               /\ s.clientBuffer = k.clientBuffer
               /\ s.lastFileList = k.lastFileList /\ s.activeFile = k.activeFile
               /\ s.fileDoneReading = k.fileDoneReading /\ s.blocks = k.blocks
               /\ s.serverBuffer = <<>> => s.read = 0
               /\ CanWrite(k) => CanWrite(s)
<1>. DEFINE s == Sent(k, n)
<1>. DEFINE b == k.serverBuffer
<1>. DEFINE rest == SubSeq(b, n + 1, Len(b))
<1>. DEFINE at == IF n = Len(b) THEN 0 ELSE k.read + n
<1>1. b \in Seq(Unit) /\ Len(b) \in Nat /\ k.read \in 0 .. Room /\ Room \in Nat
  BY LenProperties, SessionAssumption DEF Conn
<1>2. n \in 0 .. Len(b)
  BY <1>1
<1>3. rest \in Seq(Unit) /\ Len(rest) = Len(b) - n
  <2>. HIDE DEF b
  <2> QED
    BY <1>1, <1>2, CountSplit
<1>4. s = [[k EXCEPT !.serverBuffer = rest] EXCEPT !.read = at]
  BY DEF Sent, Conn
<1>5. s.serverBuffer = rest /\ s.read = at
  BY DEF Sent, Conn
<1>6. /\ s.stm = k.stm /\ s.interest = k.interest
      /\ s.clientBuffer = k.clientBuffer
      /\ s.lastFileList = k.lastFileList /\ s.activeFile = k.activeFile
      /\ s.fileDoneReading = k.fileDoneReading /\ s.blocks = k.blocks
  BY <1>4 DEF Conn
<1>. HIDE DEF s, rest, b
<1>7. rest = <<>> => at = 0
  <2>1. ASSUME rest = <<>>
        PROVE  n = Len(b)
    <3>1. Len(rest) = 0
      BY <2>1
    <3> QED
      BY <1>1, <1>2, <1>3, <3>1
  <2> QED
    BY <2>1
<1>8. ASSUME CanWrite(k)
      PROVE  CanWrite(s)
  <2>1. k.read + Len(b) < Room
    BY <1>8 DEF CanWrite, Written, b
  <2>2. at + Len(rest) < Room
    <3>1. CASE n = Len(b)
      BY <1>1, <1>3, <2>1, <3>1
    <3>2. CASE n # Len(b)
      BY <1>1, <1>2, <1>3, <2>1, <3>2
    <3> QED
      BY <3>1, <3>2
  <2> QED
    BY <1>5, <2>2 DEF CanWrite, Written
<1> QED
  BY <1>5, <1>6, <1>7, <1>8 DEF s

LEMMA BackFields ==
    ASSUME NEW k \in Conn
    PROVE  LET r == BackToRead(k)
           IN  /\ r.stm = "READ" /\ r.interest = "OP_READ"
               /\ r.clientBuffer = k.clientBuffer
               /\ r.serverBuffer = k.serverBuffer /\ r.read = k.read
               /\ r.lastFileList = k.lastFileList
               /\ r.blocks = k.blocks
BY DEF BackToRead, Conn

LEMMA PutFields ==
    ASSUME NEW k \in Conn, NEW units
    PROVE  LET r == Put(k, units)
           IN  /\ r.stm = k.stm /\ r.interest = k.interest
               /\ r.clientBuffer = k.clientBuffer
               /\ r.serverBuffer = k.serverBuffer \o units /\ r.read = k.read
               /\ r.lastFileList = k.lastFileList /\ r.activeFile = k.activeFile
               /\ r.fileDoneReading = k.fileDoneReading /\ r.blocks = k.blocks
BY DEF Put, Conn

(* Units put into an empty buffer. *)
LEMMA PutFits ==
    ASSUME NEW k \in Conn, k.serverBuffer = <<>>, k.read = 0,
           NEW units \in Seq(Unit), Len(units) > 0, Len(units) < Room
    PROVE  /\ Put(k, units).serverBuffer # <<>>
           /\ CanWrite(Put(k, units)) /\ Written(Put(k, units)) <= Room
<1>. DEFINE r == Put(k, units)
<1>1. r.serverBuffer = <<>> \o units /\ r.read = 0
  BY PutFields
<1>2. <<>> \o units = units
  BY ConcatEmptySeq
<1>. HIDE DEF r
<1>3. Len(units) \in Nat /\ Len(<<>>) = 0
  BY LenProperties
<1>4. Written(r) = Len(units)
  BY <1>1, <1>2, <1>3 DEF Written
<1>5. r.serverBuffer # <<>>
  BY <1>1, <1>2, <1>3
<1> QED
  BY <1>3, <1>4, <1>5, SessionAssumption DEF CanWrite, r

-----------------------------------------------------------------------------
(* Each change keeps what is good. *)

LEMMA GoodSent ==
    ASSUME NEW c \in Client, NEW cl, NEW k \in Conn, NEW n \in 1 .. Len(k.serverBuffer),
           Good(c, cl, k), k.stm # "READ", Written(k) <= Room
    PROVE  Good(c, cl, Sent(k, n))
<1>. DEFINE s == Sent(k, n)
<1>1. /\ s.stm = k.stm /\ s.interest = k.interest
      /\ s.clientBuffer = k.clientBuffer
      /\ s.lastFileList = k.lastFileList /\ s.activeFile = k.activeFile
      /\ s.fileDoneReading = k.fileDoneReading /\ s.blocks = k.blocks
      /\ s.serverBuffer = <<>> => s.read = 0
      /\ CanWrite(k) => CanWrite(s)
  BY SentFields
<1>. HIDE DEF s
<1>2. OrderOK(cl, s)
  BY <1>1 DEF Good, OrderOK
<1>3. FitOK(s)
  BY <1>1 DEF Good, FitOK
<1>4. Ahead[c] = 1 => SyncOK(cl, s)
  BY <1>1 DEF Good, SyncOK, HasHandler
<1> QED
  BY <1>2, <1>3, <1>4 DEF Good, s

LEMMA GoodBack ==
    ASSUME NEW c \in Client, NEW cl, NEW k \in Conn, Good(c, cl, k), cl.state # "CLOSED",
           k.stm = "WRITE" \/ (k.stm = "WRITE_FILE" /\ k.fileDoneReading),
           k.serverBuffer = <<>>
    PROVE  Good(c, cl, BackToRead(k))
<1>. DEFINE r == BackToRead(k)
<1>1. /\ r.stm = "READ" /\ r.interest = "OP_READ"
      /\ r.clientBuffer = k.clientBuffer
      /\ r.serverBuffer = k.serverBuffer /\ r.read = k.read
      /\ r.lastFileList = k.lastFileList
      /\ r.blocks = k.blocks
  BY BackFields
<1>. HIDE DEF r
<1>2. OrderOK(cl, r)
  BY <1>1 DEF Good, OrderOK
<1>3. FitOK(r)
  BY <1>1 DEF Good, FitOK
<1>4. Ahead[c] = 1 => SyncOK(cl, r)
  BY <1>1 DEF Good, SyncOK, HasHandler
<1> QED
  BY <1>2, <1>3, <1>4 DEF Good, r

LEMMA GoodEndOfFile ==
    ASSUME NEW c \in Client, NEW cl, NEW k \in Conn, Good(c, cl, k),
           k.stm = "WRITE_FILE", Written(k) <= Room,
           k.serverBuffer = <<>> \/ ~CanWrite(k)
    PROVE  /\ Good(c, cl, EndOfFile(k)) /\ EndOfFile(k).fileDoneReading
           /\ Written(EndOfFile(k)) <= Room \/ Written(k) = Room
<1>. DEFINE q == [k EXCEPT !.fileDoneReading = TRUE, !.blocks = Closed]
<1>. DEFINE r == Put(q, LastLine)
<1>1. q \in Conn
  BY DEF Conn, Closed
<1>2. /\ q.stm = k.stm /\ q.interest = k.interest
      /\ q.clientBuffer = k.clientBuffer
      /\ q.serverBuffer = k.serverBuffer /\ q.read = k.read
      /\ q.lastFileList = k.lastFileList /\ q.activeFile = k.activeFile
      /\ q.fileDoneReading /\ q.blocks = Closed
  BY DEF Conn
<1>3. EndOfFile(k) = r
  BY DEF EndOfFile
<1>. HIDE DEF q
<1>4. /\ r.stm = q.stm /\ r.interest = q.interest
      /\ r.clientBuffer = q.clientBuffer
      /\ r.lastFileList = q.lastFileList /\ r.activeFile = q.activeFile
      /\ r.fileDoneReading = q.fileDoneReading /\ r.blocks = q.blocks
  BY <1>1, PutFields
<1>5. CASE k.serverBuffer = <<>>
  <2>1. q.serverBuffer = <<>> /\ q.read = 0
    BY <1>2, <1>5 DEF Good, FitOK
  <2>2. LastLine \in Seq(Unit) /\ Len(LastLine) > 0 /\ Len(LastLine) < Room
    BY Pieces, SessionAssumption
  <2>3. r.serverBuffer # <<>> /\ CanWrite(r) /\ Written(r) <= Room
    BY <1>1, <2>1, <2>2, PutFits
  <2>. HIDE DEF r
  <2>4. FitOK(r)
    BY <1>2, <1>4, <2>3 DEF FitOK
  <2> QED
    BY <1>2, <1>3, <1>4, <2>3, <2>4 DEF Good, OrderOK, SyncOK, HasHandler
<1>6. CASE ~CanWrite(k)
  <2>1. /\ k.serverBuffer \in Seq(Unit) /\ Len(k.serverBuffer) \in Nat
        /\ k.read \in Nat /\ Room \in Nat
    BY LenProperties, SessionAssumption DEF Conn
  <2>2. Written(k) = Room
    BY <1>6, <2>1 DEF CanWrite, Written
  <2>3. Written(r) > Room /\ r.serverBuffer # <<>>
    <3>1. r.serverBuffer = k.serverBuffer \o LastLine /\ r.read = k.read
      BY <1>1, <1>2, PutFields
    <3>2. LastLine \in Seq(Unit) /\ Len(LastLine) = 2
      BY Pieces
    <3>. HIDE DEF r
    <3>3. Len(k.serverBuffer \o LastLine) = Len(k.serverBuffer) + Len(LastLine)
      BY <2>1, <3>2, ConcatProperties
    <3>4. Len(<<>>) = 0
      OBVIOUS
    <3> QED
      BY <2>1, <2>2, <3>1, <3>2, <3>3, <3>4 DEF Written
  <2>. HIDE DEF r
  <2>4. ~(Written(r) <= Room)
    <3>1. Written(r) \in Int
      <4>1. r.serverBuffer = k.serverBuffer \o LastLine /\ r.read = k.read
        BY <1>1, <1>2, PutFields DEF r
      <4>2. Len(r.serverBuffer) \in Nat
        BY <2>1, <4>1, Pieces, ConcatProperties
      <4> QED
        BY <2>1, <4>1, <4>2 DEF Written
    <3> QED
      BY <2>1, <2>3, <3>1
  <2>5. FitOK(r)
    BY <1>2, <1>4, <2>3, <2>4 DEF FitOK
  <2> QED
    BY <1>2, <1>3, <1>4, <2>2, <2>5 DEF Good, OrderOK, SyncOK, HasHandler
<1> QED
  BY <1>5, <1>6

LEMMA GoodBlock ==
    ASSUME NEW c \in Client, NEW cl, NEW k \in Conn, Good(c, cl, k),
           k.stm = "WRITE_FILE", ~k.fileDoneReading, Written(k) <= Room,
           NEW left \in 0 .. MaxBlocks, left > 0, NEW size \in 1 .. MaxBlock
    PROVE  LET r == Put([k EXCEPT !.blocks = left - 1],
                        Block(Min({size, Room - Written(k)})))
           IN  Good(c, cl, r) /\ Written(r) <= Room
<1>. DEFINE q == [k EXCEPT !.blocks = left - 1]
<1>. DEFINE n == Min({size, Room - Written(k)})
<1>. DEFINE r == Put(q, Block(n))
<1>1. q \in Conn
  <2>1. left - 1 \in 0 .. MaxBlocks
    BY SessionAssumption
  <2> QED
    BY <2>1 DEF Conn
<1>2. /\ q.stm = k.stm /\ q.interest = k.interest
      /\ q.clientBuffer = k.clientBuffer
      /\ q.serverBuffer = k.serverBuffer /\ q.read = k.read
      /\ q.lastFileList = k.lastFileList /\ q.activeFile = k.activeFile
      /\ q.fileDoneReading = k.fileDoneReading
  BY DEF Conn
<1>. HIDE DEF q
<1>3. /\ r.stm = q.stm /\ r.interest = q.interest
      /\ r.clientBuffer = q.clientBuffer
      /\ r.serverBuffer = q.serverBuffer \o Block(n) /\ r.read = q.read
      /\ r.lastFileList = q.lastFileList /\ r.activeFile = q.activeFile
      /\ r.fileDoneReading = q.fileDoneReading /\ r.blocks = q.blocks
  BY <1>1, PutFields
<1>4. /\ k.serverBuffer \in Seq(Unit) /\ Len(k.serverBuffer) \in Nat
      /\ k.read \in Nat /\ Room \in Nat /\ size \in Nat
      /\ Written(k) = k.read + Len(k.serverBuffer)
  BY LenProperties, SessionAssumption DEF Conn, Written
<1>5. n \in Nat /\ n <= Room - Written(k)
  <2>1. size \in Int /\ Room - Written(k) \in Int /\ size >= 0 /\ Room - Written(k) >= 0
    BY <1>4
  <2>2. \A x, y \in Int : Min({x, y}) = IF x <= y THEN x ELSE y
    <3>. TAKE x \in Int, y \in Int
    <3>1. CASE x <= y
      <4>1. \A z \in {x, y} : (\A w \in {x, y} : z <= w) <=> z = x
        BY <3>1
      <4> QED
        BY <3>1, <4>1 DEF Min
    <3>2. CASE ~(x <= y)
      <4>1. \A z \in {x, y} : (\A w \in {x, y} : z <= w) <=> z = y
        BY <3>2
      <4> QED
        BY <3>2, <4>1 DEF Min
    <3> QED
      BY <3>1, <3>2
  <2> QED
    BY <2>1, <2>2
<1>. HIDE DEF n
<1>6. Block(n) \in Seq(Unit) /\ Len(Block(n)) = n
  <2>1. Block(n) \in Seq(Unit)
    BY <1>5, BlockPiece
  <2> QED
    BY <1>5, <2>1 DEF Block
<1>. HIDE DEF r
<1>7. /\ Len(r.serverBuffer) = Len(k.serverBuffer) + n
      /\ r.serverBuffer = <<>> => k.serverBuffer = <<>>
  <2>1. Len(r.serverBuffer) = Len(k.serverBuffer) + n
    <3>1. Len(k.serverBuffer \o Block(n)) = Len(k.serverBuffer) + Len(Block(n))
      BY <1>4, <1>6, ConcatProperties
    <3> QED
      BY <1>2, <1>3, <1>6, <3>1
  <2>2. r.serverBuffer = <<>> => Len(k.serverBuffer) = 0
    <3>1. Len(<<>>) = 0
      OBVIOUS
    <3> QED
      BY <1>4, <1>5, <2>1, <3>1
  <2> QED
    BY <1>4, <2>1, <2>2, EmptySeq
<1>8. Written(r) <= Room
  BY <1>2, <1>3, <1>4, <1>5, <1>7 DEF Written
<1>9. FitOK(r)
  BY <1>2, <1>3, <1>7 DEF Good, FitOK
<1> QED
  BY <1>2, <1>3, <1>8, <1>9 DEF Good, OrderOK, SyncOK, HasHandler, r, q, n

LEMMA GoodList ==
    ASSUME MaildropInv, NEW c \in Client, NEW k \in Conn, Good(c, client[c], k),
           k.stm = "WRITE_LIST", k.serverBuffer = <<>>
    PROVE  /\ Good(c, client[c], pop3ReadList(c, k))
           /\ Written(pop3ReadList(c, k)) <= Room
<1>. DEFINE cl == client[c]
<1>. DEFINE todo == {i \in Active(c) : i >= k.lastFileList}
<1>1. ASSUME NEW q \in Conn, NEW units \in {PartLine, LastLine},
             q.serverBuffer = <<>>, q.read = k.read,
             q.clientBuffer = k.clientBuffer, q.interest = k.interest,
             q.stm \in {"WRITE", "WRITE_LIST"}, q.blocks = k.blocks,
             q.lastFileList # 0 <=> q.stm = "WRITE_LIST"
      PROVE  /\ Good(c, cl, Put(q, units))
             /\ Written(Put(q, units)) <= Room
  <2>. DEFINE r == Put(q, units)
  <2>1. /\ r.stm = q.stm /\ r.interest = q.interest
        /\ r.clientBuffer = q.clientBuffer
        /\ r.lastFileList = q.lastFileList /\ r.blocks = q.blocks
    BY PutFields
  <2>2. r.serverBuffer # <<>> /\ CanWrite(r) /\ Written(r) <= Room
    <3>1. q.read = 0
      BY <1>1 DEF Good, FitOK
    <3>2. units \in Seq(Unit) /\ Len(units) > 0 /\ Len(units) < Room
      <4>1. Room > 2
        BY SessionAssumption
      <4>2. units \in Seq(Unit) /\ Len(units) = 2
        BY Pieces
      <4> QED
        BY <4>1, <4>2
    <3> QED
      BY <1>1, <3>1, <3>2, PutFits
  <2>. HIDE DEF r
  <2>3. OrderOK(cl, r)
    BY <1>1, <2>1 DEF Good, OrderOK
  <2>4. FitOK(r)
    BY <1>1, <2>1, <2>2 DEF FitOK
  <2>5. Ahead[c] = 1 => SyncOK(cl, r)
    BY <1>1, <2>1 DEF Good, SyncOK, HasHandler, Writers
  <2> QED
    BY <2>2, <2>3, <2>4, <2>5 DEF Good, r
<1>2. CASE todo = {}
  <2>. DEFINE q == [k EXCEPT !.stm = "WRITE", !.lastFileList = 0]
  <2>1. q \in Conn
    <3>1. 0 \in 0 .. MAX_EMAILS /\ "WRITE" \in Writers
      BY MaildropAssumption DEF Writers
    <3> QED
      BY <3>1 DEF Conn
  <2>2. /\ q.serverBuffer = <<>> /\ q.read = k.read
        /\ q.clientBuffer = k.clientBuffer /\ q.interest = k.interest
        /\ q.stm = "WRITE" /\ q.blocks = k.blocks /\ q.lastFileList = 0
    BY DEF Conn
  <2>3. pop3ReadList(c, k) = Put(q, LastLine)
    BY <1>2 DEF pop3ReadList
  <2>. HIDE DEF q
  <2> QED
    BY <1>1, <2>1, <2>2, <2>3
<1>3. CASE todo # {}
  <2>. DEFINE m == Min(todo)
  <2>. DEFINE q == [k EXCEPT !.lastFileList = m + 1]
  <2>1. client[c].file_cant \in Nat /\ client[c].file_cant < MAX_EMAILS
    <3>1. /\ client[c].file_cant \in Nat
          /\ client[c].file_cant <= Len(client[c].files)
          /\ Len(client[c].files) < MAX_EMAILS
          /\ client[c].files \in Seq(Msg)
      BY DEF MaildropInv, RecordOK, ClientRecord
    <3>2. Len(client[c].files) \in Nat
      BY <3>1, LenProperties
    <3> QED
      BY <3>1, <3>2, MaildropAssumption
  <2>2. todo \in SUBSET (1 .. client[c].file_cant)
    BY DEF Active, Slots
  <2>3. m \in todo
    <3>1. todo \in SUBSET Nat
      BY <2>1, <2>2
    <3>. HIDE DEF todo
    <3> QED
      BY <1>3, <3>1, Least
  <2>4. m \in 1 .. client[c].file_cant
    BY <2>2, <2>3
  <2>. HIDE DEF m
  <2>5. m + 1 \in 0 .. MAX_EMAILS /\ m + 1 # 0
    BY <2>1, <2>4, MaildropAssumption
  <2>6. q \in Conn
    BY <2>5 DEF Conn
  <2>7. /\ q.serverBuffer = <<>> /\ q.read = k.read
        /\ q.clientBuffer = k.clientBuffer /\ q.interest = k.interest
        /\ q.stm = "WRITE_LIST" /\ q.blocks = k.blocks /\ q.lastFileList = m + 1
    BY DEF Conn
  <2>8. pop3ReadList(c, k) = Put(q, PartLine)
    BY <1>3 DEF pop3ReadList, m
  <2>. HIDE DEF q
  <2> QED
    BY <1>1, <2>5, <2>6, <2>7, <2>8
<1> QED
  BY <1>2, <1>3

-----------------------------------------------------------------------------
(* Commands. *)

(* Only LIST and RETR give an answer of several events, in TRANSACTION and *)
(* without changing the client; only CLOSED has no command at all.         *)
LEMMA CommandKinds ==
    ASSUME MaildropInv, NEW c \in Client, NEW cmd \in Command,
           executeCommand(c, cmd[1], cmd[2])
    PROVE  /\ reply'.st = "ERROR_STATE" => client[c].state = "CLOSED"
           /\ reply'.st \in {"WRITE_FILE", "WRITE_LIST"}
                 => client' = client /\ client[c].state = "TRANSACTION"
           /\ reply'.st = "WRITE_FILE" => reply'.arg[1] \in Active(c)
<1>. DEFINE verb == cmd[1]
<1>. DEFINE arg == cmd[2]
<1>. DEFINE Plain == reply'.st = "WRITE"
<1>. DEFINE Long == /\ reply'.st \in {"WRITE_FILE", "WRITE_LIST"} /\ client' = client
                    /\ reply'.st = "WRITE_FILE" => reply'.arg[1] \in Active(c)
<1>1. OK(<<>>).st = "WRITE" /\ ERR.st = "WRITE" /\ \A a : OK(a).st = "WRITE"
  BY DEF OK, ERR, Answer
<1>2. ASSUME NEW a, answer(a)
      PROVE  client' = client /\ reply' = a
  BY <1>2 DEF answer
<1>3. ASSUME nonAuthTable(c, verb, arg)
      PROVE  Plain
  <2>1. \/ handleQuitNonAuth(c)
        \/ handleUser(c, arg)
        \/ \E valid \in BOOLEAN : handlePass(c, valid)
        \/ handleCapa
    BY <1>3 DEF nonAuthTable
  <2>2. reply' \in {OK(<<>>), ERR}
    BY <2>1 DEF handleQuitNonAuth, handleUser, handlePass, handleCapa, answer
  <2> QED
    BY <1>1, <2>2
<1>4. ASSUME authTable(c, verb, arg)
      PROVE  Plain \/ Long
  <2>1. ASSUME handleList(c, arg)
        PROVE  Plain \/ Long
    <3>1. \/ answer(ERR)
          \/ \E a : answer(OK(a))
          \/ \E a : answer(Answer("WRITE_LIST", TRUE, a))
      BY <2>1 DEF handleList, pop3ReadListHeader
    <3>2. \A a : Answer("WRITE_LIST", TRUE, a).st = "WRITE_LIST"
      BY DEF Answer
    <3>3. ASSUME NEW b, answer(b), b.st = "WRITE_LIST"
          PROVE  Long
      <4>1. client' = client /\ reply' = b
        BY <1>2, <3>3
      <4> QED
        BY <3>3, <4>1
    <3>4. ASSUME NEW b, answer(b), b.st = "WRITE"
          PROVE  Plain
      <4>1. reply' = b
        BY <1>2, <3>4
      <4> QED
        BY <3>4, <4>1
    <3>. HIDE DEF Plain, Long
    <3> QED
      BY <1>1, <3>1, <3>2, <3>3, <3>4
  <2>2. ASSUME handleRetr(c, arg)
        PROVE  Plain \/ Long
    <3>1. CASE arg \in Active(c)
      <4>. DEFINE a == Answer("WRITE_FILE", TRUE, <<arg, OctetsOf(c, arg)>>)
      <4>1. answer(a)
        BY <2>2, <3>1 DEF handleRetr
      <4>2. a.st = "WRITE_FILE" /\ a.arg[1] = arg
        BY DEF Answer
      <4>. HIDE DEF a
      <4> QED
        BY <1>2, <3>1, <4>1, <4>2
    <3>2. CASE arg \notin Active(c)
      <4>1. answer(ERR)
        BY <2>2, <3>2 DEF handleRetr
      <4> QED
        BY <1>1, <1>2, <4>1
    <3> QED
      BY <3>1, <3>2
  <2>3. ASSUME \/ handleQuitAuth(c)
               \/ handleStat(c)
               \/ handleDele(c, arg)
               \/ handleNoop
               \/ handleRset(c)
               \/ handleCapa
        PROVE  Plain
    <3>1. \/ reply' = ERR
          \/ \E a : reply' = OK(a)
      BY <2>3 DEF handleQuitAuth, handleStat, handleDele, handleNoop, handleRset,
                  handleCapa, answer
    <3> QED
      BY <1>1, <3>1
  <2> QED
    BY <1>4, <2>1, <2>2, <2>3 DEF authTable
<1>. HIDE DEF verb, arg
<1>5. CASE client[c].state \in {"AUTHORIZATION", "UPDATE"} /\ nonAuthTable(c, verb, arg)
  BY <1>3, <1>5
<1>6. CASE client[c].state = "TRANSACTION" /\ authTable(c, verb, arg)
  BY <1>4, <1>6
<1>7. CASE answer(ERR)
  BY <1>1, <1>2, <1>7
<1>8. CASE client[c].state = "CLOSED" /\ answer(Answer("ERROR_STATE", FALSE, <<>>))
  <2>1. reply'.st = "ERROR_STATE"
    BY <1>2, <1>8 DEF Answer
  <2> QED
    BY <1>8, <2>1
<1> QED
  BY <1>5, <1>6, <1>7, <1>8 DEF executeCommand, verb, arg

(* The record a command leaves, field by field. *)
LEMMA CommandFields ==
    ASSUME NEW k \in Conn, NEW a, Outcome(a)
    PROVE  \E q \in Conn, units \in {PartLine, LastLine} :
              /\ AfterCommand(k, a) = Put(q, units)
              /\ q.stm = a.st /\ q.interest = "OP_WRITE"
              /\ q.clientBuffer = k.clientBuffer
              /\ q.serverBuffer = k.serverBuffer /\ q.read = k.read
              /\ q.lastFileList = IF a.st = "WRITE_LIST" THEN 1 ELSE k.lastFileList
              /\ a.st = "WRITE_FILE" => q.activeFile = a.arg[1] /\ ~q.fileDoneReading
              /\ q.blocks = k.blocks
              /\ units = IF a.st \in {"WRITE_LIST", "WRITE_FILE"} THEN PartLine
                         ELSE LastLine
<1>. DEFINE b == [k EXCEPT !.stm = a.st, !.interest = "OP_WRITE"]
<1>1. a.st \in Return /\ Return \subseteq Writers \cup {"NONE", "READ", "ERROR_STATE"}
  BY DEF Outcome, Return, Writers
<1>2. b \in Conn
  BY <1>1 DEF Conn
<1>3. /\ b.clientBuffer = k.clientBuffer /\ b.serverBuffer = k.serverBuffer
      /\ b.stm = a.st /\ b.interest = "OP_WRITE" /\ b.read = k.read
      /\ b.lastFileList = k.lastFileList /\ b.blocks = k.blocks
  BY DEF Conn
<1>. HIDE DEF b
<1>4. CASE a.st = "WRITE_LIST"
  <2>. DEFINE q == [b EXCEPT !.lastFileList = 1]
  <2>1. q \in Conn
    <3>1. 1 \in 0 .. MAX_EMAILS
      <4>1. Cardinality(Msg) \in Nat
        BY MaildropAssumption, FS_CardinalityType
      <4> QED
        BY <4>1, MaildropAssumption
    <3> QED
      BY <1>2, <3>1 DEF Conn
  <2>2. /\ q.clientBuffer = b.clientBuffer /\ q.serverBuffer = b.serverBuffer
        /\ q.stm = b.stm /\ q.interest = b.interest /\ q.read = b.read
        /\ q.lastFileList = 1 /\ q.blocks = b.blocks
    BY <1>2 DEF Conn
  <2>3. AfterCommand(k, a) = Put(q, PartLine)
    BY <1>4 DEF AfterCommand, b
  <2>. HIDE DEF q
  <2> QED
    BY <1>3, <1>4, <2>1, <2>2, <2>3
<1>5. CASE a.st = "WRITE_FILE"
  <2>. DEFINE q == [b EXCEPT !.activeFile = a.arg[1], !.fileDoneReading = FALSE]
  <2>1. q \in Conn
    <3>1. a.arg[1] \in 0 .. MAX_EMAILS
      BY <1>5 DEF Outcome
    <3> QED
      BY <1>2, <3>1 DEF Conn
  <2>2. /\ q.clientBuffer = b.clientBuffer /\ q.serverBuffer = b.serverBuffer
        /\ q.stm = b.stm /\ q.interest = b.interest /\ q.read = b.read
        /\ q.lastFileList = b.lastFileList /\ q.blocks = b.blocks
        /\ q.activeFile = a.arg[1] /\ ~q.fileDoneReading
    BY <1>2 DEF Conn
  <2>3. AfterCommand(k, a) = Put(q, PartLine)
    BY <1>5 DEF AfterCommand, b
  <2>. HIDE DEF q
  <2> QED
    BY <1>3, <1>5, <2>1, <2>2, <2>3
<1>6. CASE a.st \notin {"WRITE_LIST", "WRITE_FILE"}
  <2>1. AfterCommand(k, a) = Put(b, LastLine)
    BY <1>6 DEF AfterCommand, b
  <2> QED
    BY <1>2, <1>3, <1>6, <2>1
<1> QED
  BY <1>4, <1>5, <1>6

(* A connection between two answers: what it may parse from. *)
Ready(k) == /\ k.stm \in {"READ", "WRITE"}
            /\ k.lastFileList = 0 /\ k.blocks = Closed
            /\ k.serverBuffer = <<>> /\ k.read = 0

(* Parsing starts at most one answer, and in lockstep reads all there is.  *)
LEMMA GoodParse ==
    ASSUME MaildropInv, NEW c \in Client, NEW k \in Conn, Ready(k),
           parseCommandInBuffer(c, k),
           Ahead[c] = 1 =>
              /\ client[c].state # "CLOSED"
              /\ k.stm = "READ" /\ k.interest # "OP_WRITE"
              /\ \A i \in DOMAIN k.clientBuffer :
                    k.clientBuffer[i] # Half => Unconsumed(k.clientBuffer, i) = <<>>
    PROVE  \E r \in Conn : /\ Become(c, r)
                           /\ Good(c, client'[c], r)
                           /\ Written(r) <= Room
<1>. DEFINE s == k.clientBuffer
<1>. DEFINE ends == {i \in DOMAIN s : s[i] # Half}
<1>0. s \in Seq(Input) /\ client \in [Client -> ClientRecord]
  BY DEF Conn, Input, MaildropInv
<1>1. CASE ends = {}
  <2>. DEFINE r == [k EXCEPT !.stm = "READ", !.clientBuffer = <<>>]
  <2>1. Become(c, r) /\ UNCHANGED maildropVars
    BY <1>1 DEF parseCommandInBuffer
  <2>2. r \in Conn
    BY NoInput DEF Conn, Input
  <2>3. /\ r.clientBuffer = <<>> /\ r.serverBuffer = k.serverBuffer
        /\ r.read = k.read /\ r.stm = "READ" /\ r.interest = k.interest
        /\ r.lastFileList = k.lastFileList /\ r.blocks = k.blocks
    BY DEF Conn
  <2>. HIDE DEF r
  <2>4. OrderOK(client[c], r)
    BY <2>3 DEF OrderOK, Ready
  <2>5. FitOK(r)
    BY <2>3 DEF FitOK, Ready
  <2>6. Ahead[c] = 1 => SyncOK(client[c], r)
    BY <2>3 DEF SyncOK, HasHandler
  <2>7. Written(r) <= Room
    <3>1. Len(<<>>) = 0 /\ Room \in Nat
      BY SessionAssumption
    <3> QED
      BY <2>3, <3>1 DEF Ready, Written
  <2> QED
    BY <2>1, <2>2, <2>4, <2>5, <2>6, <2>7 DEF Good, maildropVars
<1>2. CASE ends # {}
  <2>. DEFINE i == Min(ends)
  <2>. DEFINE rest == Unconsumed(s, i)
  <2>. DEFINE q == [k EXCEPT !.clientBuffer = rest]
  <2>1. s[i] \in Command /\ rest \in Seq(Input)
    <3>. HIDE DEF s
    <3> QED
      BY <1>0, <1>2, FirstLine
  <2>2. /\ executeCommand(c, s[i][1], s[i][2])
        /\ Become(c, AfterCommand(q, reply'))
    BY <1>2 DEF parseCommandInBuffer
  <2>3. /\ Outcome(reply')
        /\ reply'.st = "ERROR_STATE" => client[c].state = "CLOSED"
        /\ reply'.st \in {"WRITE_FILE", "WRITE_LIST"}
              => client' = client /\ client[c].state = "TRANSACTION"
        /\ reply'.st = "WRITE_FILE" => reply'.arg[1] \in Active(c)
    <3>. HIDE DEF s, i
    <3> QED
      BY <2>1, <2>2, CommandMoves, CommandKinds
  <2>4. q \in Conn
    BY <2>1 DEF Conn, Input
  <2>5. /\ q.clientBuffer = rest /\ q.serverBuffer = k.serverBuffer
        /\ q.read = k.read
        /\ q.lastFileList = k.lastFileList /\ q.blocks = k.blocks
    BY DEF Conn
  <2>6. Ahead[c] = 1 => rest = <<>>
    <3>1. i \in ends
      <4>1. ends \in SUBSET Nat
        <5>1. DOMAIN s = 1 .. Len(s) /\ Len(s) \in Nat
          BY <1>0, LenProperties
        <5> QED
          BY <5>1
      <4>. HIDE DEF ends
      <4> QED
        BY <1>2, <4>1, Least
    <3>. HIDE DEF i
    <3> QED
      BY <3>1
  <2>. HIDE DEF q, rest, i, s, ends
  <2>7. PICK w \in Conn, units \in {PartLine, LastLine} :
           /\ AfterCommand(q, reply') = Put(w, units)
           /\ w.stm = reply'.st /\ w.interest = "OP_WRITE"
           /\ w.clientBuffer = q.clientBuffer
           /\ w.serverBuffer = q.serverBuffer /\ w.read = q.read
           /\ w.lastFileList = IF reply'.st = "WRITE_LIST" THEN 1 ELSE q.lastFileList
           /\ reply'.st = "WRITE_FILE"
                 => w.activeFile = reply'.arg[1] /\ ~w.fileDoneReading
           /\ w.blocks = q.blocks
    BY <2>3, <2>4, CommandFields
  <2>. DEFINE r == Put(w, units)
  <2>8. /\ r.stm = w.stm /\ r.interest = w.interest
        /\ r.clientBuffer = w.clientBuffer
        /\ r.lastFileList = w.lastFileList /\ r.activeFile = w.activeFile
        /\ r.fileDoneReading = w.fileDoneReading /\ r.blocks = w.blocks
    BY PutFields
  <2>9. units \in Seq(Unit) /\ Len(units) = 2
    BY Pieces
  <2>10. r \in Conn
    BY <2>9, PutDue
  <2>11. r.serverBuffer # <<>> /\ CanWrite(r) /\ Written(r) <= Room
    <3>1. w.serverBuffer = <<>> /\ w.read = 0
      BY <2>5, <2>7 DEF Ready
    <3>2. Len(units) > 0 /\ Len(units) < Room
      BY <2>9, SessionAssumption
    <3> QED
      BY <2>9, <3>1, <3>2, PutFits
  <2>. HIDE DEF r
  <2>12. OrderOK(client'[c], r)
    <3>1. r.stm = "WRITE_FILE" => r.activeFile \in 1 .. client'[c].file_cant
                                                   \ client'[c].to_delete
      BY <2>3, <2>7, <2>8 DEF Active, Slots, Marked
    <3>2. r.blocks = Closed
      BY <2>5, <2>7, <2>8 DEF Ready
    <3>3. r.lastFileList # 0 <=> r.stm = "WRITE_LIST"
      BY <2>5, <2>7, <2>8 DEF Ready
    <3>4. r.stm \in {"WRITE_FILE", "WRITE_LIST"}
             => client'[c].state = "TRANSACTION"
      BY <2>3, <2>7, <2>8
    <3> QED
      BY <3>1, <3>2, <3>3, <3>4 DEF OrderOK
  <2>13. FitOK(r)
    BY <2>3, <2>7, <2>8, <2>11 DEF FitOK, Outcome, Return
  <2>14. Ahead[c] = 1 => SyncOK(client'[c], r)
    <3>0. SUFFICES ASSUME Ahead[c] = 1
                   PROVE  SyncOK(client'[c], r)
      OBVIOUS
    <3>1. r.stm \in Writers /\ r.stm # "ERROR_STATE" /\ r.interest = "OP_WRITE"
      BY <2>3, <2>7, <2>8, <3>0 DEF Writers, Outcome, Return
    <3>2. HasHandler(r)
      BY <3>1 DEF HasHandler
    <3>3. client'[c].state = "CLOSED" => r.stm = "WRITE"
      BY <2>3, <2>7, <2>8, <3>0, <3>1 DEF Outcome, Return
    <3> QED
      BY <2>5, <2>6, <2>7, <2>8, <3>0, <3>1, <3>2, <3>3 DEF SyncOK
  <2> QED
    BY <2>2, <2>7, <2>10, <2>11, <2>12, <2>13, <2>14 DEF Good, r
<1> QED
  BY <1>1, <1>2

-----------------------------------------------------------------------------
(* What a peer sends. *)

(* The end of whole lines is whole lines, and with no command it is empty. *)
LEMMA LinesLeft ==
    ASSUME NEW s \in Seq(Input), EndsInLine(s), NEW n \in 0 .. Len(s)
    PROVE  LET t == SubSeq(s, n + 1, Len(s))
           IN  /\ EndsInLine(t)
               /\ Ends(t) = 0 => t = <<>> /\ n = Len(s)
<1>. DEFINE t == SubSeq(s, n + 1, Len(s))
<1>1. Len(s) \in Nat /\ DOMAIN s = 1 .. Len(s)
      /\ \A i \in 1 .. Len(s) : s[i] \in Input
  BY LenProperties, ElementOfSeq
<1>2. t \in Seq(Input) /\ Len(t) = Len(s) - n
  BY CountSplit
<1>3. \A i \in 1 .. Len(s) - n : t[i] = s[n + i]
  <2>1. n + 1 \in Int /\ Len(s) \in Int /\ \A i \in n + 1 .. Len(s) : s[i] \in Input
    BY <1>1
  <2>2. \A i \in 1 .. Len(s) - (n + 1) + 1 : t[i] = s[n + 1 + i - 1]
    BY <2>1, SubSeqProperties
  <2> QED
    BY <1>1, <2>2
<1>. HIDE DEF t
<1>4. CASE n = Len(s)
  <2>1. t = <<>>
    BY <1>1, <1>2, <1>4, EmptySeq
  <2> QED
    BY <1>4, <2>1 DEF EndsInLine, t
<1>5. CASE n # Len(s)
  <2>0. \A m \in Nat : \A k \in 0 .. m :
           k # m => m - k \in 1 .. m /\ k + (m - k) = m /\ m - k \in 1 .. m - k
    OBVIOUS
  <2>1. Len(t) \in 1 .. Len(s) /\ t[Len(t)] = s[Len(s)] /\ s # <<>>
    <3>1. /\ Len(s) - n \in 1 .. Len(s) /\ n + (Len(s) - n) = Len(s)
          /\ Len(s) - n \in 1 .. Len(s) - n
      BY <1>1, <1>5, <2>0
    <3>2. s # <<>>
      BY <1>1, <3>1
    <3> QED
      BY <1>2, <1>3, <3>1, <3>2
  <2>2. t[Len(t)] # Half
    BY <2>1 DEF EndsInLine
  <2>3. Places(t, Half) \in SUBSET (1 .. Len(t) - 1)
    BY <1>1, <2>1, <2>2 DEF Places
  <2>4. IsFiniteSet(1 .. Len(t) - 1) /\ Cardinality(1 .. Len(t) - 1) = Len(t) - 1
    <3>1. Len(t) - 1 \in Nat
      BY <1>1, <2>1
    <3>2. \A m \in Nat : IsFiniteSet(1 .. m) /\ Cardinality(1 .. m) = m
      BY FS_Interval
    <3> QED
      BY <3>1, <3>2
  <2>5. Cardinality(Places(t, Half)) <= Len(t) - 1
    BY <2>3, <2>4, FS_Subset
  <2>6. Count(t, Half) = Cardinality(Places(t, Half)) /\ Count(t, Half) \in Nat
    BY <1>2, CountIsPlaces
  <2>7. Ends(t) # 0
    BY <1>1, <2>1, <2>5, <2>6 DEF Ends
  <2> QED
    BY <2>2, <2>7 DEF EndsInLine, t
<1> QED
  BY <1>4, <1>5

LEMMA LineAdded ==
    ASSUME NEW s \in Seq(Input), NEW cmd \in Command
    PROVE  EndsInLine(s \o <<Half, cmd>>)
<1>. DEFINE line == <<Half, cmd>>
<1>1. line \in Seq(Input) /\ Len(line) = 2 /\ line[2] = cmd
  BY DEF Input
<1>. HIDE DEF line
<1>2. /\ Len(s \o line) = Len(s) + 2 /\ Len(s) \in Nat
      /\ \A i \in 1 .. Len(s) + 2 :
            (s \o line)[i] = IF i <= Len(s) THEN s[i] ELSE line[i - Len(s)]
  <2>1. /\ Len(s \o line) = Len(s) + Len(line) /\ Len(s) \in Nat
        /\ \A i \in 1 .. Len(s) + Len(line) :
              (s \o line)[i] = IF i <= Len(s) THEN s[i] ELSE line[i - Len(s)]
    BY <1>1, ConcatProperties, LenProperties
  <2> QED
    BY <1>1, <2>1
<1>3. (s \o line)[Len(s) + 2] = line[2]
  BY <1>2
<1>4. EndsInLine(s \o line)
  BY <1>1, <1>2, <1>3, HalfIsNoCommand DEF EndsInLine
<1> QED
  BY <1>4 DEF line

-----------------------------------------------------------------------------
(* The steps. *)

LEMMA OneGood ==
    ASSUME ServiceInv, HandlerInv, NEW c \in Client, NEW r, NEW p,
           conn' = [conn EXCEPT ![c] = r], peer' = [peer EXCEPT ![c] = p],
           \A d \in Client : d # c => client'[d] = client[d],
           Good(c, client'[c], r), EndsInLine(p.inq),
           Overrun
    PROVE  HandlerStepOK
<1>1. \A d \in Client : /\ conn'[d] = IF d = c THEN r ELSE conn[d]
                        /\ peer'[d] = IF d = c THEN p ELSE peer[d]
  BY DEF ServiceInv, SessionInv
<1>2. \A d \in Client : Good(d, client'[d], conn'[d]) /\ EndsInLine(peer'[d].inq)
  BY <1>1 DEF HandlerInv
<1>3. HandlerInv' <=>
        \A d \in Client : Good(d, client'[d], conn'[d]) /\ EndsInLine(peer'[d].inq)
  BY DEF HandlerInv, Good, OrderOK, FitOK, SyncOK, CanWrite, Written, HasHandler,
         EndsInLine
<1> QED
  BY <1>2, <1>3 DEF HandlerStepOK

LEMMA BecomeGood ==
    ASSUME ServiceInv, HandlerInv, NEW c \in Client, NEW p,
           peer' = [peer EXCEPT ![c] = p], EndsInLine(p.inq), ClientMoves(c),
           \E r \in Conn : /\ Become(c, r) /\ Good(c, client'[c], r)
                           /\ Fits(conn[c], r)
    PROVE  HandlerStepOK
<1>1. PICK r \in Conn : /\ Become(c, r) /\ Good(c, client'[c], r)
                        /\ Fits(conn[c], r)
  OBVIOUS
<1>2. /\ conn' = [conn EXCEPT ![c] = r]
      /\ server' = IF Written(r) <= Room THEN "up" ELSE "overrun"
  BY <1>1 DEF Become
<1>3. conn'[c] = r
  BY <1>2 DEF ServiceInv, SessionInv
<1>4. Overrun
  BY <1>1, <1>2, <1>3 DEF Overrun, Fits
<1>5. \A d \in Client : d # c => client'[d] = client[d]
  BY DEF ClientMoves
<1> QED
  BY <1>1, <1>2, <1>4, <1>5, OneGood

(* A connection that is none. *)
LEMMA NoneIsGood ==
    ASSUME NEW c \in Client, NEW cl, cl.state # "CLOSED" \/ cl = NoClient
    PROVE  Good(c, cl, NoConn) /\ EndsInLine(NoPeer.inq)
<1>1. NoClient.state = "NONE"
  BY DEF NoClient
<1>2. /\ NoConn.stm = "NONE" /\ NoConn.interest = "OP_NOOP" /\ NoConn.clientBuffer = <<>>
      /\ NoConn.read = 0 /\ NoConn.lastFileList = 0 /\ NoConn.blocks = Closed
  BY DEF NoConn
<1>3. NoPeer.inq = <<>>
  BY DEF NoPeer
<1> QED
  BY <1>1, <1>2, <1>3 DEF Good, OrderOK, FitOK, SyncOK, HasHandler, EndsInLine

LEMMA CloseGood ==
    ASSUME ServiceInv, HandlerInv, NEW c \in Client, server = "up", Close(c)
    PROVE  HandlerStepOK
<1>1. /\ conn' = [conn EXCEPT ![c] = NoConn] /\ peer' = [peer EXCEPT ![c] = NoPeer]
      /\ client' = [client EXCEPT ![c] = NoClient] /\ server' = "up"
  BY DEF Close, closeConnection
<1>2. client'[c] = NoClient /\ \A d \in Client : d # c => client'[d] = client[d]
  BY <1>1 DEF ServiceInv, MaildropInv
<1> QED
  BY <1>1, <1>2, NoneIsGood, OneGood DEF Overrun

(* In lockstep what is read, up to the end of a line, is all there was.    *)
LEMMA AllRead ==
    ASSUME NEW inq \in Seq(Input), EndsInLine(inq), Ends(inq) <= 1,
           NEW n \in 0 .. Len(inq),
           NEW i \in DOMAIN SubSeq(inq, 1, n), SubSeq(inq, 1, n)[i] # Half
    PROVE  Unconsumed(SubSeq(inq, 1, n), i) = <<>>
<1>. DEFINE front == SubSeq(inq, 1, n)
<1>. DEFINE rest == SubSeq(inq, n + 1, Len(inq))
<1>1. front \in Seq(Input) /\ rest \in Seq(Input)
      /\ Ends(inq) = Ends(front) + Ends(rest)
  BY EndsSplit
<1>. DEFINE head == SubSeq(front, 1, i)
<1>. DEFINE left == SubSeq(front, i + 1, Len(front))
<1>2. i \in 1 .. Len(front) /\ Len(front) \in Nat /\ Len(inq) \in Nat
      /\ \A j \in 1 .. Len(front) : front[j] \in Input
  <2>. HIDE DEF front
  <2> QED
    BY <1>1, LenProperties, ElementOfSeq DEF front
<1>3. i \in 0 .. Len(front)
  BY <1>2
<1>4. front[i] # Half
  OBVIOUS
<1>5. Ends(rest) = 0 => n = Len(inq)
  BY LinesLeft
<1>6. n = Len(inq) => front = inq
  BY SubSeqFull
<1>. HIDE DEF front, rest
<1>7. head \in Seq(Input) /\ left \in Seq(Input)
      /\ Ends(front) = Ends(head) + Ends(left)
      /\ Len(head) = i
  BY <1>1, <1>3, EndsSplit, CountSplit
<1>8. head[i] # Half
  <2>1. 1 \in Int /\ i \in Int /\ \A j \in 1 .. i : front[j] \in Input
    BY <1>2
  <2>2. \A j \in 1 .. i - 1 + 1 : head[j] = front[1 + j - 1]
    BY <2>1, SubSeqProperties
  <2>3. head[i] = front[1 + i - 1] /\ 1 + i - 1 = i
    BY <1>2, <2>2
  <2> QED
    BY <1>4, <2>3
<1>9. Unconsumed(front, i) = left
  BY DEF Unconsumed
<1>. HIDE DEF head
<1>10. Ends(head) >= 1
  <2>1. EndsInLine(head)
    BY <1>7, <1>8 DEF EndsInLine
  <2>2. 0 \in 0 .. Len(head) /\ Len(head) # 0
    BY <1>2, <1>7
  <2>3. SubSeq(head, 0 + 1, Len(head)) = head
    BY <1>7, SubSeqFull
  <2>4. Ends(head) # 0
    <3>1. LET t == SubSeq(head, 0 + 1, Len(head))
          IN  Ends(t) = 0 => 0 = Len(head)
      BY <1>7, <2>1, <2>2, LinesLeft
    <3> QED
      BY <2>2, <2>3, <3>1
  <2>5. Ends(head) \in Nat
    BY <1>7, EndsConcat
  <2> QED
    BY <2>4, <2>5
<1>11. Ends(rest) \in Nat /\ Ends(left) \in Nat /\ Ends(head) \in Nat
  <2>. HIDE DEF left
  <2> QED
    BY <1>1, <1>7, EndsConcat
<1>12. Ends(rest) = 0 /\ Ends(left) = 0
  <2>. HIDE DEF left
  <2> QED
    BY <1>1, <1>7, <1>10, <1>11
<1>13. EndsInLine(front)
  BY <1>5, <1>6, <1>12
<1>14. left = <<>>
  BY <1>1, <1>3, <1>12, <1>13, LinesLeft
<1> QED
  BY <1>9, <1>14 DEF front

LEMMA ReadGood ==
    ASSUME ServiceInv, HandlerInv, NEW c \in Client, pop3Read(c)
    PROVE  HandlerStepOK
<1>1. Up(c) /\ conn[c].stm = "READ" /\ pop3ReadCommand(c)
  BY DEF pop3Read
<1>2. /\ server = "up" /\ conn[c] \in Conn /\ peer[c] \in Peer
      /\ LinkOK(c, conn[c], peer[c])
      /\ MaildropInv /\ SessionInv
      /\ Good(c, client[c], conn[c]) /\ EndsInLine(peer[c].inq)
  BY <1>1, AtEvent DEF HandlerInv
<1>3. CASE Close(c)
  BY <1>2, <1>3, CloseGood
<1>4. CASE ~Close(c)
  <2>. DEFINE inq == peer[c].inq
  <2>. DEFINE it == IF conn[c].serverBuffer = <<>> THEN conn[c].interest
                    ELSE "OP_WRITE"
  <2>. DEFINE k(n) == [conn[c] EXCEPT
                         !.clientBuffer = @ \o SubSeq(inq, 1, n),
                         !.interest = IF conn[c].serverBuffer = <<>> THEN @
                                      ELSE "OP_WRITE"]
  <2>. DEFINE p(n) == [peer[c] EXCEPT !.inq = SubSeq(inq, n + 1, Len(inq))]
  <2>1. PICK n \in 0 .. Len(inq) :
           /\ peer' = [peer EXCEPT ![c].inq = SubSeq(inq, n + 1, Len(inq))]
           /\ parseCommandInBuffer(c, k(n))
           /\ ~SignedOff(c)
    BY <1>1, <1>4 DEF pop3ReadCommand
  <2>2. inq \in Seq(Input) /\ conn[c].clientBuffer \in Seq(Input)
    BY <1>2 DEF Peer, Conn, Input
  <2>. DEFINE front == SubSeq(inq, 1, n)
  <2>. DEFINE rest == SubSeq(inq, n + 1, Len(inq))
  <2>3. front \in Seq(Input) /\ rest \in Seq(Input) /\ EndsInLine(rest)
    <3>. HIDE DEF inq
    <3> QED
      BY <1>2, <2>1, <2>2, EndsSplit, LinesLeft DEF inq
  <2>4. peer' = [peer EXCEPT ![c] = p(n)]
    BY <1>2, <2>1 DEF SessionInv
  <2>5. p(n).inq = rest
    BY <1>2 DEF Peer
  <2>. DEFINE cb == conn[c].clientBuffer \o front
  <2>6. cb \in Seq(Input)
    <3>. HIDE DEF front
    <3> QED
      BY <2>2, <2>3, ConcatProperties
  <2>7. it \in {"OP_NOOP", "OP_READ", "OP_WRITE"}
    BY <1>2 DEF Conn
  <2>8. k(n) = [[conn[c] EXCEPT !.clientBuffer = cb] EXCEPT !.interest = it]
    BY <1>2 DEF Conn
  <2>. HIDE DEF k, p, it, cb, rest, front
  <2>9. [conn[c] EXCEPT !.clientBuffer = cb] \in Conn
    BY <1>2, <2>6 DEF Conn, Input
  <2>10. /\ k(n) \in Conn /\ k(n).clientBuffer = cb /\ k(n).interest = it
         /\ k(n).serverBuffer = conn[c].serverBuffer /\ k(n).read = conn[c].read
         /\ k(n).lastFileList = conn[c].lastFileList
         /\ k(n).blocks = conn[c].blocks
         /\ k(n).stm = "READ"
    BY <1>1, <1>2, <2>7, <2>8, <2>9 DEF Conn
  <2>11. Ready(k(n)) /\ ~Answering(k(n))
    BY <1>1, <1>2, <2>10 DEF Ready, Answering, Good, OrderOK, FitOK
  <2>12. ASSUME Ahead[c] = 1
         PROVE  /\ client[c].state # "CLOSED"
                /\ k(n).stm = "READ" /\ k(n).interest # "OP_WRITE"
                /\ \A i \in DOMAIN k(n).clientBuffer :
                      k(n).clientBuffer[i] # Half
                         => Unconsumed(k(n).clientBuffer, i) = <<>>
    <3>1. SyncOK(client[c], conn[c]) /\ FitOK(conn[c])
      BY <1>2, <2>12 DEF Good
    <3>2. k(n).interest # "OP_WRITE"
      <4>1. conn[c].serverBuffer = <<>>
        BY <1>1, <3>1 DEF FitOK
      <4>2. conn[c].interest # "OP_WRITE" /\ conn[c].interest = it
        BY <1>1, <3>1, <4>1 DEF SyncOK, HasHandler, Writers, it
      <4> QED
        BY <1>1, <2>10, <4>2
    <3>3. cb = front
      BY <2>3, <3>1, ConcatEmptySeq DEF SyncOK, cb
    <3>4. Ends(inq) <= 1
      <4>1. peer[c].owed <= 1 /\ peer[c].owed = Ends(inq) + Due(conn[c])
        BY <1>2, <2>12 DEF LinkOK
      <4>2. Due(conn[c]) \in Nat /\ Ends(inq) \in Nat
        BY <1>2, <2>2, DueIsNat, EndsConcat
      <4>. HIDE DEF inq
      <4> QED
        BY <4>1, <4>2
    <3>5. ASSUME NEW i \in DOMAIN front, front[i] # Half
          PROVE  Unconsumed(front, i) = <<>>
      <4>. HIDE DEF inq
      <4> QED
        BY <1>2, <2>1, <2>2, <3>4, <3>5, AllRead DEF front, inq
    <3> QED
      BY <2>1, <2>10, <3>2, <3>3, <3>5 DEF SignedOff
  <2>13. ClientMoves(c)
    BY <1>2, <2>1, <2>10, <2>11, ParseMoves
  <2>14. \E r \in Conn : /\ Become(c, r) /\ Good(c, client'[c], r)
                         /\ Fits(conn[c], r)
    BY <1>2, <2>1, <2>10, <2>11, <2>12, GoodParse DEF Fits
  <2> QED
    BY <2>3, <2>4, <2>5, <2>13, <2>14, BecomeGood
<1> QED
  BY <1>3, <1>4

(* A send, and what follows it in the handler, for the client's record the *)
(* handler leaves.                                                         *)
LEMMA SentThenGood ==
    ASSUME ServiceInv, HandlerInv, NEW c \in Client, Up(c), ClientMoves(c),
           NEW n \in 1 .. Len(conn[c].serverBuffer), Delivered(c, n),
           \E r \in Conn : /\ Become(c, r) /\ Good(c, client'[c], r)
                           /\ Fits(conn[c], r)
    PROVE  HandlerStepOK
<1>. DEFINE units == SubSeq(conn[c].serverBuffer, 1, n)
<1>. DEFINE q == Received(peer[c], units)
<1>1. /\ conn[c] \in Conn /\ peer[c] \in Peer /\ LinkOK(c, conn[c], peer[c])
      /\ Written(conn[c]) <= Room
  BY AtEvent
<1>2. peer' = [peer EXCEPT ![c] = q]
  BY DEF Delivered
<1>3. q.inq = peer[c].inq
  BY <1>1 DEF Received, Peer
<1>4. EndsInLine(q.inq)
  BY <1>3 DEF HandlerInv
<1>. HIDE DEF q
<1> QED
  BY <1>2, <1>4, BecomeGood

LEMMA WriteCommandGood ==
    ASSUME ServiceInv, HandlerInv, NEW c \in Client, Up(c),
           conn[c].stm = "WRITE", pop3WriteCommand(c)
    PROVE  HandlerStepOK
<1>1. PICK n \in 1 .. Len(conn[c].serverBuffer) :
         LET k    == Sent(conn[c], n)
             done == k.serverBuffer = <<>>
             more == k.clientBuffer # <<>>
             Keep(r) == Delivered(c, n) /\ Become(c, r) /\ UNCHANGED maildropVars
         IN  \/ ~done /\ Keep(k)
             \/ done /\ more /\ Delivered(c, n) /\ parseCommandInBuffer(c, k)
             \/ done /\ ~more /\ SignedOff(c) /\ Close(c)
             \/ done /\ ~more /\ ~SignedOff(c) /\ Keep(BackToRead(k))
  BY DEF pop3WriteCommand
<1>. DEFINE k == Sent(conn[c], n)
<1>2. /\ server = "up" /\ conn[c] \in Conn /\ peer[c] \in Peer
      /\ LinkOK(c, conn[c], peer[c]) /\ Written(conn[c]) <= Room
      /\ MaildropInv /\ SessionInv /\ Good(c, client[c], conn[c])
  BY AtEvent DEF HandlerInv
<1>3. k \in Conn /\ k.stm = "WRITE" /\ Written(k) <= Room
  BY <1>2, SentLink
<1>4. Good(c, client[c], k)
  BY <1>2, GoodSent
<1>5. ~Answering(k)
  BY <1>3 DEF Answering
<1>. HIDE DEF k
<1>6. CASE Close(c)
  BY <1>2, <1>6, CloseGood
<1>7. CASE Delivered(c, n) /\ Become(c, k) /\ UNCHANGED maildropVars
  <2>1. ClientMoves(c) /\ client' = client
    BY <1>7, NothingMoves DEF maildropVars
  <2> QED
    BY <1>3, <1>4, <1>7, <2>1, SentThenGood DEF Fits
<1>8. CASE k.serverBuffer = <<>> /\ k.clientBuffer # <<>>
           /\ Delivered(c, n) /\ parseCommandInBuffer(c, k)
  <2>1. Ready(k)
    BY <1>3, <1>4, <1>8 DEF Ready, Good, OrderOK, FitOK
  <2>2. Ahead[c] # 1
    BY <1>4, <1>8 DEF Good, SyncOK
  <2>3. ClientMoves(c)
    BY <1>2, <1>3, <1>5, <1>8, ParseMoves
  <2>4. \E r \in Conn : /\ Become(c, r) /\ Good(c, client'[c], r)
                        /\ Fits(conn[c], r)
    BY <1>2, <1>3, <1>8, <2>1, <2>2, GoodParse DEF Fits
  <2> QED
    BY <1>8, <2>3, <2>4, SentThenGood
<1>9. CASE k.serverBuffer = <<>> /\ ~SignedOff(c)
           /\ Delivered(c, n) /\ Become(c, BackToRead(k)) /\ UNCHANGED maildropVars
  <2>1. ClientMoves(c) /\ client' = client
    BY <1>9, NothingMoves DEF maildropVars
  <2>2. BackToRead(k) \in Conn
    BY <1>3, <1>5, BackToReadDue
  <2>3. Good(c, client[c], BackToRead(k))
    BY <1>3, <1>4, <1>9, GoodBack DEF SignedOff
  <2>4. Written(BackToRead(k)) <= Room
    BY <1>3, BackFields DEF Written
  <2> QED
    BY <1>9, <2>1, <2>2, <2>3, <2>4, SentThenGood DEF Fits
<1> QED
  BY <1>1, <1>6, <1>7, <1>8, <1>9 DEF k

LEMMA ReadFileGood ==
    ASSUME NEW c \in Client, NEW k \in Conn, k.stm = "WRITE_FILE",
           Good(c, client[c], k), Written(k) <= Room,
           k.serverBuffer = <<>> \/ ~CanWrite(k),
           \/ ~k.fileDoneReading /\ pop3ReadFile(c, k)
           \/ k.fileDoneReading /\ Become(c, BackToRead(k))
    PROVE  \E r \in Conn : /\ Become(c, r) /\ Good(c, client[c], r)
                           /\ \/ Written(r) <= Room
                              \/ /\ Written(k) = Room /\ ~k.fileDoneReading
                                 /\ r.fileDoneReading
<1>1. client[c].state = "TRANSACTION"
  BY DEF Good, OrderOK
<1>2. CASE k.fileDoneReading /\ Become(c, BackToRead(k))
  <2>1. ~Answering(k)
    BY <1>2 DEF Answering
  <2>2. BackToRead(k) \in Conn
    BY <2>1, BackToReadDue
  <2>3. Good(c, client[c], BackToRead(k))
    <3>1. k.serverBuffer = <<>>
      BY <1>2 DEF Good, FitOK
    <3> QED
      BY <1>1, <1>2, <3>1, GoodBack
  <2>4. Written(BackToRead(k)) <= Room
    BY BackFields DEF Written
  <2> QED
    BY <1>2, <2>2, <2>3, <2>4
<1>3. CASE ~k.fileDoneReading /\ pop3ReadFile(c, k)
  <2>1. PICK left \in BlocksLeft(c, k) :
           \/ left = 0 /\ Become(c, EndOfFile(k))
           \/ \E size \in 1 .. MaxBlock :
                 LET fits == Min({size, Room - Written(k)})
                 IN  /\ left > 0
                     /\ Become(c, Put([k EXCEPT !.blocks = left - 1], Block(fits)))
    BY <1>3 DEF pop3ReadFile
  <2>2. CASE Become(c, EndOfFile(k))
    <3>1. EndOfFile(k) \in Conn
      BY <1>3, EndOfFileDue
    <3>2. /\ Good(c, client[c], EndOfFile(k)) /\ EndOfFile(k).fileDoneReading
          /\ Written(EndOfFile(k)) <= Room \/ Written(k) = Room
      BY GoodEndOfFile
    <3> QED
      BY <1>3, <2>2, <3>1, <3>2
  <2>3. ASSUME NEW size \in 1 .. MaxBlock, left > 0,
               Become(c, Put([k EXCEPT !.blocks = left - 1],
                             Block(Min({size, Room - Written(k)}))))
        PROVE  \E r \in Conn : /\ Become(c, r) /\ Good(c, client[c], r)
                               /\ Written(r) <= Room
    <3>. DEFINE fits == Min({size, Room - Written(k)})
    <3>. DEFINE r == Put([k EXCEPT !.blocks = left - 1], Block(fits))
    <3>1. left \in 0 .. MaxBlocks
      <4>1. k.blocks \in {Closed} \cup 0 .. MaxBlocks
        BY DEF Conn
      <4> QED
        BY <4>1, SessionAssumption DEF BlocksLeft
    <3>2. size \in Int /\ Room - Written(k) \in Int
      <4>1. k.serverBuffer \in Seq(Unit) /\ k.read \in 0 .. Room
        BY DEF Conn
      <4>2. Len(k.serverBuffer) \in Nat
        BY <4>1, LenProperties
      <4> QED
        BY <4>1, <4>2, SessionAssumption DEF Written
    <3>3. \A x, y \in Int : Min({x, y}) \in Int
      BY DEF Min
    <3>4. fits \in Int
      BY <3>2, <3>3
    <3>5. Good(c, client[c], r) /\ Written(r) <= Room
      BY <1>3, <2>3, <3>1, GoodBlock
    <3>. HIDE DEF fits
    <3>6. r \in Conn
      BY <2>3, <3>1, <3>4, BlockDue
    <3> QED
      BY <2>3, <3>5, <3>6 DEF fits
  <2> QED
    BY <2>1, <2>2, <2>3
<1> QED
  BY <1>2, <1>3

LEMMA WriteFileGood ==
    ASSUME ServiceInv, HandlerInv, NEW c \in Client, Up(c),
           conn[c].stm = "WRITE_FILE", pop3WriteFile(c)
    PROVE  HandlerStepOK
<1>. DEFINE Go(k) == \/ ~k.fileDoneReading /\ pop3ReadFile(c, k)
                     \/ k.fileDoneReading /\ Become(c, BackToRead(k))
<1>1. /\ conn[c] \in Conn /\ peer[c] \in Peer /\ LinkOK(c, conn[c], peer[c])
      /\ Written(conn[c]) <= Room /\ SessionInv /\ Good(c, client[c], conn[c])
      /\ EndsInLine(peer[c].inq)
  BY AtEvent DEF HandlerInv
<1>2. ClientMoves(c) /\ client' = client
  BY NothingMoves DEF pop3WriteFile, maildropVars
<1>3. CASE conn[c].serverBuffer = <<>> /\ Go(conn[c]) /\ UNCHANGED peer
  <2>1. \E r \in Conn : /\ Become(c, r) /\ Good(c, client[c], r)
                        /\ Fits(conn[c], r)
    BY <1>1, <1>3, ReadFileGood DEF Fits, FilledByFile
  <2>2. peer' = [peer EXCEPT ![c] = peer[c]]
    BY <1>1, <1>3 DEF SessionInv
  <2> QED
    BY <1>1, <1>2, <2>1, <2>2, BecomeGood
<1>4. ASSUME NEW n \in 1 .. Len(conn[c].serverBuffer), Delivered(c, n),
             LET k == Sent(conn[c], n)
             IN  \/ CanWrite(k) /\ Become(c, k)
                 \/ ~CanWrite(k) /\ Go(k)
      PROVE  HandlerStepOK
  <2>. DEFINE k == Sent(conn[c], n)
  <2>1. /\ k \in Conn /\ k.stm = "WRITE_FILE" /\ Written(k) <= Room
        /\ k.fileDoneReading = conn[c].fileDoneReading
        /\ CanWrite(conn[c]) => CanWrite(k)
    BY <1>1, SentLink, SentFields
  <2>2. Good(c, client[c], k)
    BY <1>1, GoodSent
  <2>3. CASE Become(c, k)
    <3>. HIDE DEF k
    <3> QED
      BY <1>2, <1>4, <2>1, <2>2, <2>3, SentThenGood DEF Fits
  <2>4. CASE ~CanWrite(k) /\ Go(k)
    <3>. HIDE DEF k
    <3>1. Written(conn[c]) = Room
      <4>1. Written(conn[c]) \in Int /\ Room \in Int
        BY <1>1, LenProperties, SessionAssumption DEF Conn, Written
      <4> QED
        BY <1>1, <2>1, <2>4, <4>1 DEF CanWrite
    <3>2. \E r \in Conn : /\ Become(c, r) /\ Good(c, client[c], r)
                          /\ Fits(conn[c], r)
      BY <2>1, <2>2, <2>4, <3>1, ReadFileGood DEF Fits, FilledByFile
    <3> QED
      BY <1>2, <1>4, <3>2, SentThenGood
  <2> QED
    BY <1>4, <2>3, <2>4
<1> QED
  BY <1>3, <1>4 DEF pop3WriteFile

LEMMA WriteListGood ==
    ASSUME ServiceInv, HandlerInv, NEW c \in Client, Up(c),
           conn[c].stm = "WRITE_LIST", pop3WriteList(c)
    PROVE  HandlerStepOK
<1>1. PICK n \in 1 .. Len(conn[c].serverBuffer) :
         LET k == Sent(conn[c], n)
         IN  /\ Delivered(c, n)
             /\ Become(c, IF k.serverBuffer = <<>> THEN pop3ReadList(c, k) ELSE k)
             /\ UNCHANGED maildropVars
  BY DEF pop3WriteList
<1>. DEFINE k == Sent(conn[c], n)
<1>2. /\ conn[c] \in Conn /\ peer[c] \in Peer /\ LinkOK(c, conn[c], peer[c])
      /\ Written(conn[c]) <= Room /\ MaildropInv /\ Good(c, client[c], conn[c])
  BY AtEvent DEF HandlerInv
<1>3. k \in Conn /\ k.stm = "WRITE_LIST" /\ Written(k) <= Room
  BY <1>2, SentLink
<1>4. Good(c, client[c], k)
  BY <1>2, GoodSent
<1>. HIDE DEF k
<1>5. ClientMoves(c) /\ client' = client
  BY <1>1, NothingMoves DEF maildropVars
<1>6. CASE k.serverBuffer = <<>> /\ Become(c, pop3ReadList(c, k))
  <2>1. pop3ReadList(c, k) \in Conn
    BY <1>2, <1>3, ListDue
  <2>2. Good(c, client[c], pop3ReadList(c, k))
        /\ Written(pop3ReadList(c, k)) <= Room
    BY <1>2, <1>3, <1>4, <1>6, GoodList
  <2> QED
    BY <1>1, <1>5, <1>6, <2>1, <2>2, SentThenGood DEF Fits
<1>7. CASE Become(c, k)
  BY <1>1, <1>3, <1>4, <1>5, <1>7, SentThenGood DEF Fits
<1> QED
  BY <1>1, <1>6, <1>7 DEF k

LEMMA AcceptGood ==
    ASSUME ServiceInv, HandlerInv, NEW c \in Client, Accept(c)
    PROVE  HandlerStepOK
<1>. DEFINE r == [NoConn EXCEPT !.stm = "WRITE", !.interest = "OP_WRITE",
                                !.serverBuffer = LastLine]
<1>. DEFINE p == [NoPeer EXCEPT !.owed = 1]
<1>1. /\ server = "up" /\ server' = server
      /\ pop3_handle_connection(c)
      /\ conn' = [conn EXCEPT ![c] = r]
      /\ peer' = [peer EXCEPT ![c].owed = 1]
  BY DEF Accept
<1>2. SessionInv /\ client \in [Client -> ClientRecord]
  BY DEF ServiceInv, MaildropInv
<1>3. peer[c] = NoPeer
  BY <1>1, <1>2 DEF pop3_handle_connection, SessionInv
<1>4. peer' = [peer EXCEPT ![c] = p]
  BY <1>1, <1>2, <1>3 DEF SessionInv
<1>5. /\ r.clientBuffer = <<>> /\ r.serverBuffer = LastLine
      /\ r.stm = "WRITE" /\ r.interest = "OP_WRITE" /\ r.read = 0
      /\ r.lastFileList = 0 /\ r.blocks = Closed
  BY DEF NoConn
<1>6. p.inq = <<>>
  BY DEF NoPeer
<1>7. /\ \A d \in Client : d # c => client'[d] = client[d]
      /\ client'[c].state = "AUTHORIZATION"
  BY <1>1, <1>2 DEF pop3_handle_connection, ClientRecord
<1>8. LastLine # <<>>
  BY DEF LastLine
<1>. HIDE DEF r, p
<1>9. Good(c, client'[c], r)
  BY <1>5, <1>7, <1>8 DEF Good, OrderOK, FitOK, SyncOK, HasHandler, Writers
<1>10. EndsInLine(p.inq)
  BY <1>6 DEF EndsInLine
<1> QED
  BY <1>1, <1>4, <1>7, <1>9, <1>10, OneGood DEF Overrun

(* Steps that leave every connection as it is. *)
LEMMA OutsideGood ==
    ASSUME HandlerInv, UNCHANGED <<client, conn, peer>>,
           server' \in {server, "no_handler"}
    PROVE  HandlerStepOK
BY DEF HandlerStepOK, Overrun, HandlerInv, Good, OrderOK, FitOK, SyncOK, CanWrite,
       Written, HasHandler, EndsInLine

LEMMA PeerSendGood ==
    ASSUME ServiceInv, HandlerInv, NEW c \in Client, NEW cmd \in Lines[c],
           PeerSend(c, cmd)
    PROVE  HandlerStepOK
<1>. DEFINE inq == peer[c].inq \o <<Half, cmd>>
<1>. DEFINE p == [peer[c] EXCEPT !.inq = inq, !.owed = @ + 1]
<1>1. Up(c) /\ UNCHANGED <<maildropVars, conn, server>>
  BY DEF PeerSend
<1>2. /\ server = "up" /\ peer[c] \in Peer /\ SessionInv
      /\ Good(c, client[c], conn[c])
  BY <1>1, AtEvent DEF HandlerInv
<1>3. peer' = [peer EXCEPT ![c] = p]
  BY <1>2 DEF PeerSend, SessionInv
<1>4. conn' = [conn EXCEPT ![c] = conn[c]]
  BY <1>1, <1>2 DEF SessionInv
<1>5. cmd \in Command /\ peer[c].inq \in Seq(Input)
  BY <1>2, SessionAssumption DEF Peer, Input
<1>6. EndsInLine(inq)
  BY <1>5, LineAdded
<1>7. p.inq = inq
  BY <1>2 DEF Peer
<1>8. client' = client /\ server' = "up"
  BY <1>1, <1>2 DEF maildropVars
<1>. HIDE DEF inq, p
<1> QED
  BY <1>2, <1>3, <1>4, <1>6, <1>7, <1>8, OneGood DEF Overrun

LEMMA PeerShutdownGood ==
    ASSUME ServiceInv, HandlerInv, NEW c \in Client, PeerShutdown(c)
    PROVE  HandlerStepOK
<1>. DEFINE p == [peer[c] EXCEPT !.eof = TRUE]
<1>1. Up(c) /\ UNCHANGED <<maildropVars, conn, server>>
  BY DEF PeerShutdown
<1>2. /\ server = "up" /\ peer[c] \in Peer /\ SessionInv
      /\ Good(c, client[c], conn[c]) /\ EndsInLine(peer[c].inq)
  BY <1>1, AtEvent DEF HandlerInv
<1>3. peer' = [peer EXCEPT ![c] = p]
  BY <1>2 DEF PeerShutdown, SessionInv
<1>4. conn' = [conn EXCEPT ![c] = conn[c]]
  BY <1>1, <1>2 DEF SessionInv
<1>5. p.inq = peer[c].inq
  BY <1>2 DEF Peer
<1>6. client' = client /\ server' = "up"
  BY <1>1, <1>2 DEF maildropVars
<1>. HIDE DEF p
<1> QED
  BY <1>2, <1>3, <1>4, <1>5, <1>6, OneGood DEF Overrun

LEMMA StopGood ==
    ASSUME HandlerInv, Stop
    PROVE  HandlerStepOK
<1>1. /\ conn' = [c \in Client |-> NoConn] /\ peer' = [c \in Client |-> NoPeer]
      /\ client' = [c \in Client |-> NoClient]
      /\ server = "up" /\ server' = server
  BY DEF Stop, sigterm_handler
<1>2. \A d \in Client : Good(d, client'[d], conn'[d]) /\ EndsInLine(peer'[d].inq)
  BY <1>1, NoneIsGood
<1>3. HandlerInv' <=>
        \A d \in Client : Good(d, client'[d], conn'[d]) /\ EndsInLine(peer'[d].inq)
  BY DEF HandlerInv, Good, OrderOK, FitOK, SyncOK, CanWrite, Written, HasHandler,
         EndsInLine
<1> QED
  BY <1>1, <1>2, <1>3 DEF HandlerStepOK, Overrun

LEMMA HandlerStep ==
    ASSUME ServiceInv, HandlerInv, [SessionNext]_sessionVars
    PROVE  HandlerStepOK
<1>1. CASE UNCHANGED sessionVars
  BY <1>1, OutsideGood DEF sessionVars
<1>2. ASSUME NEW c \in Client, pop3Write(c)
      PROVE  HandlerStepOK
  BY <1>2, WriteCommandGood, WriteFileGood, WriteListGood DEF pop3Write
<1>3. ASSUME NEW c \in Client, stm_abort(c)
      PROVE  HandlerStepOK
  BY <1>3, OutsideGood DEF stm_abort, maildropVars
<1>4. ASSUME NEW u \in User, NEW m \in Msg, Deliver(u, m),
             UNCHANGED <<conn, peer, server>>
      PROVE  HandlerStepOK
  BY <1>4, OutsideGood DEF Deliver
<1>5. CASE SessionNext
  BY <1>2, <1>3, <1>4, <1>5, AcceptGood, ReadGood, PeerSendGood,
     PeerShutdownGood, StopGood DEF SessionNext, handle_iteration
<1> QED
  BY <1>1, <1>5

-----------------------------------------------------------------------------
(* Listings: what the peer has of an answer starts at nothing. *)

EndsAnswer(b) == b # <<>> /\ b[Len(b)] = "end"

(* The peer has read all there was, to the end of an answer. *)
Told(k, p) == k.serverBuffer = <<>> /\ p.got = 0

Listed(cl)  == 1 .. cl.file_cant \ cl.to_delete
Left(cl, k) == {i \in Listed(cl) : i >= k.lastFileList}

(* The invariant, of a client's record, its connection and its peer: an    *)
(* answer starts when the one before it has been read to its end, or in a  *)
(* buffer without room for it; and a listing adds up.                      *)
ListOK(cl, k, p) ==
    LET b == k.serverBuffer
    IN  /\ k.stm = "READ" => Told(k, p) \/ ~CanWrite(k)
        /\ k.stm = "WRITE" => EndsAnswer(b)
        /\ k.stm = "WRITE_FILE" /\ k.fileDoneReading => Told(k, p) \/ EndsAnswer(b)
        /\ k.stm = "WRITE_LIST" =>
              /\ Count(b, "end") = 0
              /\ p.got + Count(b, "part") + Cardinality(Left(cl, k))
                 = 1 + Cardinality(Listed(cl))

ListInv == server # "overrun" => \A c \in Client : ListOK(client[c], conn[c], peer[c])

(* The lines in the pieces that are written. *)
LEMMA PieceLines ==
    /\ Count(<<>>, "part") = 0 /\ Count(PartLine, "part") = 1
    /\ EndsAnswer(LastLine) /\ LastLine # <<>>
<1>1. <<>> \in Seq(Unit) /\ PartLine \in Seq(Unit)
  BY Pieces
<1>2. Len(<<>>) = 0 /\ Len(PartLine) = 2
  BY DEF PartLine
<1>3. Places(<<>>, "part") = {}
  BY <1>2 DEF Places
<1>4. Places(PartLine, "part") = {2}
  BY <1>2 DEF Places, PartLine
<1>5. ASSUME NEW t \in Seq(Unit)
      PROVE  Count(t, "part") = Cardinality(Places(t, "part"))
  BY CountIsPlaces
<1>6. Count(<<>>, "part") = 0 /\ Count(PartLine, "part") = 1
  BY <1>1, <1>3, <1>4, <1>5, FS_EmptySet, FS_Singleton
<1> QED
  BY <1>6 DEF EndsAnswer, LastLine

(* The last line of an answer ends the buffer it is put in. *)
LEMMA PutLast ==
    ASSUME NEW k \in Conn
    PROVE  EndsAnswer(Put(k, LastLine).serverBuffer)
<1>. DEFINE b == k.serverBuffer
<1>1. b \in Seq(Unit) /\ LastLine \in Seq(Unit) /\ Len(LastLine) = 2
      /\ LastLine[2] = "end"
  BY Pieces DEF Conn, LastLine
<1>2. Put(k, LastLine).serverBuffer = b \o LastLine
  BY PutFields
<1>. HIDE DEF b
<1>3. /\ b \o LastLine \in Seq(Unit) /\ Len(b \o LastLine) = Len(b) + 2 /\ Len(b) \in Nat
      /\ \A i \in 1 .. Len(b) + 2 :
            (b \o LastLine)[i] = IF i <= Len(b) THEN b[i] ELSE LastLine[i - Len(b)]
  <2>1. /\ Len(b \o LastLine) = Len(b) + Len(LastLine) /\ Len(b) \in Nat
        /\ b \o LastLine \in Seq(Unit)
        /\ \A i \in 1 .. Len(b) + Len(LastLine) :
              (b \o LastLine)[i] = IF i <= Len(b) THEN b[i] ELSE LastLine[i - Len(b)]
    BY <1>1, ConcatProperties, LenProperties
  <2> QED
    BY <1>1, <2>1
<1>4. (b \o LastLine)[Len(b) + 2] = LastLine[2]
  BY <1>3
<1>5. b \o LastLine # <<>>
  <2>1. Len(<<>>) = 0
    OBVIOUS
  <2> QED
    BY <1>3, <2>1
<1> QED
  BY <1>1, <1>2, <1>3, <1>4, <1>5 DEF EndsAnswer

(* A buffer that ends an answer still does after a short send, and with    *)
(* all of it the peer has the answer.                                      *)
LEMMA SentEnd ==
    ASSUME NEW k \in Conn, NEW p \in Peer, EndsAnswer(k.serverBuffer),
           NEW n \in 1 .. Len(k.serverBuffer)
    PROVE  LET s == Sent(k, n)
               q == Received(p, SubSeq(k.serverBuffer, 1, n))
           IN  EndsAnswer(s.serverBuffer) \/ Told(s, q)
<1>. DEFINE b == k.serverBuffer
<1>. DEFINE units == SubSeq(b, 1, n)
<1>. DEFINE rest == SubSeq(b, n + 1, Len(b))
<1>1. b \in Seq(Unit) /\ Len(b) \in Nat /\ b[Len(b)] = "end"
      /\ \A i \in 1 .. Len(b) : b[i] \in Unit
  <2>1. b \in Seq(Unit)
    BY DEF Conn
  <2>. HIDE DEF b
  <2> QED
    BY <2>1, LenProperties, ElementOfSeq DEF EndsAnswer, b
<1>2. Sent(k, n).serverBuffer = rest
  BY DEF Sent, Conn
<1>3. n \in 0 .. Len(b)
  BY <1>1
<1>4. units \in Seq(Unit) /\ Len(units) = n /\ rest \in Seq(Unit)
      /\ Len(rest) = Len(b) - n
  <2>. HIDE DEF b
  <2> QED
    BY <1>1, <1>3, CountSplit
<1>5. CASE n = Len(b)
  <2>1. units = b
    <3>. HIDE DEF b
    <3> QED
      BY <1>1, <1>5, SubSeqFull
  <2>2. Len(b) \in Places(b, "end")
    BY <1>1, <1>5 DEF Places
  <2>3. Count(units, "end") > 0
    <3>. HIDE DEF b
    <3>1. Count(b, "end") = Cardinality(Places(b, "end")) /\ IsFiniteSet(Places(b, "end"))
          /\ Count(b, "end") \in Nat
      BY <1>1, CountIsPlaces
    <3>2. Cardinality(Places(b, "end")) # 0
      BY <2>2, <3>1, FS_EmptySet
    <3>3. Count(b, "end") > 0
      BY <3>1, <3>2
    <3>. HIDE DEF units
    <3> QED
      BY <2>1, <3>3
  <2>4. Received(p, units).got = 0
    BY <2>3 DEF Received, Peer
  <2>5. rest = <<>>
    <3>. HIDE DEF rest
    <3> QED
      BY <1>1, <1>4, <1>5, EmptySeq
  <2> QED
    BY <1>2, <2>4, <2>5 DEF Told
<1>6. CASE n # Len(b)
  <2>1. \A i \in 1 .. Len(b) - n : rest[i] = b[n + i]
    <3>1. n + 1 \in Int /\ Len(b) \in Int /\ \A i \in n + 1 .. Len(b) : b[i] \in Unit
      BY <1>1
    <3>2. \A i \in 1 .. Len(b) - (n + 1) + 1 : rest[i] = b[n + 1 + i - 1]
      <4>. HIDE DEF b
      <4> QED
        BY <3>1, SubSeqProperties DEF rest
    <3> QED
      BY <1>1, <3>2
  <2>2. Len(b) - n \in 1 .. Len(b) - n /\ n + (Len(b) - n) = Len(b)
    <3>1. \A m \in Nat : \A j \in 1 .. m : j # m => m - j \in 1 .. m - j /\ j + (m - j) = m
      OBVIOUS
    <3>. HIDE DEF b
    <3> QED
      BY <1>1, <1>6, <3>1 DEF b
  <2>. HIDE DEF rest
  <2>3. rest[Len(rest)] = "end"
    <3>1. rest[Len(b) - n] = b[n + (Len(b) - n)]
      BY <2>1, <2>2
    <3> QED
      BY <1>1, <1>4, <2>2, <3>1
  <2>4. rest # <<>>
    <3>1. Len(<<>>) = 0
      OBVIOUS
    <3> QED
      BY <1>1, <1>4, <1>6, <3>1
  <2> QED
    BY <1>2, <2>3, <2>4 DEF EndsAnswer
<1> QED
  BY <1>5, <1>6

(* What goes out of a listing is what the peer has more of it. *)
LEMMA SentLines ==
    ASSUME NEW k \in Conn, NEW p \in Peer, Count(k.serverBuffer, "end") = 0,
           NEW n \in 1 .. Len(k.serverBuffer)
    PROVE  LET s == Sent(k, n)
               q == Received(p, SubSeq(k.serverBuffer, 1, n))
           IN  /\ Count(s.serverBuffer, "end") = 0
               /\ q.got + Count(s.serverBuffer, "part")
                  = p.got + Count(k.serverBuffer, "part")
<1>. DEFINE b == k.serverBuffer
<1>. DEFINE units == SubSeq(b, 1, n)
<1>. DEFINE rest == SubSeq(b, n + 1, Len(b))
<1>1. b \in Seq(Unit) /\ Len(b) \in Nat
  BY LenProperties DEF Conn
<1>2. Sent(k, n).serverBuffer = rest
  BY DEF Sent, Conn
<1>3. n \in 0 .. Len(b)
  BY <1>1
<1>4. ASSUME NEW x
      PROVE  /\ Count(b, x) = Count(units, x) + Count(rest, x)
             /\ Count(units, x) \in Nat /\ Count(rest, x) \in Nat
  <2>. HIDE DEF b
  <2>1. units \in Seq(Unit) /\ rest \in Seq(Unit)
        /\ Count(b, x) = Count(units, x) + Count(rest, x)
    BY <1>1, <1>3, CountSplit
  <2>. HIDE DEF units, rest
  <2> QED
    BY <2>1, CountIsPlaces
<1>. HIDE DEF units, rest
<1>5. Count(units, "end") = 0 /\ Count(rest, "end") = 0
  BY <1>4
<1>6. Received(p, units).got = p.got + Count(units, "part")
  BY <1>5 DEF Received, Peer
<1>7. p.got \in Nat
  BY DEF Peer
<1>8. /\ Count(b, "part") = Count(units, "part") + Count(rest, "part")
      /\ Count(units, "part") \in Nat /\ Count(rest, "part") \in Nat
  BY <1>4
<1> QED
  BY <1>2, <1>5, <1>6, <1>7, <1>8 DEF units

(* A send keeps the invariant, but for what comes after an answer that has *)
(* gone out whole.                                                         *)
LEMMA SentListed ==
    ASSUME NEW cl, NEW k \in Conn, NEW p \in Peer, ListOK(cl, k, p),
           NEW n \in 1 .. Len(k.serverBuffer), k.stm \in Writers
    PROVE  LET s == Sent(k, n)
               q == Received(p, SubSeq(k.serverBuffer, 1, n))
           IN  /\ k.stm = "WRITE" => EndsAnswer(s.serverBuffer) \/ Told(s, q)
               /\ k.stm # "WRITE" => ListOK(cl, s, q)
<1>. DEFINE s == Sent(k, n)
<1>. DEFINE q == Received(p, SubSeq(k.serverBuffer, 1, n))
<1>1. s.stm = k.stm /\ s.fileDoneReading = k.fileDoneReading
      /\ s.lastFileList = k.lastFileList
  BY SentFields
<1>2. k.serverBuffer # <<>>
  <2>1. Len(<<>>) = 0
    OBVIOUS
  <2> QED
    BY <2>1
<1>3. EndsAnswer(k.serverBuffer) => EndsAnswer(s.serverBuffer) \/ Told(s, q)
  BY SentEnd
<1>4. Count(k.serverBuffer, "end") = 0 =>
         /\ Count(s.serverBuffer, "end") = 0
         /\ q.got + Count(s.serverBuffer, "part") = p.got + Count(k.serverBuffer, "part")
  BY SentLines
<1>. HIDE DEF s, q
<1>5. CASE k.stm = "WRITE"
  BY <1>3, <1>5 DEF ListOK, s, q
<1>6. CASE k.stm = "WRITE_FILE"
  <2>1. k.fileDoneReading => EndsAnswer(k.serverBuffer)
    BY <1>2, <1>6 DEF ListOK, Told
  <2> QED
    BY <1>1, <1>3, <1>6, <2>1 DEF ListOK, s, q
<1>7. CASE k.stm = "WRITE_LIST"
  <2>1. Left(cl, s) = Left(cl, k)
    BY <1>1 DEF Left
  <2> QED
    BY <1>1, <1>4, <1>7, <2>1 DEF ListOK, s, q
<1> QED
  BY <1>5, <1>6, <1>7 DEF Writers

(* A line does not fit a buffer that is full. *)
LEMMA FullBuffer ==
    ASSUME NEW k \in Conn, ~CanWrite(k), NEW units \in {PartLine, LastLine}
    PROVE  ~(Written(Put(k, units)) <= Room)
<1>1. k.serverBuffer \in Seq(Unit) /\ units \in Seq(Unit) /\ Len(units) = 2
  BY Pieces DEF Conn
<1>2. Len(k.serverBuffer \o units) = Len(k.serverBuffer) + 2 /\ Len(k.serverBuffer) \in Nat
  <2>1. Len(k.serverBuffer \o units) = Len(k.serverBuffer) + Len(units)
    BY <1>1, ConcatProperties
  <2> QED
    BY <1>1, <2>1, LenProperties
<1>3. k.read \in 0 .. Room /\ Room \in Nat
  BY SessionAssumption DEF Conn
<1>4. Put(k, units).serverBuffer = k.serverBuffer \o units /\ Put(k, units).read = k.read
  BY PutFields
<1>5. Written(k) >= Room
  BY <1>2, <1>3 DEF CanWrite, Written
<1> QED
  BY <1>2, <1>3, <1>4, <1>5 DEF Written

LEMMA ListedFinite ==
    ASSUME MaildropInv, NEW c \in Client
    PROVE  /\ client[c].file_cant \in Nat
           /\ IsFiniteSet(Listed(client[c])) /\ Cardinality(Listed(client[c])) \in Nat
<1>1. client[c].file_cant \in Nat
  BY DEF MaildropInv, RecordOK, ClientRecord
<1>2. IsFiniteSet(1 .. client[c].file_cant)
  BY <1>1, FS_Interval
<1>3. Listed(client[c]) \in SUBSET (1 .. client[c].file_cant)
  BY DEF Listed
<1> QED
  BY <1>1, <1>2, <1>3, FS_Subset, FS_CardinalityType

(* A command starts its answer where the one before has been read. *)
LEMMA ListParse ==
    ASSUME MaildropInv, NEW c \in Client, NEW k \in Conn, NEW p \in Peer,
           Told(k, p) \/ ~CanWrite(k), parseCommandInBuffer(c, k)
    PROVE  \E r \in Conn : /\ Become(c, r)
                           /\ Written(r) <= Room => ListOK(client'[c], r, p)
<1>. DEFINE s == k.clientBuffer
<1>. DEFINE ends == {i \in DOMAIN s : s[i] # Half}
<1>0. s \in Seq(Input)
  BY DEF Conn, Input
<1>1. CASE ends = {}
  <2>. DEFINE r == [k EXCEPT !.stm = "READ", !.clientBuffer = <<>>]
  <2>1. Become(c, r)
    BY <1>1 DEF parseCommandInBuffer
  <2>2. r \in Conn
    BY NoInput DEF Conn, Input
  <2>3. r.serverBuffer = k.serverBuffer /\ r.read = k.read /\ r.stm = "READ"
    BY DEF Conn
  <2>. HIDE DEF r
  <2>4. Told(r, p) \/ ~CanWrite(r)
    BY <2>3 DEF Told, CanWrite, Written
  <2> QED
    BY <2>1, <2>2, <2>3, <2>4 DEF ListOK
<1>2. CASE ends # {}
  <2>. DEFINE i == Min(ends)
  <2>. DEFINE rest == Unconsumed(s, i)
  <2>. DEFINE q == [k EXCEPT !.clientBuffer = rest]
  <2>1. s[i] \in Command /\ rest \in Seq(Input)
    <3>. HIDE DEF s
    <3> QED
      BY <1>0, <1>2, FirstLine
  <2>2. /\ executeCommand(c, s[i][1], s[i][2])
        /\ Become(c, AfterCommand(q, reply'))
    BY <1>2 DEF parseCommandInBuffer
  <2>3. Outcome(reply')
    <3>. HIDE DEF s, i
    <3> QED
      BY <2>1, <2>2, CommandMoves
  <2>3a. reply'.st = "WRITE_LIST" => client' = client
    <3>. HIDE DEF s, i
    <3> QED
      BY <2>1, <2>2, CommandKinds
  <2>4. q \in Conn
    BY <2>1 DEF Conn, Input
  <2>5. q.serverBuffer = k.serverBuffer /\ q.read = k.read
    BY DEF Conn
  <2>. HIDE DEF q, rest, i, s, ends
  <2>6. PICK w \in Conn, units \in {PartLine, LastLine} :
           /\ AfterCommand(q, reply') = Put(w, units)
           /\ w.stm = reply'.st /\ w.interest = "OP_WRITE"
           /\ w.clientBuffer = q.clientBuffer
           /\ w.serverBuffer = q.serverBuffer /\ w.read = q.read
           /\ w.lastFileList = IF reply'.st = "WRITE_LIST" THEN 1 ELSE q.lastFileList
           /\ reply'.st = "WRITE_FILE"
                 => w.activeFile = reply'.arg[1] /\ ~w.fileDoneReading
           /\ w.blocks = q.blocks
           /\ units = IF reply'.st \in {"WRITE_LIST", "WRITE_FILE"} THEN PartLine
                      ELSE LastLine
    BY <2>3, <2>4, CommandFields
  <2>. DEFINE r == Put(w, units)
  <2>7. /\ r.stm = w.stm /\ r.fileDoneReading = w.fileDoneReading
        /\ r.lastFileList = w.lastFileList
        /\ r.serverBuffer = w.serverBuffer \o units
    BY PutFields
  <2>8. r \in Conn
    BY Pieces, PutDue
  <2>9. Become(c, r)
    BY <2>2, <2>6
  <2>. HIDE DEF r
  <2>10. CASE ~CanWrite(k)
    <3>1. ~CanWrite(w)
      BY <2>5, <2>6, <2>10 DEF CanWrite, Written
    <3>2. ~(Written(r) <= Room)
      BY <3>1, FullBuffer DEF r
    <3> QED
      BY <2>8, <2>9, <3>2
  <2>11. CASE Told(k, p)
    <3>1. r.serverBuffer = units /\ p.got = 0
      <4>1. w.serverBuffer = <<>> /\ units \in Seq(Unit)
        BY <2>5, <2>6, <2>11, Pieces DEF Told
      <4> QED
        BY <2>7, <2>11, <4>1, ConcatEmptySeq DEF Told
    <3>2. r.stm # "READ" /\ (r.stm = "WRITE_FILE" => ~r.fileDoneReading)
      BY <2>3, <2>6, <2>7 DEF Outcome, Return
    <3>3. r.stm = "WRITE" => EndsAnswer(r.serverBuffer)
      BY <2>6, <2>7, <3>1, PieceLines
    <3>4. ASSUME r.stm = "WRITE_LIST"
          PROVE  /\ Count(units, "end") = 0
                 /\ p.got + Count(units, "part") + Cardinality(Left(client'[c], r))
                    = 1 + Cardinality(Listed(client'[c]))
      <4>1. units = PartLine /\ r.lastFileList = 1
        BY <2>6, <2>7, <3>4
      <4>2. Left(client'[c], r) = Listed(client'[c])
        <5>1. client' = client
          BY <2>6, <2>7, <2>3a, <3>4
        <5>2. client[c].file_cant \in Nat
          BY DEF MaildropInv, RecordOK, ClientRecord
        <5> QED
          BY <4>1, <5>1, <5>2 DEF Left, Listed
      <4>3. Cardinality(Listed(client'[c])) \in Nat
        <5>1. client' = client
          BY <2>6, <2>7, <2>3a, <3>4
        <5> QED
          BY <5>1, ListedFinite
      <4> QED
        BY <3>1, <4>1, <4>2, <4>3, Pieces, PieceLines
    <3>5. ListOK(client'[c], r, p)
      BY <3>1, <3>2, <3>3, <3>4 DEF ListOK
    <3> QED
      BY <2>8, <2>9, <3>5
  <2> QED
    BY <2>10, <2>11
<1> QED
  BY <1>1, <1>2

(* The next entry is one less to visit; after the last comes the end.      *)
LEMMA ListEntry ==
    ASSUME MaildropInv, NEW c \in Client, NEW k \in Conn, NEW p \in Peer,
           ListOK(client[c], k, p), k.stm = "WRITE_LIST", k.serverBuffer = <<>>
    PROVE  ListOK(client[c], pop3ReadList(c, k), p)
<1>. DEFINE cl == client[c]
<1>. DEFINE todo == {i \in Active(c) : i >= k.lastFileList}
<1>1. todo = Left(cl, k) /\ Active(c) = Listed(cl)
  BY DEF Left, Listed, Active, Slots, Marked
<1>2. p.got + 0 + Cardinality(Left(cl, k)) = 1 + Cardinality(Listed(cl))
      /\ p.got \in Nat
  BY PieceLines DEF ListOK, Peer
<1>3. CASE todo = {}
  <2>. DEFINE q == [k EXCEPT !.stm = "WRITE", !.lastFileList = 0]
  <2>1. q \in Conn
    <3>1. 0 \in 0 .. MAX_EMAILS /\ "WRITE" \in Writers
      BY MaildropAssumption DEF Writers
    <3> QED
      BY <3>1 DEF Conn
  <2>2. q.stm = "WRITE"
    BY DEF Conn
  <2>3. pop3ReadList(c, k) = Put(q, LastLine)
    BY <1>3 DEF pop3ReadList
  <2>. HIDE DEF q
  <2>4. Put(q, LastLine).stm = "WRITE" /\ EndsAnswer(Put(q, LastLine).serverBuffer)
    BY <2>1, <2>2, PutFields, PutLast
  <2> QED
    BY <2>3, <2>4 DEF ListOK
<1>4. CASE todo # {}
  <2>. DEFINE m == Min(todo)
  <2>. DEFINE q == [k EXCEPT !.lastFileList = m + 1]
  <2>1. /\ cl.file_cant \in Nat /\ IsFiniteSet(Listed(cl))
        /\ Cardinality(Listed(cl)) \in Nat
    BY ListedFinite
  <2>2. todo \in SUBSET Nat /\ todo \in SUBSET Listed(cl)
    BY <1>1, <2>1 DEF Left, Listed
  <2>3. m \in todo /\ \A i \in todo : m <= i
    <3>. HIDE DEF todo
    <3> QED
      BY <1>4, <2>2, Least
  <2>. HIDE DEF m
  <2>4. /\ q.serverBuffer = <<>> /\ q.stm = "WRITE_LIST" /\ q.lastFileList = m + 1
    BY DEF Conn
  <2>5. m + 1 \in 0 .. MAX_EMAILS
    <3>1. /\ cl.file_cant <= Len(cl.files) /\ Len(cl.files) < MAX_EMAILS
          /\ cl.files \in Seq(Msg)
      BY DEF MaildropInv, RecordOK, ClientRecord
    <3>2. Len(cl.files) \in Nat /\ m \in 1 .. cl.file_cant
      BY <2>2, <2>3, <3>1, LenProperties DEF Listed
    <3> QED
      BY <2>1, <3>1, <3>2, MaildropAssumption
  <2>6. q \in Conn
    BY <2>5 DEF Conn
  <2>7. pop3ReadList(c, k) = Put(q, PartLine)
    BY <1>4 DEF pop3ReadList, m
  <2>. HIDE DEF q
  <2>. DEFINE r == Put(q, PartLine)
  <2>8. /\ r.stm = "WRITE_LIST" /\ r.lastFileList = m + 1
        /\ r.serverBuffer = PartLine
    <3>1. <<>> \o PartLine = PartLine
      BY Pieces, ConcatEmptySeq
    <3>2. /\ r.stm = q.stm /\ r.lastFileList = q.lastFileList
          /\ r.serverBuffer = q.serverBuffer \o PartLine
      BY <2>6, PutFields
    <3>. HIDE DEF r
    <3> QED
      BY <2>4, <3>1, <3>2
  <2>. HIDE DEF r
  <2>9. Left(cl, r) = todo \ {m}
    <3>1. \A i \in Listed(cl) : i >= m + 1 <=> i \in todo /\ i # m
      <4>1. \A i \in Listed(cl) : i \in Nat
        BY <2>1 DEF Listed
      <4>2. \A i \in Listed(cl) : i \in todo <=> i >= k.lastFileList
        BY <1>1 DEF Left
      <4>3. k.lastFileList \in Nat
        BY MaildropAssumption DEF Conn
      <4>4. m \in Nat /\ m >= k.lastFileList
        BY <2>2, <2>3, <4>2
      <4>. HIDE DEF todo, cl
      <4> QED
        BY <2>2, <2>3, <4>1, <4>2, <4>3, <4>4
    <3> QED
      BY <1>1, <2>2, <2>8, <3>1 DEF Left
  <2>10. IsFiniteSet(todo) /\ Cardinality(todo \ {m}) = Cardinality(todo) - 1
         /\ Cardinality(todo) \in Nat
    <3>. HIDE DEF todo, cl
    <3>1. IsFiniteSet(todo)
      BY <2>1, <2>2, FS_Subset
    <3> QED
      BY <2>3, <3>1, FS_RemoveElement, FS_CardinalityType
  <2>11. p.got + Count(PartLine, "part") + Cardinality(Left(cl, r))
         = 1 + Cardinality(Listed(cl))
    <3>. HIDE DEF todo, cl
    <3> QED
      BY <1>1, <1>2, <2>1, <2>9, <2>10, PieceLines
  <2> QED
    BY <2>7, <2>8, <2>11, Pieces DEF ListOK, r
<1> QED
  BY <1>3, <1>4

(* The next of a file: a block, the end, or the way back to reading. *)
LEMMA ListFile ==
    ASSUME NEW c \in Client, NEW cl, NEW k \in Conn, NEW p \in Peer, ListOK(cl, k, p),
           k.stm = "WRITE_FILE", k.serverBuffer = <<>> \/ ~CanWrite(k),
           \/ ~k.fileDoneReading /\ pop3ReadFile(c, k)
           \/ k.fileDoneReading /\ Become(c, BackToRead(k))
    PROVE  \E r : Become(c, r) /\ ListOK(cl, r, p)
<1>1. CASE k.fileDoneReading /\ Become(c, BackToRead(k))
  <2>. DEFINE r == BackToRead(k)
  <2>1. r.stm = "READ" /\ r.serverBuffer = k.serverBuffer /\ r.read = k.read
    BY BackFields
  <2>. HIDE DEF r
  <2>2. Told(k, p) \/ ~CanWrite(k)
    BY <1>1 DEF ListOK, EndsAnswer, Told
  <2>3. Told(r, p) \/ ~CanWrite(r)
    BY <2>1, <2>2 DEF Told, CanWrite, Written
  <2>4. ListOK(cl, r, p)
    BY <2>1, <2>3 DEF ListOK
  <2> QED
    BY <1>1, <2>4 DEF r
<1>2. CASE ~k.fileDoneReading /\ pop3ReadFile(c, k)
  <2>1. PICK left \in BlocksLeft(c, k) :
           \/ left = 0 /\ Become(c, EndOfFile(k))
           \/ \E size \in 1 .. MaxBlock :
                 LET fits == Min({size, Room - Written(k)})
                 IN  /\ left > 0
                     /\ Become(c, Put([k EXCEPT !.blocks = left - 1], Block(fits)))
    BY <1>2 DEF pop3ReadFile
  <2>2. CASE Become(c, EndOfFile(k))
    <3>. DEFINE q == [k EXCEPT !.fileDoneReading = TRUE, !.blocks = Closed]
    <3>1. q \in Conn
      BY DEF Conn
    <3>2. q.stm = "WRITE_FILE"
      BY DEF Conn
    <3>3. EndOfFile(k) = Put(q, LastLine)
      BY DEF EndOfFile
    <3>. HIDE DEF q
    <3>4. Put(q, LastLine).stm = "WRITE_FILE"
          /\ EndsAnswer(Put(q, LastLine).serverBuffer)
      BY <3>1, <3>2, PutFields, PutLast
    <3>5. ListOK(cl, EndOfFile(k), p)
      BY <3>3, <3>4 DEF ListOK
    <3> QED
      BY <2>2, <3>5
  <2>3. ASSUME NEW size \in 1 .. MaxBlock, left > 0,
               Become(c, Put([k EXCEPT !.blocks = left - 1],
                             Block(Min({size, Room - Written(k)}))))
        PROVE  \E r : Become(c, r) /\ ListOK(cl, r, p)
    <3>. DEFINE q == [k EXCEPT !.blocks = left - 1]
    <3>. DEFINE r == Put(q, Block(Min({size, Room - Written(k)})))
    <3>1. q.stm = "WRITE_FILE" /\ ~q.fileDoneReading
      BY <1>2 DEF Conn
    <3>2. left - 1 \in 0 .. MaxBlocks
      <4>1. k.blocks \in {Closed} \cup 0 .. MaxBlocks
        BY DEF Conn
      <4>2. left \in 0 .. MaxBlocks \cup {Closed} /\ left > 0 /\ MaxBlocks \in Nat
        BY <2>3, <4>1, SessionAssumption DEF BlocksLeft
      <4> QED
        BY <4>2 DEF Closed
    <3>3. q \in Conn
      BY <3>2 DEF Conn
    <3>. HIDE DEF q
    <3>4. r.stm = "WRITE_FILE" /\ ~r.fileDoneReading
      BY <3>1, <3>3, PutFields
    <3>. HIDE DEF r
    <3>5. ListOK(cl, r, p)
      BY <3>4 DEF ListOK
    <3> QED
      BY <2>3, <3>5 DEF r, q
  <2> QED
    BY <2>1, <2>2, <2>3
<1> QED
  BY <1>1, <1>2

LEMMA OneListed ==
    ASSUME ServiceInv, ListInv, server = "up", NEW c \in Client, NEW r, NEW p,
           conn' = [conn EXCEPT ![c] = r], peer' = [peer EXCEPT ![c] = p],
           \A d \in Client : d # c => client'[d] = client[d],
           server' # "overrun" => ListOK(client'[c], r, p)
    PROVE  ListInv'
<1>1. \A d \in Client : /\ conn'[d] = IF d = c THEN r ELSE conn[d]
                        /\ peer'[d] = IF d = c THEN p ELSE peer[d]
  BY DEF ServiceInv, SessionInv
<1>2. server' # "overrun" => \A d \in Client : ListOK(client'[d], conn'[d], peer'[d])
  BY <1>1 DEF ListInv
<1>3. ListInv' <=>
        (server' # "overrun" => \A d \in Client : ListOK(client'[d], conn'[d], peer'[d]))
  BY DEF ListInv, ListOK, Told, EndsAnswer, Left, Listed, CanWrite, Written, Count
<1> QED
  BY <1>2, <1>3

LEMMA BecomeListed ==
    ASSUME ServiceInv, ListInv, server = "up", NEW c \in Client, NEW p,
           peer' = [peer EXCEPT ![c] = p],
           \A d \in Client : d # c => client'[d] = client[d],
           \E r : /\ Become(c, r)
                  /\ Written(r) <= Room => ListOK(client'[c], r, p)
    PROVE  ListInv'
<1>1. PICK r : /\ Become(c, r)
               /\ Written(r) <= Room => ListOK(client'[c], r, p)
  OBVIOUS
<1>2. /\ conn' = [conn EXCEPT ![c] = r]
      /\ server' = IF Written(r) <= Room THEN "up" ELSE "overrun"
  BY <1>1 DEF Become
<1> QED
  BY <1>1, <1>2, OneListed

(* No connection has no answer. *)
LEMMA NoneListed == \A cl : ListOK(cl, NoConn, NoPeer)
<1>1. NoConn.stm = "NONE"
  BY DEF NoConn
<1> QED
  BY <1>1 DEF ListOK

LEMMA CloseListed ==
    ASSUME ServiceInv, ListInv, server = "up", NEW c \in Client, Close(c)
    PROVE  ListInv'
<1>1. /\ conn' = [conn EXCEPT ![c] = NoConn] /\ peer' = [peer EXCEPT ![c] = NoPeer]
      /\ \A d \in Client : d # c => client'[d] = client[d]
  BY DEF Close, closeConnection
<1> QED
  BY <1>1, NoneListed, OneListed

LEMMA ReadListed ==
    ASSUME ServiceInv, ListInv, NEW c \in Client, pop3Read(c)
    PROVE  ListInv'
<1>1. Up(c) /\ conn[c].stm = "READ" /\ pop3ReadCommand(c)
  BY DEF pop3Read
<1>2. /\ server = "up" /\ conn[c] \in Conn /\ peer[c] \in Peer
      /\ LinkOK(c, conn[c], peer[c])
      /\ MaildropInv /\ SessionInv
      /\ ListOK(client[c], conn[c], peer[c])
  BY <1>1, AtEvent DEF ListInv
<1>3. CASE Close(c)
  BY <1>2, <1>3, CloseListed
<1>4. CASE ~Close(c)
  <2>. DEFINE inq == peer[c].inq
  <2>. DEFINE it == IF conn[c].serverBuffer = <<>> THEN conn[c].interest
                    ELSE "OP_WRITE"
  <2>. DEFINE k(n) == [conn[c] EXCEPT
                         !.clientBuffer = @ \o SubSeq(inq, 1, n),
                         !.interest = IF conn[c].serverBuffer = <<>> THEN @
                                      ELSE "OP_WRITE"]
  <2>. DEFINE p(n) == [peer[c] EXCEPT !.inq = SubSeq(inq, n + 1, Len(inq))]
  <2>1. PICK n \in 0 .. Len(inq) :
           /\ peer' = [peer EXCEPT ![c].inq = SubSeq(inq, n + 1, Len(inq))]
           /\ parseCommandInBuffer(c, k(n))
    BY <1>1, <1>4 DEF pop3ReadCommand
  <2>2. inq \in Seq(Input) /\ conn[c].clientBuffer \in Seq(Input)
    BY <1>2 DEF Peer, Conn, Input
  <2>. DEFINE front == SubSeq(inq, 1, n)
  <2>. DEFINE rest == SubSeq(inq, n + 1, Len(inq))
  <2>3. front \in Seq(Input) /\ rest \in Seq(Input)
    <3>. HIDE DEF inq
    <3> QED
      BY <2>1, <2>2, EndsSplit
  <2>4. peer' = [peer EXCEPT ![c] = p(n)]
    BY <1>2, <2>1 DEF SessionInv
  <2>5. p(n).got = peer[c].got /\ p(n) \in Peer
    <3>. HIDE DEF inq
    <3>1. p(n).got = peer[c].got
      BY <1>2 DEF Peer
    <3>2. rest \in Seq(Command \cup {Half})
      BY <2>3 DEF Input
    <3>. HIDE DEF rest
    <3>3. [peer[c] EXCEPT !.inq = rest] \in Peer
      BY <1>2, <3>2 DEF Peer
    <3> QED
      BY <3>1, <3>3 DEF rest
  <2>. DEFINE cb == conn[c].clientBuffer \o front
  <2>6. cb \in Seq(Input)
    <3>. HIDE DEF front
    <3> QED
      BY <2>2, <2>3, ConcatProperties
  <2>7. it \in {"OP_NOOP", "OP_READ", "OP_WRITE"}
    BY <1>2 DEF Conn
  <2>8. k(n) = [[conn[c] EXCEPT !.clientBuffer = cb] EXCEPT !.interest = it]
    BY <1>2 DEF Conn
  <2>. HIDE DEF k, p, it, cb, rest, front
  <2>9. [conn[c] EXCEPT !.clientBuffer = cb] \in Conn
    BY <1>2, <2>6 DEF Conn, Input
  <2>10. /\ k(n) \in Conn
         /\ k(n).serverBuffer = conn[c].serverBuffer /\ k(n).read = conn[c].read
         /\ k(n).stm = "READ" /\ k(n).fileDoneReading = conn[c].fileDoneReading
    BY <1>1, <1>2, <2>7, <2>8, <2>9 DEF Conn
  <2>11. Told(k(n), p(n)) \/ ~CanWrite(k(n))
    BY <1>1, <1>2, <2>5, <2>10 DEF ListOK, Told, CanWrite, Written
  <2>12. ~Answering(k(n))
    BY <2>10 DEF Answering
  <2>13. \A d \in Client : d # c => client'[d] = client[d]
    BY <1>2, <2>1, <2>10, <2>12, ParseMoves DEF ClientMoves
  <2>14. \E r \in Conn : /\ Become(c, r)
                         /\ Written(r) <= Room => ListOK(client'[c], r, p(n))
    BY <1>2, <2>1, <2>5, <2>10, <2>11, ListParse
  <2> QED
    BY <1>2, <2>4, <2>13, <2>14, BecomeListed
<1> QED
  BY <1>3, <1>4

(* What every write event finds, and what its send of n units leaves. *)
LEMMA SentFinds ==
    ASSUME ServiceInv, ListInv, NEW c \in Client, Up(c), conn[c].stm \in Writers,
           NEW n \in 1 .. Len(conn[c].serverBuffer), Delivered(c, n)
    PROVE  LET k == Sent(conn[c], n)
               q == Received(peer[c], SubSeq(conn[c].serverBuffer, 1, n))
           IN  /\ k \in Conn /\ q \in Peer /\ k.stm = conn[c].stm
               /\ peer' = [peer EXCEPT ![c] = q]
               /\ k.stm = "WRITE" => EndsAnswer(k.serverBuffer) \/ Told(k, q)
               /\ k.stm # "WRITE" => ListOK(client[c], k, q)
<1>1. /\ server = "up" /\ conn[c] \in Conn /\ peer[c] \in Peer
      /\ LinkOK(c, conn[c], peer[c]) /\ Written(conn[c]) <= Room
      /\ ListOK(client[c], conn[c], peer[c])
  BY AtEvent DEF ListInv
<1>. DEFINE k == Sent(conn[c], n)
<1>. DEFINE q == Received(peer[c], SubSeq(conn[c].serverBuffer, 1, n))
<1>2. LinkOK(c, k, q) /\ k \in Conn /\ k.stm = conn[c].stm
  BY <1>1, SentLink
<1>3. q \in Peer
  BY <1>2 DEF LinkOK
<1>4. peer' = [peer EXCEPT ![c] = q]
  BY DEF Delivered
<1>5. /\ conn[c].stm = "WRITE" => EndsAnswer(k.serverBuffer) \/ Told(k, q)
      /\ conn[c].stm # "WRITE" => ListOK(client[c], k, q)
  BY <1>1, SentListed
<1> QED
  BY <1>2, <1>3, <1>4, <1>5

LEMMA WriteCommandListed ==
    ASSUME ServiceInv, ListInv, NEW c \in Client, Up(c),
           conn[c].stm = "WRITE", pop3WriteCommand(c)
    PROVE  ListInv'
<1>1. PICK n \in 1 .. Len(conn[c].serverBuffer) :
         LET k    == Sent(conn[c], n)
             done == k.serverBuffer = <<>>
             more == k.clientBuffer # <<>>
             Keep(r) == Delivered(c, n) /\ Become(c, r) /\ UNCHANGED maildropVars
         IN  \/ ~done /\ Keep(k)
             \/ done /\ more /\ Delivered(c, n) /\ parseCommandInBuffer(c, k)
             \/ done /\ ~more /\ SignedOff(c) /\ Close(c)
             \/ done /\ ~more /\ ~SignedOff(c) /\ Keep(BackToRead(k))
  BY DEF pop3WriteCommand
<1>. DEFINE k == Sent(conn[c], n)
<1>. DEFINE q == Received(peer[c], SubSeq(conn[c].serverBuffer, 1, n))
<1>2. server = "up" /\ MaildropInv
  BY AtEvent
<1>3. CASE Close(c)
  BY <1>2, <1>3, CloseListed
<1>4. Delivered(c, n) => /\ k \in Conn /\ q \in Peer /\ k.stm = "WRITE"
                         /\ peer' = [peer EXCEPT ![c] = q]
                         /\ EndsAnswer(k.serverBuffer) \/ Told(k, q)
  BY SentFinds DEF Writers
<1>. HIDE DEF k, q
<1>5. CASE Delivered(c, n) /\ k.serverBuffer # <<>> /\ Become(c, k)
           /\ UNCHANGED maildropVars
  <2>1. ListOK(client[c], k, q) /\ client' = client
    BY <1>4, <1>5 DEF ListOK, Told, maildropVars
  <2> QED
    BY <1>2, <1>4, <1>5, <2>1, BecomeListed
<1>6. CASE Delivered(c, n) /\ k.serverBuffer = <<>> /\ parseCommandInBuffer(c, k)
  <2>1. Told(k, q)
    BY <1>4, <1>6 DEF EndsAnswer
  <2>2. ~Answering(k)
    BY <1>4, <1>6 DEF Answering
  <2>3. \A d \in Client : d # c => client'[d] = client[d]
    BY <1>2, <1>4, <1>6, <2>2, ParseMoves DEF ClientMoves
  <2>4. \E r \in Conn : /\ Become(c, r)
                        /\ Written(r) <= Room => ListOK(client'[c], r, q)
    BY <1>2, <1>4, <1>6, <2>1, ListParse
  <2> QED
    BY <1>2, <1>4, <1>6, <2>3, <2>4, BecomeListed
<1>7. CASE Delivered(c, n) /\ k.serverBuffer = <<>> /\ Become(c, BackToRead(k))
           /\ UNCHANGED maildropVars
  <2>. DEFINE r == BackToRead(k)
  <2>1. Told(k, q) /\ client' = client
    BY <1>4, <1>7 DEF EndsAnswer, maildropVars
  <2>2. r.stm = "READ" /\ r.serverBuffer = k.serverBuffer
    BY <1>4, <1>7, BackFields
  <2>. HIDE DEF r
  <2>3. ListOK(client[c], r, q)
    BY <2>1, <2>2 DEF ListOK, Told
  <2> QED
    BY <1>2, <1>4, <1>7, <2>1, <2>3, BecomeListed DEF r
<1> QED
  BY <1>1, <1>3, <1>5, <1>6, <1>7 DEF k

LEMMA WriteFileListed ==
    ASSUME ServiceInv, ListInv, NEW c \in Client, Up(c),
           conn[c].stm = "WRITE_FILE", pop3WriteFile(c)
    PROVE  ListInv'
<1>. DEFINE Go(k) == \/ ~k.fileDoneReading /\ pop3ReadFile(c, k)
                     \/ k.fileDoneReading /\ Become(c, BackToRead(k))
<1>1. /\ server = "up" /\ conn[c] \in Conn /\ peer[c] \in Peer /\ SessionInv
      /\ ListOK(client[c], conn[c], peer[c])
  BY AtEvent DEF ListInv
<1>2. client' = client
  BY DEF pop3WriteFile, maildropVars
<1>3. CASE conn[c].serverBuffer = <<>> /\ Go(conn[c]) /\ UNCHANGED peer
  <2>1. \E r : Become(c, r) /\ ListOK(client[c], r, peer[c])
    BY <1>1, <1>3, ListFile
  <2>2. peer' = [peer EXCEPT ![c] = peer[c]]
    BY <1>1, <1>3 DEF SessionInv
  <2> QED
    BY <1>1, <1>2, <2>1, <2>2, BecomeListed
<1>4. ASSUME NEW n \in 1 .. Len(conn[c].serverBuffer), Delivered(c, n),
             LET k == Sent(conn[c], n)
             IN  \/ CanWrite(k) /\ Become(c, k)
                 \/ ~CanWrite(k) /\ Go(k)
      PROVE  ListInv'
  <2>. DEFINE k == Sent(conn[c], n)
  <2>. DEFINE q == Received(peer[c], SubSeq(conn[c].serverBuffer, 1, n))
  <2>1. /\ k \in Conn /\ q \in Peer /\ k.stm = "WRITE_FILE"
        /\ peer' = [peer EXCEPT ![c] = q] /\ ListOK(client[c], k, q)
    BY <1>4, SentFinds DEF Writers
  <2>2. CASE Become(c, k)
    <3>. HIDE DEF k, q
    <3> QED
      BY <1>1, <1>2, <2>1, <2>2, BecomeListed
  <2>3. CASE ~CanWrite(k) /\ Go(k)
    <3>. HIDE DEF k, q
    <3>1. \E r : Become(c, r) /\ ListOK(client[c], r, q)
      BY <2>1, <2>3, ListFile
    <3> QED
      BY <1>1, <1>2, <2>1, <3>1, BecomeListed
  <2> QED
    BY <1>4, <2>2, <2>3
<1> QED
  BY <1>3, <1>4 DEF pop3WriteFile

LEMMA WriteListListed ==
    ASSUME ServiceInv, ListInv, NEW c \in Client, Up(c),
           conn[c].stm = "WRITE_LIST", pop3WriteList(c)
    PROVE  ListInv'
<1>1. PICK n \in 1 .. Len(conn[c].serverBuffer) :
         LET k == Sent(conn[c], n)
         IN  /\ Delivered(c, n)
             /\ Become(c, IF k.serverBuffer = <<>> THEN pop3ReadList(c, k) ELSE k)
             /\ UNCHANGED maildropVars
  BY DEF pop3WriteList
<1>. DEFINE k == Sent(conn[c], n)
<1>. DEFINE q == Received(peer[c], SubSeq(conn[c].serverBuffer, 1, n))
<1>2. server = "up" /\ MaildropInv
  BY AtEvent
<1>3. /\ k \in Conn /\ q \in Peer /\ k.stm = "WRITE_LIST"
      /\ peer' = [peer EXCEPT ![c] = q] /\ ListOK(client[c], k, q)
  BY <1>1, SentFinds DEF Writers
<1>4. client' = client
  BY <1>1 DEF maildropVars
<1>. HIDE DEF k, q
<1>5. k.serverBuffer = <<>> => ListOK(client[c], pop3ReadList(c, k), q)
  BY <1>2, <1>3, ListEntry
<1>6. \E r : Become(c, r) /\ ListOK(client[c], r, q)
  BY <1>1, <1>3, <1>5 DEF k
<1> QED
  BY <1>2, <1>3, <1>4, <1>6, BecomeListed

LEMMA AcceptListed ==
    ASSUME ServiceInv, ListInv, NEW c \in Client, Accept(c)
    PROVE  ListInv'
<1>. DEFINE r == [NoConn EXCEPT !.stm = "WRITE", !.interest = "OP_WRITE",
                                !.serverBuffer = LastLine]
<1>. DEFINE p == [peer[c] EXCEPT !.owed = 1]
<1>1. /\ server = "up" /\ pop3_handle_connection(c)
      /\ conn' = [conn EXCEPT ![c] = r]
      /\ peer' = [peer EXCEPT ![c].owed = 1]
  BY DEF Accept
<1>2. SessionInv
  BY DEF ServiceInv
<1>3. peer' = [peer EXCEPT ![c] = p]
  BY <1>1, <1>2 DEF SessionInv
<1>4. r.stm = "WRITE" /\ r.serverBuffer = LastLine
  BY DEF NoConn
<1>5. \A d \in Client : d # c => client'[d] = client[d]
  BY <1>1 DEF pop3_handle_connection
<1>. HIDE DEF r, p
<1>6. ListOK(client'[c], r, p)
  BY <1>4, PieceLines DEF ListOK
<1> QED
  BY <1>1, <1>3, <1>5, <1>6, OneListed

(* What the peer does changes nothing of what it has read. *)
LEMMA PeerListed ==
    ASSUME ServiceInv, ListInv, NEW c \in Client,
           PeerShutdown(c) \/ \E cmd \in Lines[c] : PeerSend(c, cmd)
    PROVE  ListInv'
<1>1. Up(c) /\ UNCHANGED <<maildropVars, conn, server>>
  BY DEF PeerShutdown, PeerSend
<1>2. server = "up" /\ peer[c] \in Peer /\ SessionInv
      /\ ListOK(client[c], conn[c], peer[c])
  BY <1>1, AtEvent DEF ListInv
<1>3. PICK p : peer' = [peer EXCEPT ![c] = p] /\ p.got = peer[c].got
  <2>1. CASE PeerShutdown(c)
    <3>. DEFINE q == [peer[c] EXCEPT !.eof = TRUE]
    <3>1. peer' = [peer EXCEPT ![c] = q]
      BY <1>2, <2>1 DEF PeerShutdown, SessionInv
    <3>2. q.got = peer[c].got
      BY <1>2 DEF Peer
    <3> QED
      BY <3>1, <3>2
  <2>2. ASSUME NEW cmd \in Lines[c], PeerSend(c, cmd)
        PROVE  \E p : peer' = [peer EXCEPT ![c] = p] /\ p.got = peer[c].got
    <3>. DEFINE q == [peer[c] EXCEPT !.inq = @ \o <<Half, cmd>>, !.owed = @ + 1]
    <3>1. peer' = [peer EXCEPT ![c] = q]
      BY <1>2, <2>2 DEF PeerSend, SessionInv
    <3>2. q.got = peer[c].got
      BY <1>2 DEF Peer
    <3> QED
      BY <3>1, <3>2
  <2> QED
    BY <2>1, <2>2
<1>4. conn' = [conn EXCEPT ![c] = conn[c]]
  BY <1>1, <1>2 DEF SessionInv
<1>5. ListOK(client[c], conn[c], p)
  BY <1>2, <1>3 DEF ListOK, Told
<1>6. client' = client
  BY <1>1 DEF maildropVars
<1> QED
  BY <1>2, <1>3, <1>4, <1>5, <1>6, OneListed

(* Steps that leave every connection as it is, and the new start. *)
LEMMA OutsideListed ==
    ASSUME ListInv, UNCHANGED <<client, conn, peer>>,
           server' = server \/ server = "up"
    PROVE  ListInv'
BY DEF ListInv, ListOK, Told, EndsAnswer, Left, Listed, CanWrite, Written, Count

LEMMA StopListed ==
    ASSUME Stop
    PROVE  ListInv'
<1>1. conn' = [c \in Client |-> NoConn] /\ peer' = [c \in Client |-> NoPeer]
  BY DEF Stop
<1>2. \A d \in Client : ListOK(client'[d], conn'[d], peer'[d])
  BY <1>1, NoneListed
<1>3. ListInv' <=>
        (server' # "overrun" => \A d \in Client : ListOK(client'[d], conn'[d], peer'[d]))
  BY DEF ListInv, ListOK, Told, EndsAnswer, Left, Listed, CanWrite, Written, Count
<1> QED
  BY <1>2, <1>3

LEMMA ListStep ==
    ASSUME ServiceInv, ListInv, [SessionNext]_sessionVars
    PROVE  ListInv'
<1>1. CASE UNCHANGED sessionVars
  BY <1>1, OutsideListed DEF sessionVars
<1>2. ASSUME NEW c \in Client, pop3Write(c)
      PROVE  ListInv'
  BY <1>2, WriteCommandListed, WriteFileListed, WriteListListed DEF pop3Write
<1>3. ASSUME NEW c \in Client, stm_abort(c)
      PROVE  ListInv'
  BY <1>3, OutsideListed DEF stm_abort, maildropVars, Up
<1>4. ASSUME NEW u \in User, NEW m \in Msg, Deliver(u, m),
             UNCHANGED <<conn, peer, server>>
      PROVE  ListInv'
  BY <1>4, OutsideListed DEF Deliver
<1>5. CASE SessionNext
  BY <1>2, <1>3, <1>4, <1>5, AcceptListed, ReadListed, PeerListed, StopListed
     DEF SessionNext, handle_iteration
<1> QED
  BY <1>1, <1>5

-----------------------------------------------------------------------------
(* The theorems. *)

(* Each connection is in order with its session, starts its answers with   *)
(* an empty buffer, and is in step with a peer that waits for its answers. *)
THEOREM HandlerInvariant == SessionSpec => []HandlerInv
<1>1. ASSUME SessionInit
      PROVE  HandlerInv
  <2>1. /\ conn = [c \in Client |-> NoConn] /\ peer = [c \in Client |-> NoPeer]
        /\ client = [c \in Client |-> NoClient]
        /\ server = "up"
    BY <1>1 DEF SessionInit, Init
  <2>2. \A c \in Client : Good(c, client[c], conn[c]) /\ EndsInLine(peer[c].inq)
    BY <2>1, NoneIsGood
  <2> QED
    BY <2>1, <2>2 DEF HandlerInv
<1>2. ServiceInv /\ HandlerInv /\ [SessionNext]_sessionVars => HandlerInv'
  BY HandlerStep DEF HandlerStepOK
<1> QED
  BY <1>1, <1>2, SessionInvariant, PTL DEF SessionSpec

(* An answer of several events works on the session that began it: the     *)
(* message being sent stays listed and unmarked, and no listing cursor or  *)
(* open file is left over for the next command, whatever the connections   *)
(* of the same user do meanwhile and whatever way input and sends are cut. *)
THEOREM AnswerOrderCorrect == SessionSpec => []AnswerInProgress
<1>1. HandlerInv => AnswerInProgress
  BY DEF HandlerInv, Good, OrderOK, AnswerInProgress, Active, Slots, Marked
<1> QED
  BY <1>1, HandlerInvariant, PTL

(* Whatever the buffer holds, and however long the mails and the blocks of *)
(* their files, the assertion of buffer_write_adv fails only at the end of *)
(* a file that has filled the buffer of its connection.                    *)
THEOREM OverrunsExplained == SessionSpec => OverrunOnlyByFile
<1>1. ServiceInv /\ HandlerInv /\ [SessionNext]_sessionVars => Overrun
  BY HandlerStep DEF HandlerStepOK
<1>2. ServiceInv /\ HandlerInv /\ [SessionNext]_sessionVars => [Overrun]_sessionVars
  BY <1>1
<1>3. SessionSpec => [][Overrun]_sessionVars
  BY <1>2, SessionInvariant, HandlerInvariant, PTL DEF SessionSpec
<1> QED
  BY <1>3 DEF OverrunOnlyByFile, Overrun

(* A peer that waits for each answer never makes the state machine abort:  *)
(* the selector's interest and the state agree at every event, whatever    *)
(* other peers send ahead and whatever files fill its buffer.              *)
THEOREM LockstepCorrect == SessionSpec => []LockstepHandled
<1>1. HandlerInv => LockstepHandled
  BY DEF HandlerInv, Good, SyncOK, LockstepHandled
<1> QED
  BY <1>1, HandlerInvariant, PTL

(* While a listing is sent it adds up to its header and one entry for each *)
(* message the header counted, however short the sends are, how many       *)
(* commands wait behind it, and whatever its buffer: up to the step that   *)
(* overruns the buffer, if one does.                                       *)
THEOREM ListingsAddUp == SessionSpec => []ListingProgress
<1>1. SessionInit => ListInv
  BY NoneListed DEF SessionInit, ListInv
<1>2. ServiceInv /\ ListInv /\ [SessionNext]_sessionVars => ListInv'
  BY ListStep
<1>3. ListInv => ListingProgress
  BY DEF ListInv, ListOK, ListingProgress, Left, Listed, Active, Slots, Marked
<1> QED
  BY <1>1, <1>2, <1>3, SessionInvariant, PTL DEF SessionSpec
=============================================================================
