------------------------- MODULE MailTransferProofs -------------------------
(***************************************************************************)
(* That the answers to RETR are what MailTransfer.tla says of them, for    *)
(* every mailbox and every BUFFER_SIZE that its assumption admits.         *)
(*                                                                         *)
(* The escaping of a block goes through one value for each of its bytes    *)
(* (EscapeRun, from FoldLemmas), and so does OnTheWire for the whole mail  *)
(* (WireRun): what is said of a block is shown from one byte to the next.  *)
(* Of a write event, the sends come to Waiting, Reading, Ending or         *)
(* Finishing, after which SentOf says what the peer has (WriteStep).       *)
(***************************************************************************)
EXTENDS MailTransfer, FoldLemmas, SequenceTheorems

-----------------------------------------------------------------------------
(* -- The escaping of a block, byte by byte -- *)

EscapeState == [out : Seq(Byte), newLine : BOOLEAN, last : Byte \cup {"none"}]
EscapeStart(atStart) == [out |-> <<>>, newLine |-> atStart, last |-> "none"]

(* E[n] is the escaping of a line after its first n bytes.                 *)
EscapeRun(E, line, atStart) ==
    /\ E \in [0 .. Len(line) -> EscapeState]
    /\ E[0] = EscapeStart(atStart) /\ Escaped(line, atStart) = E[Len(line)]
    /\ \A n \in 1 .. Len(line) : E[n] = Escape(E[n - 1], line[n])

LEMMA EscapeType ==
    ASSUME NEW e \in EscapeState, NEW c \in Byte
    PROVE  Escape(e, c) \in EscapeState
<1>1. e.out \in Seq(Byte) /\ e.newLine \in BOOLEAN
  BY DEF EscapeState
<1>2. <<"LF">> \in Seq(Byte) /\ <<"CR", "LF">> \in Seq(Byte)
      /\ <<"DOT", "DOT">> \in Seq(Byte) /\ <<"DOT">> \in Seq(Byte)
  BY DEF Byte
<1>3. /\ e.out \o <<"LF">> \in Seq(Byte) /\ e.out \o <<"CR", "LF">> \in Seq(Byte)
      /\ e.out \o <<"DOT", "DOT">> \in Seq(Byte) /\ e.out \o <<"DOT">> \in Seq(Byte)
      /\ Append(e.out, c) \in Seq(Byte)
  BY <1>1, <1>2, ConcatProperties, AppendProperties
<1>4. CASE c = "LF"
  <2>1. Escape(e, c).out \in Seq(Byte) /\ Escape(e, c).newLine = TRUE
    BY <1>3, <1>4 DEF Escape
  <2> QED
    BY <1>3, <1>4, <2>1 DEF Escape, EscapeState
<1>5. CASE c = "DOT"
  BY <1>3, <1>5 DEF Escape, EscapeState
<1>6. CASE c # "LF" /\ c # "DOT"
  BY <1>3, <1>6 DEF Escape, EscapeState
<1> QED
  BY <1>4, <1>5, <1>6

(* The fold of the escaping goes through such a function.                  *)
LEMMA EscapeSteps ==
    ASSUME NEW line \in Seq(Byte), NEW atStart \in BOOLEAN
    PROVE  \E E : EscapeRun(E, line, atStart)
<1>. DEFINE N == Len(line)
<1>. DEFINE S == EscapeState
<1>. DEFINE base == EscapeStart(atStart)
<1>. DEFINE h == [x \in S \X (1 .. N) |-> Escape(x[1], line[x[2]])]
<1>1. N \in Nat /\ DOMAIN line = 1 .. N /\ \A i \in 1 .. N : line[i] \in Byte
  BY LenProperties, ElementOfSeq
<1>2. base \in S
  BY DEF EscapeStart, EscapeState
<1>3. h \in [S \X (1 .. N) -> S]
  BY <1>1, EscapeType
<1>4. \A q \in S, n \in 1 .. N : h[<<q, n>>] = Escape(q, line[n])
  OBVIOUS
<1>. HIDE DEF S, h, base, N
<1>5. PICK g : FoldsSets(g, S, N, base, h)
  BY <1>1, <1>2, <1>3, FoldExists
<1>6. g = [t \in SUBSET (DOMAIN line) |->
             IF t = {} THEN base ELSE Escape(g[t \ {Max(t)}], line[Max(t)])]
  <2>1. ASSUME NEW t \in SUBSET (1 .. N), t # {}
        PROVE  h[<<g[t \ {Max(t)}], Max(t)>>]
               = Escape(g[t \ {Max(t)}], line[Max(t)])
    <3>1. Max(t) \in 1 .. N /\ t \ {Max(t)} \in SUBSET (1 .. N)
      BY <1>1, <2>1, MaxIn
    <3> QED
      BY <1>4, <1>5, <3>1 DEF FoldsSets
  <2> QED
    BY <1>1, <1>5, <2>1 DEF FoldsSets
<1>7. PICK iter :
         /\ iter = [t \in SUBSET (DOMAIN line) |->
                      IF t = {} THEN base
                      ELSE Escape(iter[t \ {Max(t)}], line[Max(t)])]
         /\ Escaped(line, atStart) = iter[DOMAIN line]
  BY <1>6 DEF Escaped, FoldLeft, MapThenFoldSet, base, EscapeStart
<1>8. iter[{}] = base
  BY <1>7
<1>9. \A t \in SUBSET (1 .. N) : t # {} /\ iter[t \ {Max(t)}] \in S
         => iter[t] = h[<<iter[t \ {Max(t)}], Max(t)>>]
  <2>. SUFFICES ASSUME NEW t \in SUBSET (1 .. N), t # {}, iter[t \ {Max(t)}] \in S
                PROVE  iter[t] = h[<<iter[t \ {Max(t)}], Max(t)>>]
    OBVIOUS
  <2>1. Max(t) \in 1 .. N
    BY <1>1, MaxIn
  <2>2. iter[t] = Escape(iter[t \ {Max(t)}], line[Max(t)])
    BY <1>1, <1>7
  <2> QED
    BY <1>4, <2>1, <2>2
<1>10. FoldsWithin(iter, S, N, base, h)
  BY <1>8, <1>9 DEF FoldsWithin
<1>11. PICK E : FoldsUpTo(E, iter[1 .. N], S, N, base, h)
  BY <1>1, <1>2, <1>3, <1>10, FoldSteps
<1>12. ASSUME NEW n \in 1 .. N
       PROVE  E[n] = Escape(E[n - 1], line[n])
  <2>1. n - 1 \in 0 .. N
    BY <1>1
  <2> QED
    BY <1>4, <1>11, <2>1 DEF FoldsUpTo
<1> QED
  BY <1>1, <1>7, <1>11, <1>12 DEF S, base, N, FoldsUpTo, EscapeRun

(* Its values, and that its bytes follow one another.                      *)
LEMMA EscapeRunIs ==
    ASSUME NEW line \in Seq(Byte), NEW atStart \in BOOLEAN, NEW E,
           EscapeRun(E, line, atStart)
    PROVE  /\ Len(line) \in Nat /\ E[0] = EscapeStart(atStart)
           /\ Escaped(line, atStart) = E[Len(line)]
           /\ \A n \in 0 .. Len(line) : E[n] \in EscapeState
           /\ \A n \in 1 .. Len(line) : line[n] \in Byte /\ E[n - 1] \in EscapeState
                                        /\ E[n] = Escape(E[n - 1], line[n])
<1>1. Len(line) \in Nat
  BY LenProperties
<1>2. \A n \in 1 .. Len(line) : n - 1 \in 0 .. Len(line)
  BY <1>1
<1> QED
  BY <1>1, <1>2, ElementOfSeq DEF EscapeRun

LEMMA EscapedType ==
    ASSUME NEW line \in Seq(Byte), NEW atStart \in BOOLEAN
    PROVE  Escaped(line, atStart) \in EscapeState
<1>1. PICK E : EscapeRun(E, line, atStart)
  BY EscapeSteps
<1>2. Len(line) \in 0 .. Len(line)
  BY LenProperties
<1> QED
  BY <1>1, <1>2, EscapeRunIs

(* A string ends at the first NUL.                                         *)
LEMMA LineIs ==
    ASSUME NEW block \in Seq(Byte)
    PROVE  \E k \in 0 .. Len(block) :
              /\ Line(block) = SubSeq(block, 1, k)
              /\ \A i \in 1 .. k : block[i] # "NUL"
              /\ k < Len(block) => block[k + 1] = "NUL"
<1>. DEFINE nuls == {i \in DOMAIN block : block[i] = "NUL"}
<1>1. Len(block) \in Nat /\ DOMAIN block = 1 .. Len(block)
  BY LenProperties
<1>2. CASE nuls = {}
  <2>1. Line(block) = block
    BY <1>2 DEF Line
  <2>2. SubSeq(block, 1, Len(block)) = block
    BY SubSeqFull
  <2>3. \A i \in 1 .. Len(block) : block[i] # "NUL"
    BY <1>1, <1>2
  <2>4. Line(block) = SubSeq(block, 1, Len(block)) /\ Len(block) \in 0 .. Len(block)
        /\ ~(Len(block) < Len(block))
    BY <1>1, <2>1, <2>2
  <2> QED
    BY <2>3, <2>4
<1>3. CASE nuls # {}
  <2>. DEFINE m == CHOOSE i \in nuls : \A j \in nuls : i <= j
  <2>1. nuls \in SUBSET Nat
    BY <1>1
  <2>2. m \in nuls /\ \A j \in nuls : m <= j
    <3>. HIDE DEF nuls
    <3>1. \E i \in nuls : \A j \in nuls : i <= j
      BY <1>3, <2>1, MinIn
    <3> QED
      BY <3>1
  <2>3. Line(block) = SubSeq(block, 1, m - 1)
    BY <1>3 DEF Line
  <2>. HIDE DEF m
  <2>4. m \in 1 .. Len(block) /\ block[m] = "NUL"
    BY <1>1, <2>2
  <2>5. \A i \in 1 .. m - 1 : block[i] # "NUL"
    BY <1>1, <2>2, <2>4
  <2> QED
    BY <2>3, <2>4, <2>5
<1> QED
  BY <1>2, <1>3

LEMMA LineType ==
    ASSUME NEW block \in Seq(Byte)
    PROVE  Line(block) \in Seq(Byte) /\ Len(Line(block)) \in 0 .. Len(block)
<1>1. PICK k \in 0 .. Len(block) : Line(block) = SubSeq(block, 1, k)
  BY LineIs
<1>2. Len(block) \in Nat /\ \A i \in 1 .. k : block[i] \in Byte
  BY LenProperties, ElementOfSeq
<1> QED
  BY <1>1, <1>2, SubSeqProperties

(* A block and what is left after it.                                      *)
LEMMA BlockIs ==
    ASSUME NEW rest \in Seq(Byte), NEW B \in Nat
    PROVE  LET k == IF B <= Len(rest) THEN B ELSE Len(rest) IN
              /\ k \in 0 .. Len(rest)
              /\ First(rest, B) = SubSeq(rest, 1, k) /\ First(rest, B) \in Seq(Byte)
              /\ Len(First(rest, B)) = k
              /\ \A i \in 1 .. k : First(rest, B)[i] = rest[i]
              /\ After(rest, B) = SubSeq(rest, k + 1, Len(rest)) /\ After(rest, B) \in Seq(Byte)
              /\ Len(After(rest, B)) = Len(rest) - k
              /\ \A i \in 1 .. Len(rest) - k : After(rest, B)[i] = rest[k + i]
<1>. DEFINE k == IF B <= Len(rest) THEN B ELSE Len(rest)
<1>1. Len(rest) \in Nat /\ \A i \in 1 .. Len(rest) : rest[i] \in Byte
  BY LenProperties, ElementOfSeq
<1>2. k \in 0 .. Len(rest)
  BY <1>1
<1>3. First(rest, B) = SubSeq(rest, 1, k)
  BY DEF First
<1>4. After(rest, B) = SubSeq(rest, k + 1, Len(rest))
  <2>1. CASE B < Len(rest)
    <3>1. k = B
      BY <1>1, <2>1
    <3>. HIDE DEF k
    <3> QED
      BY <2>1, <3>1 DEF After
  <2>2. CASE ~(B < Len(rest))
    <3>1. k = Len(rest) /\ After(rest, B) = <<>>
      BY <1>1, <2>2 DEF After
    <3>. HIDE DEF k
    <3>2. SubSeq(rest, k + 1, Len(rest)) = <<>>
      <4>1. k + 1 \in Int /\ Len(rest) \in Int /\ Len(rest) < k + 1
        BY <1>1, <3>1
      <4> QED
        BY <4>1, SubSeqEmpty
    <3> QED
      BY <3>1, <3>2
  <2> QED
    BY <2>1, <2>2
<1>. HIDE DEF k
<1>5. /\ SubSeq(rest, 1, k) \in Seq(Byte) /\ Len(SubSeq(rest, 1, k)) = k
      /\ \A i \in 1 .. k : SubSeq(rest, 1, k)[i] = rest[i]
  <2>1. \A i \in 1 .. k : rest[i] \in Byte
    BY <1>1, <1>2
  <2> QED
    BY <1>1, <1>2, <2>1, SubSeqProperties
<1>6. /\ SubSeq(rest, k + 1, Len(rest)) \in Seq(Byte)
      /\ Len(SubSeq(rest, k + 1, Len(rest))) = Len(rest) - k
      /\ \A i \in 1 .. Len(rest) - k : SubSeq(rest, k + 1, Len(rest))[i] = rest[k + i]
  <2>1. \A i \in k + 1 .. Len(rest) : rest[i] \in Byte
    BY <1>1, <1>2
  <2> QED
    BY <1>1, <1>2, <2>1, SubSeqProperties
<1> QED
  BY <1>2, <1>3, <1>4, <1>5, <1>6 DEF k

-----------------------------------------------------------------------------
(* -- The sends of a write event -- *)

MailInv ==
    /\ TypeOK
    /\ serverBuffer.bytes = <<>> => serverBuffer.read = 0
    /\ stm = "READ" =>
          /\ server = "up" /\ serverBuffer = Empty /\ file = NotOpen
          /\ mail = <<>> /\ got = <<>> /\ ~lost
    /\ stm = "WRITE_FILE" /\ fileDoneReading =>
          file = NotOpen /\ (server = "up" => buffer_can_write(serverBuffer))
    /\ stm = "WRITE_FILE" /\ ~fileDoneReading => server = "up"

LEMMA Sizes == /\ BUFFER_SIZE \in Nat /\ BUFFER_SIZE > 5 /\ BLOCK \in Nat /\ BLOCK > 0
               /\ BLOCK = BUFFER_SIZE - 1
               /\ Header \in Seq(Byte) /\ Len(Header) = 2
               /\ Terminator \in Seq(Byte) /\ Len(Terminator) = 5
               /\ NotOpen \notin Seq(Byte)
<1>1. Header \in Seq(Byte) /\ Len(Header) = 2
  BY DEF Header, Byte
<1>2. Terminator \in Seq(Byte) /\ Len(Terminator) = 5
  BY DEF Terminator, Byte
<1>3. BUFFER_SIZE \in Nat /\ BUFFER_SIZE > 5
  BY <1>2, BufferSizeAssumption, MailTransferAssumption
<1>4. NotOpen \notin Seq(Byte)
  <2>1. NotOpen[1] = "not open" /\ Len(NotOpen) = 1
    BY DEF NotOpen
  <2>2. "not open" \notin Byte
    BY DEF Byte
  <2>3. ASSUME NotOpen \in Seq(Byte)
        PROVE  FALSE
    <3>1. 1 \in 1 .. Len(NotOpen)
      <4>1. \A n \in Nat : n = 1 => 1 \in 1 .. n
        OBVIOUS
      <4> QED
        BY <2>1, <4>1
    <3>2. NotOpen[1] \in Byte
      BY <2>3, <3>1, ElementOfSeq
    <3> QED
      BY <2>1, <2>2, <3>2
  <2> QED
    BY <2>3
<1> QED
  BY <1>1, <1>2, <1>3, <1>4 DEF BLOCK

(* What is left of the mail to read.                                       *)
Rest == IF file = NotOpen THEN mail ELSE file

(* q is the buffer after some of it was sent, and heard what the peer has  *)
(* received by then.                                                       *)
SentOf(q, heard) ==
    /\ q \in Queues(Byte) /\ heard \in Seq(Byte) /\ heard \o q.bytes = Sent
    /\ Written(q) <= Written(serverBuffer) /\ (q.bytes = <<>> => q.read = 0)
    /\ serverBuffer.bytes = <<>> => q = serverBuffer

(* A send takes from the buffer what it gives to the peer.                 *)
LEMMA Sends ==
    ASSUME TypeOK, serverBuffer.bytes = <<>> => serverBuffer.read = 0,
           NEW n \in 0 .. Len(serverBuffer.bytes)
    PROVE  SentOf(IF n = 0 THEN serverBuffer ELSE buffer_read_adv(serverBuffer, n),
                  got \o SubSeq(serverBuffer.bytes, 1, n))
<1>. DEFINE b == serverBuffer.bytes
<1>. DEFINE L == Len(serverBuffer.bytes)
<1>1. b \in Seq(Byte) /\ serverBuffer.read \in Nat /\ got \in Seq(Byte)
  BY DEF TypeOK, Queues
<1>2. L \in Nat /\ \A i \in 1 .. L : b[i] \in Byte
  BY <1>1, LenProperties, ElementOfSeq
<1>3. /\ SubSeq(b, 1, n) \in Seq(Byte) /\ Len(SubSeq(b, 1, n)) = n
  <2>1. \A i \in 1 .. n : b[i] \in Byte
    BY <1>2
  <2> QED
    BY <1>2, <2>1, SubSeqProperties
<1>4. /\ SubSeq(b, n + 1, L) \in Seq(Byte) /\ Len(SubSeq(b, n + 1, L)) = L - n
  <2>1. \A i \in n + 1 .. L : b[i] \in Byte
    BY <1>2
  <2>2. Len(SubSeq(b, n + 1, L)) = IF n + 1 <= L THEN L - (n + 1) + 1 ELSE 0
    BY <1>2, <2>1, SubSeqProperties
  <2>3. SubSeq(b, n + 1, L) \in Seq(Byte)
    BY <1>2, <2>1, SubSeqProperties
  <2> QED
    BY <1>2, <2>2, <2>3
<1>5. SubSeq(b, 1, n) \o SubSeq(b, n + 1, L) = b
  <2>1. SubSeq(b, 1, n) \o SubSeq(b, n + 1, L) = SubSeq(b, 1, L)
    <3>1. 1 \in 1 .. Len(b) + 1 /\ n \in 1 - 1 .. Len(b) /\ Len(b) \in n .. Len(b)
      BY <1>2
    <3>2. SubSeq(b, 1, n) \o SubSeq(b, n + 1, Len(b)) = SubSeq(b, 1, Len(b))
      <4>. HIDE DEF b
      <4> QED
        BY <1>1, <3>1, ConcatAdjacentSubSeq
    <3> QED
      BY <3>2
  <2> QED
    BY <1>1, <2>1, SubSeqFull
<1>6. got \o SubSeq(b, 1, n) \in Seq(Byte)
  BY <1>1, <1>3, ConcatProperties
<1>7. CASE n = 0
  <2>1. SubSeq(b, 1, n) = <<>>
    BY <1>7, SubSeqEmpty
  <2>2. got \o SubSeq(b, 1, n) = got
    BY <1>1, <2>1, ConcatEmptySeq
  <2>3. serverBuffer \in Queues(Byte) /\ Written(serverBuffer) \in Nat
    BY <1>1, <1>2 DEF TypeOK, Written
  <2> QED
    BY <1>1, <1>6, <1>7, <2>2, <2>3 DEF SentOf, Sent
<1>8. CASE n # 0
  <2>. DEFINE q == buffer_read_adv(serverBuffer, n)
  <2>1. q.bytes = SubSeq(b, n + 1, L) /\ q.read = IF n = L THEN 0 ELSE serverBuffer.read + n
    BY DEF buffer_read_adv
  <2>2. q \in Queues(Byte)
    BY <1>1, <1>4 DEF buffer_read_adv, Queues
  <2>. HIDE DEF q
  <2>3. Written(q) <= Written(serverBuffer)
    BY <1>1, <1>2, <1>4, <2>1 DEF Written
  <2>4. q.bytes = <<>> => q.read = 0
    <3>1. q.bytes = <<>> => Len(q.bytes) = 0
      OBVIOUS
    <3> QED
      BY <1>2, <1>4, <2>1, <3>1
  <2>5. (got \o SubSeq(b, 1, n)) \o q.bytes = got \o b
    <3>1. (got \o SubSeq(b, 1, n)) \o SubSeq(b, n + 1, L)
          = got \o (SubSeq(b, 1, n) \o SubSeq(b, n + 1, L))
      <4>1. \A s, t, u \in Seq(Byte) : (s \o t) \o u = s \o (t \o u)
        BY ConcatAssociative
      <4>. HIDE DEF b, L
      <4> QED
        BY <1>1, <1>3, <1>4, <4>1
    <3> QED
      BY <1>5, <2>1, <3>1
  <2>6. serverBuffer.bytes # <<>>
    BY <1>8
  <2> QED
    BY <1>6, <1>8, <2>2, <2>3, <2>4, <2>5, <2>6 DEF SentOf, Sent, q
<1> QED
  BY <1>7, <1>8

(* What a write event does, from the sending on.                           *)
NoWait(q)      == \/ serverBuffer.bytes = <<>> /\ q = serverBuffer
                  \/ ~buffer_can_write(q)
Waiting(q, heard) ==
    /\ serverBuffer' = q /\ got' = heard
    /\ UNCHANGED <<stm, file, fileDoneReading, newLine, server, mail, fresh, lost>>
Reading(q, heard) ==
    /\ NoWait(q) /\ ~fileDoneReading /\ Rest # <<>> /\ read_block(q, Rest)
    /\ got' = heard /\ UNCHANGED <<stm, mail, fresh>>
Ending(q, heard) ==
    /\ NoWait(q) /\ ~fileDoneReading /\ Rest = <<>> /\ end_of_file(q)
    /\ got' = heard /\ UNCHANGED <<stm, mail, fresh>>
Finishing(q) == NoWait(q) /\ fileDoneReading /\ Finish(q)

(* Each write event is one of the four.                                    *)
LEMMA WriteStep ==
    ASSUME MailInv, pop3WriteFile
    PROVE  \E q, heard :
              /\ SentOf(q, heard)
              /\ \/ Waiting(q, heard) \/ Reading(q, heard) \/ Ending(q, heard)
                 \/ Finishing(q)
<1>1. PICK n \in 0 .. Len(serverBuffer.bytes) :
         LET q     == IF n = 0 THEN serverBuffer ELSE buffer_read_adv(serverBuffer, n)
             heard == got \o SubSeq(serverBuffer.bytes, 1, n)
             Waits == buffer_can_read(serverBuffer) /\ buffer_can_write(q)
         IN  \/ /\ Waits
                /\ serverBuffer' = q /\ got' = heard
                /\ UNCHANGED <<stm, file, fileDoneReading, newLine, server,
                               mail, fresh, lost>>
             \/ ~Waits /\ ~fileDoneReading /\ pop3ReadFile(q) /\ got' = heard
             \/ ~Waits /\ fileDoneReading /\ Finish(q)
  BY DEF pop3WriteFile
<1>. DEFINE q == IF n = 0 THEN serverBuffer ELSE buffer_read_adv(serverBuffer, n)
<1>. DEFINE heard == got \o SubSeq(serverBuffer.bytes, 1, n)
<1>. DEFINE Waits == buffer_can_read(serverBuffer) /\ buffer_can_write(q)
<1>2. SentOf(q, heard)
  BY Sends DEF MailInv
<1>3. \/ Waiting(q, heard)
      \/ ~Waits /\ ~fileDoneReading /\ pop3ReadFile(q) /\ got' = heard
      \/ ~Waits /\ fileDoneReading /\ Finish(q)
  BY <1>1 DEF Waiting
<1>. HIDE DEF q, heard
<1>4. ~Waits => NoWait(q)
  BY <1>2 DEF buffer_can_read, NoWait, SentOf
<1>5. pop3ReadFile(q) => /\ UNCHANGED <<stm, mail, fresh>>
                         /\ \/ Rest = <<>> /\ end_of_file(q)
                            \/ Rest # <<>> /\ read_block(q, Rest)
  BY DEF pop3ReadFile, Rest
<1>6. Waiting(q, heard) \/ Reading(q, heard) \/ Ending(q, heard) \/ Finishing(q)
  BY <1>3, <1>4, <1>5 DEF Reading, Ending, Finishing
<1> QED
  BY <1>2, <1>6

(* What buffer_write stores is the beginning of what it is given.          *)
LEMMA StoredType ==
    ASSUME NEW q \in Queues(Byte), Fits(q), NEW s \in Seq(Byte)
    PROVE  /\ Stored(q, s) \in Seq(Byte) /\ Len(Stored(q, s)) <= Space(q)
           /\ Len(Stored(q, s)) \in Nat /\ Space(q) \in Nat
           /\ Len(s) <= Space(q) => Stored(q, s) = s
           /\ Stored(q, s) = SubSeq(s, 1, Len(Stored(q, s))) /\ Len(Stored(q, s)) <= Len(s)
<1>1. /\ q.bytes \in Seq(Byte) /\ q.read \in Nat /\ Len(s) \in Nat /\ Len(q.bytes) \in Nat
      /\ \A i \in 1 .. Len(s) : s[i] \in Byte
  BY LenProperties, ElementOfSeq DEF Queues
<1>2. Space(q) \in Nat
  BY <1>1, Sizes DEF Space, Fits, Written
<1>3. CASE Len(s) <= Space(q)
  BY <1>1, <1>2, <1>3, SubSeqFull DEF Stored
<1>4. CASE ~(Len(s) <= Space(q))
  <2>1. \A i \in 1 .. Space(q) : s[i] \in Byte
    BY <1>1, <1>2, <1>4
  <2>2. SubSeq(s, 1, Space(q)) \in Seq(Byte) /\ Len(SubSeq(s, 1, Space(q))) = Space(q)
    BY <1>2, <2>1, SubSeqProperties
  <2> QED
    BY <1>1, <1>2, <1>4, <2>2 DEF Stored
<1> QED
  BY <1>3, <1>4

LEMMA StoredIs ==
    ASSUME NEW q \in Queues(Byte), Fits(q), NEW s \in Seq(Byte)
    PROVE  /\ buffer_write(q, s) \in Queues(Byte) /\ Fits(buffer_write(q, s))
           /\ buffer_write(q, s).read = q.read
           /\ buffer_write(q, s).bytes = q.bytes \o Stored(q, s)
           /\ Written(buffer_write(q, s)) = Written(q) + Len(Stored(q, s))
<1>1. /\ q.bytes \in Seq(Byte) /\ q.read \in Nat /\ Len(q.bytes) \in Nat
  BY LenProperties DEF Queues
<1>2. /\ Stored(q, s) \in Seq(Byte) /\ Len(Stored(q, s)) <= Space(q)
      /\ Len(Stored(q, s)) \in Nat
  BY StoredType
<1>3. q.bytes \o Stored(q, s) \in Seq(Byte)
      /\ Len(q.bytes \o Stored(q, s)) = Len(q.bytes) + Len(Stored(q, s))
  BY <1>1, <1>2, ConcatProperties
<1>4. /\ buffer_write(q, s).bytes = q.bytes \o Stored(q, s)
      /\ buffer_write(q, s).read = q.read /\ buffer_write(q, s) \in Queues(Byte)
  BY <1>1, <1>3 DEF buffer_write, Queues
<1>5. Written(buffer_write(q, s)) = Written(q) + Len(Stored(q, s))
  BY <1>1, <1>2, <1>3, <1>4 DEF Written
<1>6. Fits(buffer_write(q, s))
  BY <1>1, <1>2, <1>5, Sizes DEF Fits, Space, Written
<1> QED
  BY <1>4, <1>5, <1>6

(* What buffer_write_adv puts into the buffer is all there.                *)
LEMMA PutIs ==
    ASSUME NEW q \in Queues(Byte), NEW s \in Seq(Byte)
    PROVE  /\ buffer_write_adv(q, s) \in Queues(Byte)
           /\ buffer_write_adv(q, s).bytes = q.bytes \o s /\ buffer_write_adv(q, s).read = q.read
           /\ Written(buffer_write_adv(q, s)) = Written(q) + Len(s)
           /\ s # <<>> => buffer_write_adv(q, s).bytes # <<>>
<1>1. /\ q.bytes \in Seq(Byte) /\ q.read \in Nat /\ Len(s) \in Nat /\ Len(q.bytes) \in Nat
  BY LenProperties DEF Queues
<1>2. q.bytes \o s \in Seq(Byte) /\ Len(q.bytes \o s) = Len(q.bytes) + Len(s)
  BY <1>1, ConcatProperties
<1>3. /\ buffer_write_adv(q, s).bytes = q.bytes \o s
      /\ buffer_write_adv(q, s).read = q.read /\ buffer_write_adv(q, s) \in Queues(Byte)
  BY <1>1, <1>2 DEF buffer_write_adv, Queues
<1>4. s # <<>> => q.bytes \o s # <<>>
  BY <1>1, ConcatEqualIffEmpty
<1> QED
  BY <1>1, <1>2, <1>3, <1>4 DEF Written

-----------------------------------------------------------------------------
(* -- Types: the buffer is empty in READ, and never full once the file is read -- *)

LEMMA QueueIs ==
    ASSUME NEW q \in Queues(Byte)
    PROVE  /\ q.bytes \in Seq(Byte) /\ Len(q.bytes) \in Nat /\ q.read \in Nat
           /\ Written(q) = q.read + Len(q.bytes) /\ Written(q) \in Nat
           /\ q.bytes = <<>> /\ q.read = 0 => q = Empty
BY LenProperties DEF Queues, Written, Empty

LEMMA EmptyIs == /\ Empty \in Queues(Byte) /\ Empty.bytes = <<>> /\ Empty.read = 0
                 /\ Written(Empty) = 0 /\ Fits(Empty) /\ buffer_can_write(Empty)
BY Sizes DEF Queues, Empty, Written, Fits, buffer_can_write

LEMMA InitInv == Init => MailInv
<1>1. SUFFICES ASSUME Init PROVE MailInv
  OBVIOUS
<1>2. <<>> \in Seq(Byte)
  OBVIOUS
<1>3. TypeOK
  BY <1>1, <1>2, EmptyIs DEF Init, TypeOK
<1> QED
  BY <1>1, <1>3, EmptyIs DEF Init, MailInv

LEMMA RetrInv ==
    ASSUME MailInv, handleRetr
    PROVE  MailInv'
<1>1. /\ serverBuffer = Empty /\ file = NotOpen /\ server = "up" /\ TypeOK /\ got = <<>>
      /\ ~lost
  BY DEF MailInv, handleRetr
<1>2. PICK m \in Mailbox : serverBuffer' = buffer_write_adv(serverBuffer, Header) /\ mail' = m
  BY DEF handleRetr
<1>3. /\ stm' = "WRITE_FILE" /\ fileDoneReading' = FALSE /\ fresh' = newLine
      /\ UNCHANGED <<file, newLine, server, got, lost>>
  BY DEF handleRetr
<1>4. mail' \in Seq(Byte)
  BY <1>2, MailTransferAssumption
<1>5. /\ serverBuffer' \in Queues(Byte) /\ serverBuffer'.bytes # <<>>
      /\ Written(serverBuffer') = 0 + 2
  <2>1. Header \in Seq(Byte) /\ Header # <<>> /\ Len(Header) = 2
    BY Sizes DEF Header
  <2> QED
    BY <1>1, <1>2, <2>1, EmptyIs, PutIs
<1>6. Fits(serverBuffer')
  BY <1>5, Sizes DEF Fits
<1>7. TypeOK'
  BY <1>1, <1>3, <1>4, <1>5, <1>6 DEF TypeOK
<1> QED
  BY <1>1, <1>3, <1>5, <1>7 DEF MailInv

(* The room q leaves, and what it is when nothing waits in the buffer.     *)
LEMMA RoomIs ==
    ASSUME MailInv, server = "up", NEW q, NEW heard, SentOf(q, heard)
    PROVE  /\ Fits(q) /\ q \in Queues(Byte) /\ heard \in Seq(Byte)
           /\ NoWait(q) => q = Empty \/ Space(q) = 0
           /\ buffer_can_write(serverBuffer) => buffer_can_write(q)
<1>1. /\ serverBuffer \in Queues(Byte) /\ Fits(serverBuffer)
      /\ q \in Queues(Byte) /\ heard \in Seq(Byte)
      /\ Written(q) <= Written(serverBuffer)
      /\ serverBuffer.bytes = <<>> => serverBuffer.read = 0
  BY DEF MailInv, TypeOK, SentOf
<1>2. Written(q) \in Nat /\ Written(serverBuffer) \in Nat
  BY <1>1, QueueIs
<1>3. Fits(q) /\ (buffer_can_write(serverBuffer) => buffer_can_write(q))
  BY <1>1, <1>2, Sizes DEF Fits, buffer_can_write
<1>4. ~buffer_can_write(q) => Space(q) = 0
  BY <1>2, <1>3, Sizes DEF Fits, buffer_can_write, Space
<1>5. serverBuffer.bytes = <<>> => serverBuffer = Empty
  BY <1>1, QueueIs
<1> QED
  BY <1>1, <1>3, <1>4, <1>5 DEF NoWait

LEMMA WaitingInv ==
    ASSUME MailInv, pop3WriteFile, NEW q, NEW heard, SentOf(q, heard), Waiting(q, heard)
    PROVE  MailInv'
<1>1. /\ stm = "WRITE_FILE" /\ server = "up"
      /\ UNCHANGED <<stm, file, fileDoneReading, newLine, server, mail, fresh, lost>>
      /\ serverBuffer' = q /\ got' = heard
  BY DEF pop3WriteFile, Waiting
<1>2. /\ Fits(q) /\ q \in Queues(Byte) /\ heard \in Seq(Byte)
      /\ buffer_can_write(serverBuffer) => buffer_can_write(q)
  BY <1>1, RoomIs
<1>3. q.bytes = <<>> => q.read = 0
  BY DEF SentOf
<1>4. TypeOK'
  BY <1>1, <1>2 DEF MailInv, TypeOK
<1> QED
  BY <1>1, <1>2, <1>3, <1>4 DEF MailInv

LEMMA RestType ==
    ASSUME MailInv
    PROVE  Rest \in Seq(Byte)
BY DEF MailInv, TypeOK, Rest

LEMMA ReadingInv ==
    ASSUME MailInv, pop3WriteFile, NEW q, NEW heard, SentOf(q, heard), Reading(q, heard)
    PROVE  /\ MailInv'
           /\ \/ q = Empty
              \/ Space(q) = 0
<1>1. /\ stm = "WRITE_FILE" /\ server = "up" /\ ~fileDoneReading
      /\ UNCHANGED <<stm, mail, fresh>> /\ NoWait(q) /\ got' = heard
  BY DEF pop3WriteFile, Reading
<1>2. /\ Fits(q) /\ q \in Queues(Byte) /\ heard \in Seq(Byte) /\ (q = Empty \/ Space(q) = 0)
  BY <1>1, RoomIs
<1>. DEFINE e == Escaped(Line(First(Rest, BLOCK)), newLine)
<1>3. /\ serverBuffer' = buffer_write(q, e.out) /\ newLine' = e.newLine
      /\ file' = After(Rest, BLOCK) /\ lost' = (lost \/ Len(e.out) > Space(q))
      /\ UNCHANGED <<fileDoneReading, server>>
  BY DEF Reading, read_block
<1>4. First(Rest, BLOCK) \in Seq(Byte) /\ After(Rest, BLOCK) \in Seq(Byte)
  BY RestType, Sizes, BlockIs
<1>5. Line(First(Rest, BLOCK)) \in Seq(Byte) /\ newLine \in BOOLEAN
  BY <1>4, LineType DEF MailInv, TypeOK
<1>6. e \in EscapeState
  BY <1>5, EscapedType
<1>7. e.out \in Seq(Byte) /\ e.newLine \in BOOLEAN
  BY <1>6 DEF EscapeState
<1>. HIDE DEF e
<1>8. /\ serverBuffer' \in Queues(Byte) /\ Fits(serverBuffer') /\ serverBuffer'.read = q.read
      /\ serverBuffer'.bytes = <<>> => q.bytes = <<>>
  <2>1. /\ buffer_write(q, e.out) \in Queues(Byte) /\ Fits(buffer_write(q, e.out))
        /\ buffer_write(q, e.out).read = q.read
    BY <1>2, <1>7, StoredIs
  <2>2. buffer_write(q, e.out).bytes = <<>> => q.bytes = <<>>
    <3>1. buffer_write(q, e.out).bytes = q.bytes \o Stored(q, e.out)
      BY <1>2, <1>7, StoredIs
    <3>2. Stored(q, e.out) \in Seq(Byte) /\ q.bytes \in Seq(Byte)
      BY <1>2, <1>7, StoredType, QueueIs
    <3>3. \A s, t \in Seq(Byte) : s \o t = <<>> => s = <<>>
      BY ConcatEqualIffEmpty
    <3> QED
      BY <3>1, <3>2, <3>3
  <2> QED
    BY <1>3, <2>1, <2>2
<1>9. serverBuffer'.bytes = <<>> => serverBuffer'.read = 0
  BY <1>8 DEF SentOf
<1>10. TypeOK'
  BY <1>1, <1>2, <1>3, <1>4, <1>7, <1>8 DEF MailInv, TypeOK
<1> QED
  BY <1>1, <1>2, <1>3, <1>9, <1>10 DEF MailInv

LEMMA EndingInv ==
    ASSUME MailInv, pop3WriteFile, NEW q, NEW heard, SentOf(q, heard), Ending(q, heard)
    PROVE  MailInv'
<1>1. /\ stm = "WRITE_FILE" /\ server = "up" /\ ~fileDoneReading
      /\ UNCHANGED <<stm, mail, fresh>> /\ NoWait(q) /\ got' = heard
  BY DEF pop3WriteFile, Ending
<1>2. /\ Fits(q) /\ q \in Queues(Byte) /\ heard \in Seq(Byte) /\ (q = Empty \/ Space(q) = 0)
  BY <1>1, RoomIs
<1>. DEFINE b == buffer_write_adv(q, Terminator)
<1>3. /\ serverBuffer' = b /\ server' = IF Fits(b) THEN "up" ELSE "overrun"
      /\ file' = NotOpen /\ fileDoneReading' = TRUE /\ UNCHANGED <<newLine, lost>>
  BY DEF Ending, end_of_file
<1>4. /\ b \in Queues(Byte) /\ Written(b) = Written(q) + 5 /\ b.bytes # <<>>
  <2>1. Terminator \in Seq(Byte) /\ Terminator # <<>> /\ Len(Terminator) = 5
    BY Sizes DEF Terminator
  <2> QED
    BY <1>2, <2>1, PutIs
<1>. HIDE DEF b
<1>5. Fits(b) => buffer_can_write(b)
  <2>1. CASE q = Empty
    BY <1>4, <2>1, EmptyIs, Sizes DEF buffer_can_write
  <2>2. CASE Space(q) = 0
    BY <1>2, <1>4, <2>2, QueueIs, Sizes DEF Space, Fits
  <2> QED
    BY <1>2, <2>1, <2>2
<1>6. TypeOK'
  BY <1>1, <1>2, <1>3, <1>4 DEF MailInv, TypeOK
<1> QED
  BY <1>1, <1>3, <1>4, <1>5, <1>6 DEF MailInv

LEMMA FinishingInv ==
    ASSUME MailInv, pop3WriteFile, NEW q, NEW heard, SentOf(q, heard), Finishing(q)
    PROVE  MailInv' /\ stm' = "READ"
<1>1. /\ stm = "WRITE_FILE" /\ server = "up" /\ fileDoneReading /\ NoWait(q) /\ Finish(q)
  BY DEF pop3WriteFile, Finishing
<1>2. /\ stm' = "READ" /\ serverBuffer' = q /\ mail' = <<>> /\ got' = <<>>
      /\ fresh' = FALSE /\ lost' = FALSE
      /\ UNCHANGED <<file, fileDoneReading, newLine, server>>
  BY <1>1 DEF Finish
<1>3. file = NotOpen /\ buffer_can_write(serverBuffer) /\ TypeOK
  BY <1>1 DEF MailInv
<1>4. q = Empty
  <2>1. buffer_can_write(q)
    BY <1>1, <1>3, RoomIs
  <2>2. q = Empty \/ Space(q) = 0
    BY <1>1, RoomIs
  <2>3. Written(q) \in Nat
    BY QueueIs DEF SentOf
  <2> QED
    BY <2>1, <2>2, <2>3, Sizes DEF buffer_can_write, Space
<1>5. TypeOK'
  <2>1. <<>> \in Seq(Byte)
    OBVIOUS
  <2>2. NotOpen \in Seq(Byte) \cup {NotOpen}
    OBVIOUS
  <2>3. {fileDoneReading, newLine} \subseteq BOOLEAN
    BY <1>3 DEF TypeOK
  <2> QED
    BY <1>1, <1>2, <1>3, <1>4, <2>1, <2>2, <2>3, EmptyIs DEF TypeOK
<1> QED
  BY <1>1, <1>2, <1>3, <1>4, <1>5, EmptyIs DEF MailInv

(* The invariant is inductive: one step for each thing a handler can do.   *)
LEMMA NextInv == MailInv /\ [Next]_vars => MailInv'
<1>1. SUFFICES ASSUME MailInv, [Next]_vars PROVE MailInv'
  OBVIOUS
<1>2. CASE handleRetr
  BY <1>1, <1>2, RetrInv
<1>3. CASE pop3WriteFile
  BY <1>1, <1>3, WriteStep, WaitingInv, ReadingInv, EndingInv, FinishingInv
<1>4. CASE UNCHANGED vars
  BY <1>1, <1>4 DEF MailInv, TypeOK, vars, state, history
<1> QED
  BY <1>1, <1>2, <1>3, <1>4 DEF Next

(* The variables keep their types, and while the process runs the buffer   *)
(* holds no more than its memory (pop3WriteFile, buffer_write_adv), however *)
(* short the sends are.                                                    *)
THEOREM MailTransferTypes == Spec => []TypeOK
<1>1. MailInv => TypeOK
  BY DEF MailInv
<1> QED
  BY <1>1, InitInv, NextInv, PTL DEF Spec

-----------------------------------------------------------------------------
(* -- Where in the mail the reading is -- *)

(* How much of the mail has been read: whole blocks, or all of it.         *)
Read       == Len(mail) - Len(Rest)
AtBlock(P) == \E k \in Nat : P = k * BLOCK
Position ==
    stm = "WRITE_FILE" /\ ~fileDoneReading =>
        /\ Read \in 0 .. Len(mail) /\ Rest = After(mail, Read)
        /\ Rest # <<>> => AtBlock(Read)

(* The lengths and the bytes of what comes after the first P of a mail, block by block. *)
LEMMA AfterIs ==
    ASSUME NEW m \in Seq(Byte), NEW P \in 0 .. Len(m)
    PROVE  /\ Len(m) \in Nat /\ After(m, P) \in Seq(Byte) /\ Len(After(m, P)) = Len(m) - P
           /\ \A i \in 1 .. Len(m) - P : After(m, P)[i] = m[P + i]
<1>1. Len(m) \in Nat
  BY LenProperties
<1>2. P \in Nat /\ P <= Len(m)
  BY <1>1
<1>3. (IF P <= Len(m) THEN P ELSE Len(m)) = P
  BY <1>2
<1> QED
  BY <1>1, <1>2, <1>3, BlockIs

(* Reading goes on where the block before ended.                           *)
LEMMA NextBlock ==
    ASSUME NEW m \in Seq(Byte), NEW P \in 0 .. Len(m), NEW B \in Nat
    PROVE  LET rest == After(m, P)
               k    == IF B <= Len(rest) THEN B ELSE Len(rest) IN
           /\ Len(m) \in Nat /\ k \in 0 .. Len(m) - P /\ P + k \in 0 .. Len(m)
           /\ After(rest, B) = After(m, P + k)
           /\ First(rest, B) \in Seq(Byte) /\ Len(First(rest, B)) = k
           /\ \A i \in 1 .. k : First(rest, B)[i] = m[P + i]
           /\ After(rest, B) # <<>> => k = B
<1>. DEFINE rest == After(m, P)
<1>. DEFINE k == IF B <= Len(rest) THEN B ELSE Len(rest)
<1>1. /\ Len(m) \in Nat /\ rest \in Seq(Byte) /\ Len(rest) = Len(m) - P /\ Len(rest) \in Nat
      /\ \A i \in 1 .. Len(m) - P : rest[i] = m[P + i]
  <2>1. /\ Len(m) \in Nat /\ rest \in Seq(Byte) /\ Len(rest) = Len(m) - P
        /\ \A i \in 1 .. Len(m) - P : rest[i] = m[P + i]
    BY AfterIs
  <2>. HIDE DEF rest
  <2>2. Len(rest) \in Nat
    BY <2>1, LenProperties
  <2> QED
    BY <2>1, <2>2
<1>2. /\ k \in 0 .. Len(rest) /\ First(rest, B) \in Seq(Byte) /\ Len(First(rest, B)) = k
      /\ \A i \in 1 .. k : First(rest, B)[i] = rest[i]
      /\ After(rest, B) \in Seq(Byte) /\ Len(After(rest, B)) = Len(rest) - k
      /\ \A i \in 1 .. Len(rest) - k : After(rest, B)[i] = rest[k + i]
  <2>. HIDE DEF rest
  <2> QED
    BY <1>1, BlockIs
<1>3. After(rest, B) # <<>> => k = B
  <2>1. Len(rest) - k = 0 => After(rest, B) = <<>>
    <3>1. \A s \in Seq(Byte) : Len(s) = 0 => s = <<>>
      BY EmptySeq
    <3>. HIDE DEF rest, k
    <3> QED
      BY <1>2, <3>1
  <2>2. k = B \/ k = Len(rest)
    OBVIOUS
  <2>. HIDE DEF rest, k
  <2> QED
    BY <1>1, <2>1, <2>2
<1>. HIDE DEF rest, k
<1>4. P + k \in 0 .. Len(m) /\ P \in Nat /\ k \in Nat
  BY <1>1, <1>2
<1>5. After(rest, B) = After(m, P + k)
  <2>1. /\ After(m, P + k) \in Seq(Byte) /\ Len(After(m, P + k)) = Len(m) - (P + k)
        /\ \A i \in 1 .. Len(m) - (P + k) : After(m, P + k)[i] = m[P + k + i]
    BY <1>4, AfterIs
  <2>2. Len(After(rest, B)) = Len(After(m, P + k))
    BY <1>1, <1>2, <1>4, <2>1
  <2>3. ASSUME NEW i \in 1 .. Len(After(rest, B))
        PROVE  After(rest, B)[i] = After(m, P + k)[i]
    <3>1. i \in 1 .. Len(rest) - k /\ k + i \in 1 .. Len(m) - P
          /\ i \in 1 .. Len(m) - (P + k) /\ P + (k + i) = P + k + i
      BY <1>1, <1>2, <1>4
    <3> QED
      BY <1>1, <1>2, <2>1, <3>1
  <2> QED
    BY <1>2, <2>1, <2>2, <2>3, SeqEqual
<1>6. \A i \in 1 .. k : First(rest, B)[i] = m[P + i]
  <2>1. \A i \in 1 .. k : i \in 1 .. Len(m) - P
    BY <1>1, <1>2
  <2> QED
    BY <1>1, <1>2, <2>1
<1> QED
  BY <1>1, <1>2, <1>3, <1>4, <1>5, <1>6 DEF k, rest

LEMMA NextMultiple ==
    ASSUME NEW P, AtBlock(P)
    PROVE  AtBlock(P + BLOCK)
<1>1. PICK k \in Nat : P = k * BLOCK
  BY DEF AtBlock
<1>2. k + 1 \in Nat /\ P + BLOCK = (k + 1) * BLOCK
  BY <1>1, Sizes
<1> QED
  BY <1>2 DEF AtBlock

(* The block that a step reads.                                            *)
LEMMA BlockRead ==
    ASSUME MailInv, Position, pop3WriteFile, NEW q, NEW heard, Reading(q, heard)
    PROVE  LET block == First(Rest, BLOCK) IN
           /\ block \in Seq(Byte) /\ Len(block) \in Nat /\ Len(block) > 0
           /\ AtBlock(Read) /\ Read \in Nat /\ Rest = After(mail, Read)
           /\ Read < Len(mail) /\ Len(mail) \in Nat /\ Read + Len(block) <= Len(mail)
           /\ \A i \in 1 .. Len(block) : block[i] = mail[Read + i]
           /\ Read' = Read + Len(block) /\ Position'
<1>. DEFINE block == First(Rest, BLOCK)
<1>1. /\ stm = "WRITE_FILE" /\ ~fileDoneReading /\ Rest # <<>> /\ file' = After(Rest, BLOCK)
      /\ UNCHANGED <<stm, mail, fileDoneReading>>
  BY DEF pop3WriteFile, Reading, read_block
<1>2. /\ Read \in 0 .. Len(mail) /\ Rest = After(mail, Read) /\ AtBlock(Read)
  BY <1>1 DEF Position
<1>3. mail \in Seq(Byte)
  BY DEF MailInv, TypeOK
<1>4. BLOCK \in Nat /\ BLOCK > 0
  BY Sizes
<1>. DEFINE n == IF BLOCK <= Len(Rest) THEN BLOCK ELSE Len(Rest)
<1>5. /\ Len(mail) \in Nat /\ n \in 0 .. Len(mail) - Read /\ Read + n \in 0 .. Len(mail)
      /\ After(Rest, BLOCK) = After(mail, Read + n)
      /\ block \in Seq(Byte) /\ Len(block) = n
      /\ \A i \in 1 .. n : block[i] = mail[Read + i]
      /\ After(Rest, BLOCK) # <<>> => n = BLOCK
  <2>1. LET rest == After(mail, Read)
            k    == IF BLOCK <= Len(rest) THEN BLOCK ELSE Len(rest) IN
        /\ Len(mail) \in Nat /\ k \in 0 .. Len(mail) - Read /\ Read + k \in 0 .. Len(mail)
        /\ After(rest, BLOCK) = After(mail, Read + k)
        /\ First(rest, BLOCK) \in Seq(Byte) /\ Len(First(rest, BLOCK)) = k
        /\ \A i \in 1 .. k : First(rest, BLOCK)[i] = mail[Read + i]
        /\ After(rest, BLOCK) # <<>> => k = BLOCK
    BY <1>2, <1>3, <1>4, NextBlock
  <2> QED
    BY <1>2, <2>1
<1>6. n \in Nat /\ n > 0
  <2>1. Len(Rest) \in Nat /\ Len(Rest) # 0
    <3>1. Rest \in Seq(Byte)
      BY RestType
    <3> QED
      BY <1>1, <3>1, LenProperties, EmptySeq
  <2> QED
    BY <1>4, <2>1
<1>. HIDE DEF n, block
<1>7. Rest' = After(mail, Read + n) /\ Rest' \in Seq(Byte)
  <2>1. After(mail, Read + n) \in Seq(Byte)
    BY <1>3, <1>5, AfterIs
  <2>2. file' # NotOpen
    BY <1>1, <1>5, <2>1, Sizes
  <2> QED
    BY <1>1, <1>5, <2>1, <2>2 DEF Rest
<1>8. Read' = Read + n
  <2>1. Len(After(mail, Read + n)) = Len(mail) - (Read + n)
    BY <1>3, <1>5, AfterIs
  <2>2. Read' = Len(mail) - Len(After(mail, Read + n))
    BY <1>1, <1>7 DEF Read
  <2> QED
    BY <1>2, <1>5, <2>1, <2>2
<1>9. Rest' # <<>> => AtBlock(Read')
  BY <1>2, <1>5, <1>7, <1>8, NextMultiple
<1>10. Position'
  BY <1>1, <1>5, <1>7, <1>8, <1>9 DEF Position, AtBlock
<1> QED
  BY <1>2, <1>5, <1>6, <1>8, <1>10 DEF block

LEMMA RetrPosition ==
    ASSUME MailInv, handleRetr
    PROVE  Position' /\ Read' = 0 /\ Rest' = mail'
<1>1. /\ file' = NotOpen /\ mail' \in Seq(Byte)
  BY RetrInv DEF MailInv, TypeOK, handleRetr
<1>2. Rest' = mail'
  BY <1>1 DEF Rest
<1>3. Read' = 0 /\ Len(mail') \in Nat
  BY <1>1, <1>2, LenProperties DEF Read
<1>4. After(mail', 0) = mail'
  <2>1. CASE 0 < Len(mail')
    BY <1>1, <2>1, SubSeqFull DEF After
  <2>2. CASE ~(0 < Len(mail'))
    BY <1>1, <1>3, <2>2, EmptySeq DEF After
  <2> QED
    BY <2>1, <2>2
<1>5. 0 \in Nat /\ 0 = 0 * BLOCK
  BY Sizes
<1> QED
  BY <1>2, <1>3, <1>4, <1>5 DEF Position, AtBlock

LEMMA NextPosition == MailInv /\ Position /\ [Next]_vars => Position'
<1>1. SUFFICES ASSUME MailInv, Position, [Next]_vars PROVE Position'
  OBVIOUS
<1>2. CASE handleRetr
  BY <1>1, <1>2, RetrPosition
<1>3. CASE pop3WriteFile
  <2>1. PICK q, heard :
          /\ SentOf(q, heard)
          /\ \/ Waiting(q, heard) \/ Reading(q, heard) \/ Ending(q, heard) \/ Finishing(q)
    BY <1>1, <1>3, WriteStep
  <2>2. CASE Waiting(q, heard)
    BY <1>1, <2>2 DEF Waiting, Position, AtBlock, Read, Rest
  <2>3. CASE Reading(q, heard)
    BY <1>1, <1>3, <2>3, BlockRead
  <2>4. CASE Ending(q, heard)
    BY <2>4 DEF Ending, end_of_file, Position
  <2>5. CASE Finishing(q)
    BY <1>1, <1>3, <2>1, <2>5, FinishingInv DEF Position
  <2> QED
    BY <2>1, <2>2, <2>3, <2>4, <2>5
<1>4. CASE UNCHANGED vars
  BY <1>1, <1>4 DEF Position, AtBlock, Read, Rest, vars, state, history
<1> QED
  BY <1>1, <1>2, <1>3, <1>4 DEF Next

LEMMA InitPosition == Init => Position
BY DEF Init, Position

-----------------------------------------------------------------------------
(* -- Nothing is lost of a slim mail -- *)

Grows(s) == {i \in DOMAIN s : s[i] \in {"LF", "DOT"}}

(* What the escaping of one byte adds.                                     *)
Added(e, c) ==
    CASE c = "LF"  -> IF e.last = "CR" THEN <<"LF">> ELSE <<"CR", "LF">>
      [] c = "DOT" -> IF e.newLine THEN <<"DOT", "DOT">> ELSE <<"DOT">>
      [] OTHER     -> <<c>>

LEMMA EscapeAdds ==
    ASSUME NEW e \in EscapeState, NEW c \in Byte
    PROVE  /\ Escape(e, c).out = e.out \o Added(e, c)
           /\ Escape(e, c).newLine <=> c = "LF"
           /\ Escape(e, c).last = c
           /\ Added(e, c) \in Seq(Byte) /\ Len(Added(e, c)) \in 1 .. 2
           /\ c \notin {"LF", "DOT"} => Added(e, c) = <<c>> /\ Len(Added(e, c)) = 1
<1>1. e.out \in Seq(Byte)
  BY DEF EscapeState
<1>2. <<"LF">> \in Seq(Byte) /\ <<"CR", "LF">> \in Seq(Byte) /\ <<c>> \in Seq(Byte)
      /\ <<"DOT", "DOT">> \in Seq(Byte) /\ <<"DOT">> \in Seq(Byte)
  BY DEF Byte
<1>3. CASE c = "LF"
  <2>1. Added(e, c) = IF e.last = "CR" THEN <<"LF">> ELSE <<"CR", "LF">>
    BY <1>3 DEF Added
  <2>2. /\ Escape(e, c).out = e.out \o (IF e.last = "CR" THEN <<"LF">> ELSE <<"CR", "LF">>)
        /\ Escape(e, c).newLine = TRUE /\ Escape(e, c).last = c
    BY <1>3 DEF Escape
  <2>3. Added(e, c) \in Seq(Byte) /\ Len(Added(e, c)) \in 1 .. 2
    BY <1>2, <2>1
  <2> QED
    BY <1>3, <2>1, <2>2, <2>3
<1>4. CASE c = "DOT"
  <2>1. Added(e, c) = IF e.newLine THEN <<"DOT", "DOT">> ELSE <<"DOT">>
    BY <1>4 DEF Added
  <2>2. /\ Escape(e, c).out = e.out \o (IF e.newLine THEN <<"DOT", "DOT">> ELSE <<"DOT">>)
        /\ Escape(e, c).newLine = FALSE /\ Escape(e, c).last = c
    BY <1>4 DEF Escape
  <2>3. Added(e, c) \in Seq(Byte) /\ Len(Added(e, c)) \in 1 .. 2
    BY <1>2, <2>1
  <2> QED
    BY <1>4, <2>1, <2>2, <2>3
<1>5. CASE c # "LF" /\ c # "DOT"
  <2>1. Added(e, c) = <<c>>
    BY <1>5 DEF Added
  <2>2. /\ Escape(e, c).out = Append(e.out, c)
        /\ Escape(e, c).newLine = FALSE /\ Escape(e, c).last = c
    BY <1>5 DEF Escape
  <2>3. Append(e.out, c) = e.out \o <<c>>
    BY <1>1, AppendIsConcat
  <2>4. Added(e, c) \in Seq(Byte) /\ Len(Added(e, c)) = 1
    BY <1>2, <2>1
  <2> QED
    BY <1>5, <2>1, <2>2, <2>3, <2>4
<1> QED
  BY <1>3, <1>4, <1>5

(* Escaping adds at most a byte for every line end and every dot.          *)
LEMMA EscapeGrows ==
    ASSUME NEW line \in Seq(Byte), NEW atStart \in BOOLEAN
    PROVE  /\ Len(Escaped(line, atStart).out) \in Nat
           /\ Len(Escaped(line, atStart).out) <= Len(line) + Cardinality(Grows(line))
<1>. DEFINE N == Len(line)
<1>1. PICK E : EscapeRun(E, line, atStart)
  BY EscapeSteps
<1>2. /\ N \in Nat /\ E[0] = EscapeStart(atStart) /\ Escaped(line, atStart) = E[N]
      /\ \A n \in 0 .. N : E[n] \in EscapeState
      /\ \A n \in 1 .. N : line[n] \in Byte /\ E[n - 1] \in EscapeState
                           /\ E[n] = Escape(E[n - 1], line[n])
  BY <1>1, EscapeRunIs
<1>. HIDE DEF N
<1>. DEFINE G(n) == {i \in 1 .. n : line[i] \in {"LF", "DOT"}}
<1>. DEFINE Q == {n \in 0 .. N : Len(E[n].out) <= n + Cardinality(G(n))}
<1>3. \A n \in 0 .. N : IsFiniteSet(G(n)) /\ Cardinality(G(n)) \in Nat
  <2>. SUFFICES ASSUME NEW n \in 0 .. N
                PROVE  IsFiniteSet(G(n)) /\ Cardinality(G(n)) \in Nat
    OBVIOUS
  <2>1. G(n) \in SUBSET (1 .. n)
    OBVIOUS
  <2>2. IsFiniteSet(1 .. n)
    BY FS_Interval
  <2>. HIDE DEF G
  <2>3. IsFiniteSet(G(n))
    BY <2>1, <2>2, FS_Subset
  <2> QED
    BY <2>3, FS_CardinalityType
<1>4. \A n \in 0 .. N : E[n].out \in Seq(Byte) /\ Len(E[n].out) \in Nat
  BY <1>2, LenProperties DEF EscapeState
<1>5. 0 \in Q
  <2>1. Len(E[0].out) = 0
    BY <1>2 DEF EscapeStart
  <2>2. 0 \in 0 .. N
    BY <1>2
  <2>3. Cardinality(G(0)) \in Nat
    BY <1>3, <2>2
  <2>. HIDE DEF G
  <2> QED
    BY <2>1, <2>2, <2>3
<1>6. ASSUME NEW n \in 1 .. N, n - 1 \in Q
      PROVE  n \in Q
  <2>1. /\ n - 1 \in 0 .. N /\ n \in 0 .. N /\ n \in Nat
        /\ Len(E[n - 1].out) <= (n - 1) + Cardinality(G(n - 1))
    BY <1>2, <1>6
  <2>2. /\ line[n] \in Byte /\ E[n] = Escape(E[n - 1], line[n])
        /\ E[n - 1].out \in Seq(Byte) /\ Len(E[n - 1].out) \in Nat
        /\ E[n - 1] \in EscapeState
        /\ Cardinality(G(n - 1)) \in Nat /\ IsFiniteSet(G(n - 1)) /\ Cardinality(G(n)) \in Nat
    BY <1>2, <1>3, <1>4, <2>1
  <2>5. /\ Len(E[n].out) <= Len(E[n - 1].out) + 2
        /\ line[n] \notin {"LF", "DOT"} => Len(E[n].out) = Len(E[n - 1].out) + 1
    <3>. DEFINE e == E[n - 1]
    <3>. DEFINE c == line[n]
    <3>. DEFINE t == Added(e, c)
    <3>1. /\ e \in EscapeState /\ c \in Byte /\ e.out \in Seq(Byte) /\ Len(e.out) \in Nat
          /\ E[n] = Escape(e, c)
      BY <2>2
    <3>. HIDE DEF e, c
    <3>2. /\ E[n].out = e.out \o t /\ t \in Seq(Byte) /\ Len(t) \in 1 .. 2
          /\ c \notin {"LF", "DOT"} => Len(t) = 1
      BY <3>1, EscapeAdds
    <3>. HIDE DEF t
    <3>3. Len(E[n].out) = Len(e.out) + Len(t)
      BY <3>1, <3>2, ConcatProperties
    <3>4. /\ Len(E[n].out) <= Len(e.out) + 2
          /\ c \notin {"LF", "DOT"} => Len(E[n].out) = Len(e.out) + 1
    <4>1. \A a, b, l \in Nat : b \in 1 .. 2 /\ l = a + b =>
             l <= a + 2 /\ (b = 1 => l = a + 1)
      OBVIOUS
    <4>2. Len(t) \in Nat /\ Len(t) \in 1 .. 2 /\ Len(e.out) \in Nat /\ Len(E[n].out) \in Nat
      BY <3>1, <3>2, <3>3
    <4> QED
      BY <3>2, <3>3, <4>1, <4>2
    <3> QED
      BY <3>4 DEF e, c
  <2>3. CASE line[n] \in {"LF", "DOT"}
    <3>1. G(n) = G(n - 1) \cup {n} /\ n \notin G(n - 1)
      BY <2>1, <2>3
    <3>2. Cardinality(G(n)) = Cardinality(G(n - 1)) + 1
      <4>. HIDE DEF G
      <4> QED
        BY <2>2, <3>1, FS_AddElement
    <3>. HIDE DEF G
    <3> QED
      BY <1>4, <2>1, <2>2, <2>5, <3>2 DEF Q
  <2>4. CASE line[n] \notin {"LF", "DOT"}
    <3>1. G(n) = G(n - 1)
      BY <2>1, <2>4
    <3>. HIDE DEF G
    <3> QED
      BY <1>4, <2>1, <2>2, <2>4, <2>5, <3>1 DEF Q
  <2> QED
    BY <2>3, <2>4
<1>7. N \in Q
  <2>1. \A n \in 0 .. N : n \in Q
    <3>1. Q \in SUBSET (0 .. N)
      OBVIOUS
    <3>. HIDE DEF Q
    <3> QED
      BY <1>2, <1>5, <1>6, <3>1, UpTo
  <2> QED
    BY <1>2, <2>1
<1>8. G(N) = Grows(line)
  BY <1>2 DEF Grows, N
<1> QED
  BY <1>2, <1>4, <1>7, <1>8 DEF N

(* What is escaped of a block ends at its first NUL.                       *)
LEMMA BlockGrows ==
    ASSUME NEW block \in Seq(Byte), NEW atStart \in BOOLEAN
    PROVE  LET out == Escaped(Line(block), atStart).out IN
           /\ out \in Seq(Byte) /\ Len(out) \in Nat
           /\ Len(out) <= Len(block) + Cardinality(Grows(block))
           /\ Cardinality(Grows(block)) \in Nat
<1>. DEFINE line == Line(block)
<1>. DEFINE out == Escaped(line, atStart).out
<1>1. PICK k \in 0 .. Len(block) : line = SubSeq(block, 1, k)
  BY LineIs
<1>2. Len(block) \in Nat /\ DOMAIN block = 1 .. Len(block)
      /\ \A i \in 1 .. Len(block) : block[i] \in Byte
  BY LenProperties, ElementOfSeq
<1>3. line \in Seq(Byte) /\ Len(line) = k /\ \A i \in 1 .. k : line[i] = block[i]
  <2>1. \A i \in 1 .. k : block[i] \in Byte
    BY <1>2
  <2> QED
    BY <1>1, <1>2, <2>1, SubSeqProperties
<1>. HIDE DEF line
<1>4. /\ Len(out) \in Nat /\ Len(out) <= Len(line) + Cardinality(Grows(line))
  BY <1>3, EscapeGrows
<1>5. out \in Seq(Byte)
  BY <1>3, EscapedType DEF EscapeState
<1>. HIDE DEF out
<1>6. Grows(line) \subseteq Grows(block) /\ Grows(block) \subseteq 1 .. Len(block)
  <2>1. DOMAIN line = 1 .. k
    BY <1>3, LenProperties
  <2> QED
    BY <1>2, <1>3, <2>1 DEF Grows
<1>7. IsFiniteSet(Grows(block)) /\ Cardinality(Grows(block)) \in Nat
  <2>1. IsFiniteSet(1 .. Len(block))
    BY <1>2, FS_Interval
  <2>2. IsFiniteSet(Grows(block))
    BY <1>6, <2>1, FS_Subset
  <2> QED
    BY <2>2, FS_CardinalityType
<1>8. Cardinality(Grows(line)) <= Cardinality(Grows(block)) /\ Cardinality(Grows(line)) \in Nat
  BY <1>6, <1>7, FS_Subset, FS_CardinalityType
<1> QED
  BY <1>2, <1>3, <1>4, <1>5, <1>7, <1>8 DEF out, line

(* The block after k whole ones is one of those Slim speaks of.            *)
LEMMA BlockNumber ==
    ASSUME NEW B \in Nat, B > 0, NEW k \in Nat, NEW L \in Nat, k * B <= L
    PROVE  k \in 0 .. L \div B
<1>1. L = B * (L \div B) + (L % B) /\ L % B \in 0 .. B - 1 /\ L \div B \in Nat
  OBVIOUS
<1>2. CASE k <= L \div B
  BY <1>1, <1>2
<1>3. CASE k > L \div B
  <2>. DEFINE d == L \div B
  <2>1. d \in Nat /\ k - d - 1 \in Nat /\ L < B * d + B
    BY <1>1, <1>3
  <2>. HIDE DEF d
  <2>2. k * B = B * d + B + B * (k - d - 1)
    BY <2>1
  <2>3. B * (k - d - 1) \in Nat
    BY <2>1
  <2>4. B * d \in Nat
    BY <2>1
  <2> QED
    BY <2>1, <2>2, <2>3, <2>4
<1> QED
  BY <1>1, <1>2, <1>3

(* Under Slim there is always room left.                                   *)
HasRoom == Slim(mail) => ~lost /\ server = "up" /\ buffer_can_write(serverBuffer)

LEMMA SlimReading ==
    ASSUME MailInv, Position, HasRoom, pop3WriteFile, NEW q, NEW heard,
           SentOf(q, heard), Reading(q, heard)
    PROVE  HasRoom'
<1>. DEFINE block == First(Rest, BLOCK)
<1>. DEFINE out == Escaped(Line(block), newLine).out
<1>1. /\ server = "up" /\ NoWait(q) /\ newLine \in BOOLEAN
      /\ serverBuffer' = buffer_write(q, out) /\ lost' = (lost \/ Len(out) > Space(q))
      /\ UNCHANGED <<mail, server>>
  BY DEF pop3WriteFile, Reading, read_block, MailInv, TypeOK
<1>2. SUFFICES ASSUME Slim(mail)
               PROVE  ~lost' /\ server' = "up" /\ buffer_can_write(serverBuffer')
  BY <1>1 DEF HasRoom, Slim
<1>3. ~lost /\ buffer_can_write(serverBuffer)
  BY <1>2 DEF HasRoom
<1>4. q = Empty
  <2>1. buffer_can_write(q) /\ (q = Empty \/ Space(q) = 0) /\ q \in Queues(Byte)
    BY <1>1, <1>3, RoomIs
  <2> QED
    BY <2>1, QueueIs, Sizes DEF buffer_can_write, Space
<1>5. /\ block \in Seq(Byte) /\ Len(block) \in Nat
      /\ AtBlock(Read) /\ Read \in Nat /\ Rest = After(mail, Read)
      /\ Read < Len(mail) /\ Len(mail) \in Nat
  BY BlockRead
<1>6. PICK k \in Nat : Read = k * BLOCK
  BY <1>5 DEF AtBlock
<1>7. k \in 0 .. Len(mail) \div BLOCK
  <2>1. k * BLOCK <= Len(mail)
    BY <1>5, <1>6
  <2> QED
    BY <1>5, <2>1, Sizes, BlockNumber
<1>8. Len(block) + Cardinality(Grows(block)) < BUFFER_SIZE
  <2>1. block = First(After(mail, k * BLOCK), BLOCK)
    BY <1>5, <1>6
  <2>. HIDE DEF block
  <2> QED
    BY <1>2, <1>7, <2>1 DEF Slim, Grows
<1>9. /\ out \in Seq(Byte) /\ Len(out) \in Nat
      /\ Len(out) <= Len(block) + Cardinality(Grows(block))
      /\ Cardinality(Grows(block)) \in Nat
  <2>. HIDE DEF block
  <2> QED
    BY <1>1, <1>5, BlockGrows
<1>. HIDE DEF out, block
<1>10. Len(out) < BUFFER_SIZE
  BY <1>5, <1>8, <1>9, Sizes
<1>11. Len(out) <= Space(q) /\ Written(q) = 0
  BY <1>4, <1>9, <1>10, EmptyIs, Sizes DEF Space
<1>12. Written(buffer_write(q, out)) = 0 + Len(out)
  BY <1>4, <1>9, <1>11, EmptyIs, StoredIs, StoredType
<1>13. ~(Len(out) > Space(q)) /\ server' = "up"
  BY <1>1, <1>4, <1>9, <1>11, EmptyIs, Sizes DEF Space
<1>14. ~lost'
  <2>1. (lost \/ Len(out) > Space(q)) = FALSE
    BY <1>3, <1>13
  <2> QED
    BY <1>1, <2>1
<1>15. buffer_can_write(serverBuffer')
  BY <1>1, <1>9, <1>10, <1>12, Sizes DEF buffer_can_write
<1> QED
  BY <1>13, <1>14, <1>15

LEMMA SlimEnding ==
    ASSUME MailInv, HasRoom, pop3WriteFile, NEW q, NEW heard,
           SentOf(q, heard), Ending(q, heard)
    PROVE  HasRoom'
<1>1. /\ server = "up" /\ NoWait(q) /\ UNCHANGED <<mail, lost>>
      /\ serverBuffer' = buffer_write_adv(q, Terminator)
      /\ server' = IF Fits(buffer_write_adv(q, Terminator)) THEN "up" ELSE "overrun"
  BY DEF pop3WriteFile, Ending, end_of_file
<1>2. SUFFICES ASSUME Slim(mail)
               PROVE  ~lost' /\ server' = "up" /\ buffer_can_write(serverBuffer')
  BY <1>1 DEF HasRoom, Slim
<1>3. ~lost /\ buffer_can_write(serverBuffer)
  BY <1>2 DEF HasRoom
<1>4. q = Empty
  <2>1. buffer_can_write(q) /\ (q = Empty \/ Space(q) = 0) /\ q \in Queues(Byte)
    BY <1>1, <1>3, RoomIs
  <2> QED
    BY <2>1, QueueIs, Sizes DEF buffer_can_write, Space
<1>5. Written(serverBuffer') = 0 + 5
  BY <1>1, <1>4, EmptyIs, Sizes, PutIs
<1> QED
  BY <1>1, <1>3, <1>5, Sizes DEF Fits, buffer_can_write

LEMMA NextHasRoom == MailInv /\ Position /\ HasRoom /\ [Next]_vars => HasRoom'
<1>1. SUFFICES ASSUME MailInv, Position, HasRoom, [Next]_vars PROVE HasRoom'
  OBVIOUS
<1>2. CASE handleRetr
  <2>1. serverBuffer = Empty /\ server' = "up" /\ ~lost'
    BY <1>1, <1>2 DEF MailInv, handleRetr
  <2>2. serverBuffer' = buffer_write_adv(Empty, Header)
    BY <1>2, <2>1 DEF handleRetr
  <2>3. Written(serverBuffer') = 0 + 2
    BY <2>2, EmptyIs, PutIs, Sizes
  <2> QED
    BY <2>1, <2>3, Sizes DEF HasRoom, buffer_can_write
<1>3. CASE pop3WriteFile
  <2>1. PICK q, heard :
          /\ SentOf(q, heard)
          /\ \/ Waiting(q, heard) \/ Reading(q, heard) \/ Ending(q, heard) \/ Finishing(q)
    BY <1>1, <1>3, WriteStep
  <2>2. CASE Waiting(q, heard)
    <3>1. server = "up" /\ serverBuffer' = q /\ UNCHANGED <<mail, lost, server>>
      BY <1>3, <2>2 DEF pop3WriteFile, Waiting
    <3>2. buffer_can_write(serverBuffer) => buffer_can_write(q)
      BY <1>1, <2>1, <3>1, RoomIs
    <3> QED
      BY <1>1, <3>1, <3>2 DEF HasRoom, Slim
  <2>3. CASE Reading(q, heard)
    BY <1>1, <1>3, <2>1, <2>3, SlimReading
  <2>4. CASE Ending(q, heard)
    BY <1>1, <1>3, <2>1, <2>4, SlimEnding
  <2>5. CASE Finishing(q)
    <3>1. MailInv' /\ stm' = "READ"
      BY <1>1, <1>3, <2>1, <2>5, FinishingInv
    <3> QED
      BY <3>1, EmptyIs DEF MailInv, HasRoom
  <2> QED
    BY <2>1, <2>2, <2>3, <2>4, <2>5
<1>4. CASE UNCHANGED vars
  BY <1>1, <1>4 DEF HasRoom, Slim, vars, state, history
<1> QED
  BY <1>1, <1>2, <1>3, <1>4 DEF Next

LEMMA InitHasRoom == Init => HasRoom
BY EmptyIs DEF Init, HasRoom

(* Only a mail with a block that may fill the buffer once it is escaped    *)
(* loses bytes or runs into the assertion of buffer_write_adv: for every other, *)
(* a step finds the buffer empty or waits (pop3ReadFile, buffer.c).        *)
THEOREM SlimMailsSafe == Spec => []SlimMailsAreSafe
<1>1. HasRoom => SlimMailsAreSafe
  BY DEF HasRoom, SlimMailsAreSafe
<1>2. Init => MailInv /\ Position /\ HasRoom
  BY InitInv, InitPosition, InitHasRoom
<1>3. MailInv /\ Position /\ HasRoom /\ [Next]_vars => (MailInv /\ Position /\ HasRoom)'
  BY NextInv, NextPosition, NextHasRoom
<1> QED
  BY <1>1, <1>2, <1>3, PTL DEF Spec

-----------------------------------------------------------------------------
(* -- The dots that begin a line -- *)

LEMMA ConcatThree == \A x, y, z \in Seq(Byte) : (x \o y) \o z = x \o (y \o z)
BY ConcatAssociative

LEMMA OneOrTwo ==
    ASSUME NEW L \in Nat, NEW l, l = 1 \/ l = 2
    PROVE  /\ L + 1 \in 1 .. L + l /\ ~(L + 1 <= L) /\ L + 1 - L = 1
           /\ l = 2 => L + 2 \in 1 .. L + l /\ ~(L + 2 <= L) /\ L + 2 - L = 2
           /\ \A i \in 1 .. L : i \in 1 .. L + l /\ i <= L
           /\ \A i \in 1 .. L + l - 1 :
                 \/ i \in 1 .. L - 1
                 \/ i = L
                 \/ i = L + 1 /\ i + 1 = L + 2 /\ l = 2
<1>1. CASE l = 1
  BY <1>1
<1>2. CASE l = 2
  BY <1>2
<1> QED
  BY <1>1, <1>2

Doubled(s) == \A i \in 1 .. Len(s) - 1 :
                 s[i] = "LF" /\ s[i + 1] = "DOT" => i + 2 <= Len(s) /\ s[i + 2] = "DOT"
EndsLine(s) == s # <<>> /\ s[Len(s)] = "LF"

(* What one byte adds keeps it so: a dot after a LF comes with its twin.   *)
LEMMA DoubledPiece ==
    ASSUME NEW s \in Seq(Byte), NEW e \in EscapeState, NEW c \in Byte,
           Doubled(s), EndsLine(s) /\ c = "DOT" => e.newLine
    PROVE  /\ Doubled(s \o Added(e, c))
           /\ EndsLine(s \o Added(e, c)) => c = "LF"
<1>. DEFINE t == Added(e, c)
<1>. DEFINE L == Len(s)
<1>1. /\ t \in Seq(Byte) /\ Len(t) \in 1 .. 2
      /\ c \notin {"LF", "DOT"} => t = <<c>> /\ Len(t) = 1
  BY EscapeAdds
<1>2. /\ c = "LF"  => t = <<"LF">> \/ t = <<"CR", "LF">>
      /\ c = "DOT" => t = <<"DOT", "DOT">> \/ (t = <<"DOT">> /\ ~EndsLine(s))
  BY DEF Added
<1>3. /\ t[1] = "DOT" => (Len(t) = 2 /\ t[2] = "DOT") \/ (~EndsLine(s) /\ Len(t) = 1)
      /\ Len(t) = 2 => ~(t[1] = "LF" /\ t[2] = "DOT")
      /\ t[Len(t)] = "LF" => c = "LF"
  <2>1. CASE c = "LF"
    <3>1. t[1] = "LF" \/ (t[1] = "CR" /\ t[2] = "LF")
      BY <1>2, <2>1
    <3>2. t[1] # "DOT" /\ ~(t[1] = "LF" /\ t[2] = "DOT" /\ Len(t) = 2)
      BY <1>2, <2>1
    <3> QED
      BY <2>1, <3>2
  <2>2. CASE c = "DOT"
    <3>1. CASE t = <<"DOT", "DOT">>
      <4>1. t[1] = "DOT" /\ t[2] = "DOT" /\ Len(t) = 2
        BY <3>1
      <4> QED
        BY <4>1
    <3>2. CASE t = <<"DOT">> /\ ~EndsLine(s)
      <4>1. t[1] = "DOT" /\ Len(t) = 1 /\ ~EndsLine(s)
        BY <3>2
      <4> QED
        BY <4>1
    <3> QED
      BY <1>2, <2>2, <3>1, <3>2
  <2>3. CASE c \notin {"LF", "DOT"}
    <3>1. t[1] = c /\ Len(t) = 1
      BY <1>1, <2>3
    <3> QED
      BY <2>3, <3>1
  <2> QED
    BY <2>1, <2>2, <2>3
<1>. HIDE DEF t
<1>4. /\ L \in Nat /\ s \o t \in Seq(Byte) /\ Len(s \o t) = L + Len(t)
      /\ Len(t) = 1 \/ Len(t) = 2
      /\ \A i \in 1 .. L : (s \o t)[i] = s[i]
      /\ (s \o t)[L + 1] = t[1] /\ (Len(t) = 2 => (s \o t)[L + 2] = t[2])
  <2>1. /\ L \in Nat /\ Len(t) \in Nat /\ s \o t \in Seq(Byte) /\ Len(s \o t) = L + Len(t)
        /\ \A i \in 1 .. L + Len(t) : (s \o t)[i] = IF i <= L THEN s[i] ELSE t[i - L]
    BY <1>1, LenProperties, ConcatProperties
  <2>2. Len(t) = 1 \/ Len(t) = 2
    BY <1>1
  <2>. HIDE DEF L
  <2>3. /\ L + 1 \in 1 .. L + Len(t) /\ ~(L + 1 <= L) /\ L + 1 - L = 1
        /\ Len(t) = 2 => L + 2 \in 1 .. L + Len(t) /\ ~(L + 2 <= L) /\ L + 2 - L = 2
        /\ \A i \in 1 .. L : i \in 1 .. L + Len(t) /\ i <= L
    BY <2>1, <2>2, OneOrTwo
  <2>4. (s \o t)[L + 1] = t[1]
    BY <2>1, <2>3
  <2>5. Len(t) = 2 => (s \o t)[L + 2] = t[2]
    BY <2>1, <2>3
  <2>6. \A i \in 1 .. L : (s \o t)[i] = s[i]
    BY <2>1, <2>3
  <2> QED
    BY <2>1, <2>2, <2>4, <2>5, <2>6
<1>5. EndsLine(s) <=> L > 0 /\ s[L] = "LF"
  BY EmptySeq, LenProperties DEF EndsLine
<1>. DEFINE u == s \o t
<1>6. \A i \in 1 .. L - 1 : s[i] = "LF" /\ s[i + 1] = "DOT" => i + 2 <= L /\ s[i + 2] = "DOT"
  BY DEF Doubled
<1>. HIDE DEF L, u
<1>7. ASSUME NEW i \in 1 .. Len(u) - 1, u[i] = "LF", u[i + 1] = "DOT"
      PROVE  i + 2 <= Len(u) /\ u[i + 2] = "DOT"
  <2>0. \/ i \in 1 .. L - 1
        \/ i = L
        \/ i = L + 1 /\ i + 1 = L + 2 /\ Len(t) = 2
    <3>1. i \in 1 .. L + Len(t) - 1
      BY <1>4 DEF u
    <3> QED
      BY <1>4, <3>1, OneOrTwo
  <2>1. CASE i \in 1 .. L - 1
    <3>1. i \in 1 .. L /\ i + 1 \in 1 .. L
      BY <1>4, <2>1
    <3>2. s[i] = "LF" /\ s[i + 1] = "DOT"
      BY <1>4, <1>7, <3>1 DEF u
    <3>3. i + 2 <= L /\ s[i + 2] = "DOT"
      BY <1>6, <2>1, <3>2
    <3>4. i + 2 \in 1 .. L
      BY <1>4, <3>1, <3>3
    <3>5. i + 2 <= L + Len(t)
      BY <1>4, <3>1, <3>3
    <3> QED
      BY <1>4, <3>3, <3>4, <3>5 DEF u
  <2>2. CASE i = L
    <3>1. L \in 1 .. L /\ L > 0 /\ s[L] = "LF" /\ t[1] = "DOT"
      BY <1>4, <1>7, <2>2 DEF u
    <3>2. Len(t) = 2 /\ t[2] = "DOT"
      BY <1>3, <1>5, <3>1
    <3> QED
      BY <1>4, <2>2, <3>2 DEF u
  <2>3. CASE i = L + 1 /\ i + 1 = L + 2 /\ Len(t) = 2
    BY <1>3, <1>4, <1>7, <2>3 DEF u
  <2> QED
    BY <2>0, <2>1, <2>2, <2>3
<1>8. EndsLine(u) => c = "LF"
  <2>1. u[Len(u)] = t[Len(t)]
    BY <1>4 DEF u
  <2> QED
    BY <1>3, <2>1 DEF EndsLine
<1> QED
  BY <1>7, <1>8 DEF Doubled, u, t

(* What is escaped goes on after base.                                     *)
LEMMA DoubledLine ==
    ASSUME NEW base \in Seq(Byte), NEW line \in Seq(Byte), NEW atStart \in BOOLEAN,
           Doubled(base),
           EndsLine(base) => atStart \/ (Len(line) > 0 /\ line[1] # "DOT")
    PROVE  /\ Doubled(base \o Escaped(line, atStart).out)
           /\ EndsLine(base \o Escaped(line, atStart).out) => Escaped(line, atStart).newLine
<1>. DEFINE N == Len(line)
<1>1. PICK E : EscapeRun(E, line, atStart)
  BY EscapeSteps
<1>2. /\ N \in Nat /\ E[0] = EscapeStart(atStart) /\ Escaped(line, atStart) = E[N]
      /\ \A n \in 0 .. N : E[n] \in EscapeState
      /\ \A n \in 1 .. N : line[n] \in Byte /\ E[n - 1] \in EscapeState
                           /\ E[n] = Escape(E[n - 1], line[n])
  BY <1>1, EscapeRunIs
<1>. DEFINE OK(n) == /\ Doubled(base \o E[n].out)
                     /\ EndsLine(base \o E[n].out) =>
                           E[n].newLine \/ (n = 0 /\ Len(line) > 0 /\ line[1] # "DOT")
<1>. DEFINE Q == {n \in 0 .. N : OK(n)}
<1>3. 0 \in Q
  <2>1. E[0].out = <<>> /\ E[0].newLine = atStart
    BY <1>2 DEF EscapeStart
  <2>2. base \o E[0].out = base
    BY <2>1, ConcatEmptySeq
  <2>3. OK(0) /\ 0 \in 0 .. N
    BY <1>2, <2>1, <2>2
  <2>. HIDE DEF OK
  <2> QED
    BY <2>3
<1>4. ASSUME NEW n \in 1 .. N, n - 1 \in Q
      PROVE  n \in Q
  <2>. DEFINE e == E[n - 1]
  <2>. DEFINE c == line[n]
  <2>1. /\ OK(n - 1) /\ n \in 0 .. N /\ n \in Nat /\ n # 0 /\ n > 0
        /\ e \in EscapeState /\ c \in Byte /\ E[n] = Escape(e, c)
    BY <1>2, <1>4
  <2>. DEFINE s == base \o e.out
  <2>2. e.out \in Seq(Byte) /\ s \in Seq(Byte)
    <3>1. e.out \in Seq(Byte)
      BY <2>1 DEF EscapeState
    <3>. HIDE DEF e
    <3> QED
      BY <3>1, ConcatProperties
  <2>3. Doubled(s) /\ (EndsLine(s) /\ c = "DOT" => e.newLine)
    <3>1. n - 1 = 0 => c = line[1]
      BY <2>1
    <3> QED
      BY <2>1, <3>1
  <2>. HIDE DEF e, c, s, OK
  <2>4. /\ Doubled(s \o Added(e, c)) /\ (EndsLine(s \o Added(e, c)) => c = "LF")
    BY <2>1, <2>2, <2>3, DoubledPiece
  <2>5. /\ E[n].out = e.out \o Added(e, c) /\ (E[n].newLine <=> c = "LF")
        /\ Added(e, c) \in Seq(Byte)
    BY <2>1, EscapeAdds
  <2>6. base \o E[n].out = s \o Added(e, c)
    <3>. DEFINE x == e.out
    <3>. DEFINE z == Added(e, c)
    <3>1. x \in Seq(Byte) /\ z \in Seq(Byte) /\ E[n].out = x \o z /\ s = base \o x
      BY <2>2, <2>5 DEF s
    <3>. HIDE DEF x, z
    <3>2. (base \o x) \o z = base \o (x \o z)
      BY <3>1, ConcatThree
    <3>3. base \o E[n].out = s \o z
      BY <3>1, <3>2
    <3> QED
      BY <3>3 DEF z
  <2>7. OK(n)
    BY <2>4, <2>5, <2>6 DEF OK
  <2> QED
    BY <2>1, <2>7
<1>5. N \in Q
  <2>1. \A n \in 0 .. N : n \in Q
    <3>1. Q \in SUBSET (0 .. N)
      OBVIOUS
    <3>. HIDE DEF Q, N
    <3> QED
      BY <1>2, <1>3, <1>4, <3>1, UpTo
  <2> QED
    BY <1>2, <2>1
<1>6. OK(N)
  BY <1>5
<1>7. ~(N = 0 /\ Len(line) > 0)
  BY <1>2
<1> QED
  BY <1>2, <1>6, <1>7

-----------------------------------------------------------------------------
(* -- The end of the mail -- *)

LEMMA SentType ==
    ASSUME MailInv
    PROVE  Sent \in Seq(Byte)
<1>1. got \in Seq(Byte) /\ serverBuffer.bytes \in Seq(Byte)
  BY QueueIs DEF MailInv, TypeOK
<1> QED
  BY <1>1, ConcatProperties DEF Sent

LEMMA RetrSends ==
    ASSUME MailInv, handleRetr
    PROVE  Sent' = Header
<1>1. /\ got' = <<>> /\ serverBuffer' = buffer_write_adv(Empty, Header)
  BY DEF MailInv, handleRetr
<1>2. serverBuffer'.bytes = <<>> \o Header
  BY <1>1, EmptyIs, PutIs, Sizes
<1>3. <<>> \o Header = Header
  BY Sizes, ConcatEmptySeq
<1>4. Sent' = <<>> \o Header
  BY <1>1, <1>2, <1>3 DEF Sent
<1> QED
  BY <1>3, <1>4

LEMMA WaitingSends ==
    ASSUME NEW q, NEW heard, SentOf(q, heard), Waiting(q, heard)
    PROVE  Sent' = Sent
BY DEF SentOf, Waiting, Sent

(* What is appended to the buffer is appended to what was sent.            *)
LEMMA SentGoesOn ==
    ASSUME NEW q, NEW heard, SentOf(q, heard), NEW s \in Seq(Byte),
           serverBuffer'.bytes = q.bytes \o s, got' = heard
    PROVE  Sent' = Sent \o s
<1>1. q.bytes \in Seq(Byte) /\ heard \in Seq(Byte) /\ heard \o q.bytes = Sent
  BY QueueIs DEF SentOf
<1>2. (heard \o q.bytes) \o s = heard \o (q.bytes \o s)
  BY <1>1, ConcatThree
<1>3. Sent' = heard \o (q.bytes \o s)
  BY DEF Sent
<1> QED
  BY <1>1, <1>2, <1>3

(* A block that finds room adds all of its escaping to what was sent.      *)
LEMMA ReadingSends ==
    ASSUME MailInv, pop3WriteFile, NEW q, NEW heard, SentOf(q, heard), Reading(q, heard),
           ~lost'
    PROVE  LET e == Escaped(Line(First(Rest, BLOCK)), newLine) IN
           /\ ~lost /\ Sent' = Sent \o e.out /\ newLine' = e.newLine
           /\ e \in EscapeState
           /\ First(Rest, BLOCK) \in Seq(Byte) /\ Line(First(Rest, BLOCK)) \in Seq(Byte)
           /\ newLine \in BOOLEAN
<1>. DEFINE e == Escaped(Line(First(Rest, BLOCK)), newLine)
<1>1. /\ server = "up" /\ got' = heard
      /\ serverBuffer' = buffer_write(q, e.out) /\ newLine' = e.newLine
      /\ lost' = (lost \/ Len(e.out) > Space(q))
  BY DEF pop3WriteFile, Reading, read_block
<1>2. First(Rest, BLOCK) \in Seq(Byte)
  BY RestType, Sizes, BlockIs
<1>3. Line(First(Rest, BLOCK)) \in Seq(Byte) /\ newLine \in BOOLEAN
  BY <1>2, LineType DEF MailInv, TypeOK
<1>4. e \in EscapeState
  BY <1>3, EscapedType
<1>. HIDE DEF e
<1>5. e.out \in Seq(Byte) /\ Len(e.out) \in Nat
  BY <1>4, LenProperties DEF EscapeState
<1>6. ~(lost \/ Len(e.out) > Space(q))
  BY <1>1
<1>7. Fits(q) /\ q \in Queues(Byte)
  BY <1>1, RoomIs
<1>8. serverBuffer'.bytes = q.bytes \o e.out
  <2>1. Space(q) \in Nat /\ (Len(e.out) <= Space(q) => Stored(q, e.out) = e.out)
    BY <1>5, <1>7, StoredType
  <2>2. Len(e.out) <= Space(q)
    BY <1>5, <1>6, <2>1
  <2>3. buffer_write(q, e.out).bytes = q.bytes \o Stored(q, e.out)
    BY <1>5, <1>7, StoredIs
  <2> QED
    BY <1>1, <2>1, <2>2, <2>3
<1>9. Sent' = Sent \o e.out
  BY <1>1, <1>5, <1>8, SentGoesOn
<1> QED
  BY <1>1, <1>2, <1>3, <1>4, <1>6, <1>9 DEF e

LEMMA EndingSends ==
    ASSUME NEW q, NEW heard, SentOf(q, heard), Ending(q, heard)
    PROVE  Sent' = Sent \o Terminator /\ fileDoneReading' /\ UNCHANGED <<mail, fresh, lost>>
<1>1. /\ serverBuffer' = buffer_write_adv(q, Terminator) /\ got' = heard
      /\ fileDoneReading' = TRUE /\ UNCHANGED <<mail, fresh, lost>>
  BY DEF Ending, end_of_file
<1>2. q \in Queues(Byte)
  BY DEF SentOf
<1>3. serverBuffer'.bytes = q.bytes \o Terminator
  BY <1>1, <1>2, PutIs, Sizes
<1> QED
  BY <1>1, <1>3, SentGoesOn, Sizes

(* No dot of the mail begins a line alone; and the next one will not.      *)
NextIsNoDot == newLine \/ (Read = 0 /\ (mail = <<>> \/ mail[1] \notin {"DOT", "NUL"}))
DotsDoubled ==
    stm = "WRITE_FILE" /\ ~lost /\ StartsRight =>
        /\ ~fileDoneReading => Doubled(Sent) /\ (EndsLine(Sent) => NextIsNoDot)
        /\ fileDoneReading =>
              \E body \in Seq(Byte) : Doubled(body) /\ Sent = body \o Terminator

LEMMA HeaderDoubled == Doubled(Header)
<1>1. Len(Header) = 2 /\ Header[1] = "CR"
  BY DEF Header
<1>2. \A i \in 1 .. 1 : i = 1
  OBVIOUS
<1> QED
  BY <1>1, <1>2 DEF Doubled

LEMMA RetrDoubled ==
    ASSUME MailInv, handleRetr
    PROVE  DotsDoubled'
<1>1. Sent' = Header /\ Read' = 0 /\ ~fileDoneReading' /\ fresh' = newLine /\ newLine' = newLine
  BY RetrSends, RetrPosition DEF handleRetr
<1>2. Doubled(Sent')
  BY <1>1, HeaderDoubled
<1>3. StartsRight' => newLine' \/ mail' = <<>> \/ mail'[1] \notin {"DOT", "NUL"}
  BY <1>1 DEF StartsRight
<1>4. StartsRight' => NextIsNoDot'
  BY <1>1, <1>3 DEF NextIsNoDot
<1> QED
  BY <1>1, <1>2, <1>4 DEF DotsDoubled, Doubled, EndsLine

LEMMA EmptyLine ==
    ASSUME NEW atStart \in BOOLEAN, NEW line \in Seq(Byte), Len(line) = 0
    PROVE  Escaped(line, atStart).out = <<>> /\ Escaped(line, atStart).newLine = atStart
<1>1. PICK E : EscapeRun(E, line, atStart)
  BY EscapeSteps
<1>2. E[0] = EscapeStart(atStart) /\ Escaped(line, atStart) = E[0]
  BY <1>1, EscapeRunIs
<1> QED
  BY <1>2 DEF EscapeStart

(* A block that begins with a NUL adds nothing, which leaves newLine as it *)
(* was; that is why StartsRight speaks of NUL.                             *)
LEMMA ReadingDoubled ==
    ASSUME MailInv, Position, DotsDoubled, pop3WriteFile, NEW q, NEW heard,
           SentOf(q, heard), Reading(q, heard)
    PROVE  DotsDoubled'
<1>1. /\ stm = "WRITE_FILE" /\ ~fileDoneReading
      /\ UNCHANGED <<stm, mail, fresh, fileDoneReading>>
  BY DEF pop3WriteFile, Reading, read_block
<1>2. SUFFICES ASSUME ~lost', StartsRight
               PROVE  Doubled(Sent') /\ (EndsLine(Sent') => newLine')
  BY <1>1 DEF DotsDoubled, NextIsNoDot, StartsRight, Doubled, EndsLine
<1>. DEFINE block == First(Rest, BLOCK)
<1>. DEFINE line == Line(block)
<1>. DEFINE e == Escaped(line, newLine)
<1>3. /\ ~lost /\ Sent' = Sent \o e.out /\ newLine' = e.newLine
      /\ e \in EscapeState /\ block \in Seq(Byte) /\ line \in Seq(Byte) /\ newLine \in BOOLEAN
  BY <1>2, ReadingSends
<1>4. Doubled(Sent) /\ (EndsLine(Sent) => NextIsNoDot) /\ Sent \in Seq(Byte)
  BY <1>1, <1>2, <1>3, SentType DEF DotsDoubled
<1>5. /\ Len(block) \in Nat /\ Len(block) > 0
      /\ Read < Len(mail) /\ Len(mail) \in Nat /\ Read \in Nat
      /\ \A i \in 1 .. Len(block) : block[i] = mail[Read + i]
  BY BlockRead
<1>. HIDE DEF block
<1>6. ASSUME Read = 0, mail = <<>> \/ mail[1] \notin {"DOT", "NUL"}
      PROVE  Len(line) > 0 /\ line[1] # "DOT"
  <2>1. mail # <<>>
    <3>1. mail = <<>> => Len(mail) = 0
      OBVIOUS
    <3> QED
      BY <1>5, <1>6, <3>1
  <2>2. block[1] = mail[1]
    <3>1. 1 \in 1 .. Len(block) /\ Read + 1 = 1
      BY <1>5, <1>6
    <3> QED
      BY <1>5, <3>1
  <2>3. block[1] \notin {"DOT", "NUL"}
    BY <1>6, <2>1, <2>2
  <2>4. PICK k \in 0 .. Len(block) :
              /\ line = SubSeq(block, 1, k)
              /\ k < Len(block) => block[k + 1] = "NUL"
    BY <1>3, LineIs
  <2>5. k > 0
    <3>1. k = 0 => block[1] = "NUL"
      <4>1. k = 0 => k < Len(block) /\ k + 1 = 1
        BY <1>5
      <4> QED
        BY <2>4, <4>1
    <3> QED
      BY <1>5, <2>3, <3>1
  <2>6. Len(line) = k /\ line[1] = block[1]
    <3>1. \A i \in 1 .. k : block[i] \in Byte
      BY <1>3, <1>5, ElementOfSeq
    <3>. HIDE DEF line
    <3>2. Len(SubSeq(block, 1, k)) = (IF 1 <= k THEN k - 1 + 1 ELSE 0)
          /\ \A i \in 1 .. k - 1 + 1 : SubSeq(block, 1, k)[i] = block[1 + i - 1]
      BY <1>5, <3>1, SubSeqProperties
    <3>3. 1 \in 1 .. k - 1 + 1 /\ 1 + 1 - 1 = 1 /\ 1 <= k /\ k - 1 + 1 = k
      BY <1>5, <2>5
    <3> QED
      BY <2>4, <3>2, <3>3
  <2> QED
    BY <1>5, <2>3, <2>5, <2>6
<1>. HIDE DEF line
<1>7. EndsLine(Sent) => newLine \/ (Len(line) > 0 /\ line[1] # "DOT")
  BY <1>4, <1>6 DEF NextIsNoDot
<1>8. Doubled(Sent \o e.out) /\ (EndsLine(Sent \o e.out) => e.newLine)
  BY <1>3, <1>4, <1>7, DoubledLine
<1> QED
  BY <1>3, <1>8

LEMMA NextDoubled == MailInv /\ Position /\ DotsDoubled /\ [Next]_vars => DotsDoubled'
<1>1. SUFFICES ASSUME MailInv, Position, DotsDoubled, [Next]_vars PROVE DotsDoubled'
  OBVIOUS
<1>2. CASE handleRetr
  BY <1>1, <1>2, RetrDoubled
<1>3. CASE pop3WriteFile
  <2>1. PICK q, heard :
          /\ SentOf(q, heard)
          /\ \/ Waiting(q, heard) \/ Reading(q, heard) \/ Ending(q, heard) \/ Finishing(q)
    BY <1>1, <1>3, WriteStep
  <2>2. CASE Waiting(q, heard)
    <3>1. Sent' = Sent /\ UNCHANGED <<stm, file, fileDoneReading, newLine, mail, fresh, lost>>
      BY <2>1, <2>2, WaitingSends DEF Waiting
    <3> QED
      BY <1>1, <3>1 DEF DotsDoubled, NextIsNoDot, StartsRight, Doubled, EndsLine, Read, Rest
  <2>3. CASE Reading(q, heard)
    BY <1>1, <1>3, <2>1, <2>3, ReadingDoubled
  <2>4. CASE Ending(q, heard)
    <3>1. /\ Sent' = Sent \o Terminator /\ fileDoneReading' /\ UNCHANGED <<mail, fresh, lost>>
          /\ stm = "WRITE_FILE" /\ ~fileDoneReading
      BY <1>3, <2>1, <2>4, EndingSends DEF pop3WriteFile, Ending
    <3>2. Sent \in Seq(Byte)
      BY <1>1, SentType
    <3> QED
      BY <1>1, <3>1, <3>2 DEF DotsDoubled, StartsRight
  <2>5. CASE Finishing(q)
    BY <1>1, <1>3, <2>1, <2>5, FinishingInv DEF DotsDoubled
  <2> QED
    BY <2>1, <2>2, <2>3, <2>4, <2>5
<1>4. CASE UNCHANGED vars
  BY <1>1, <1>4 DEF DotsDoubled, NextIsNoDot, StartsRight, Doubled, EndsLine, Read, Rest, Sent,
                    vars, state, history
<1> QED
  BY <1>1, <1>2, <1>3, <1>4 DEF Next

LEMMA InitDoubled == Init => DotsDoubled
BY DEF Init, DotsDoubled

(* The bytes of a terminator found in s.                                   *)
LEMMA TerminatorAt ==
    ASSUME NEW s \in Seq(Byte), NEW i \in 0 .. Len(s) - 5,
           SubSeq(s, i + 1, i + 5) = Terminator
    PROVE  s[i + 2] = "LF" /\ s[i + 3] = "DOT" /\ s[i + 4] = "CR"
<1>1. Len(s) \in Nat /\ \A j \in 1 .. Len(s) : s[j] \in Byte
  BY LenProperties, ElementOfSeq
<1>2. i \in Nat /\ \A j \in i + 1 .. i + 5 : j \in 1 .. Len(s)
  BY <1>1
<1>3. \A j \in 1 .. i + 5 - (i + 1) + 1 : SubSeq(s, i + 1, i + 5)[j] = s[i + 1 + j - 1]
  BY <1>1, <1>2, SubSeqProperties
<1>4. /\ 2 \in 1 .. i + 5 - (i + 1) + 1 /\ i + 1 + 2 - 1 = i + 2
      /\ 3 \in 1 .. i + 5 - (i + 1) + 1 /\ i + 1 + 3 - 1 = i + 3
      /\ 4 \in 1 .. i + 5 - (i + 1) + 1 /\ i + 1 + 4 - 1 = i + 4
  BY <1>2
<1>5. Terminator[2] = "LF" /\ Terminator[3] = "DOT" /\ Terminator[4] = "CR"
  BY DEF Terminator
<1> QED
  BY <1>3, <1>4, <1>5

(* Where every dot after a LF has its twin there is no terminator.         *)
LEMMA DoubledHasNone ==
    ASSUME NEW s \in Seq(Byte), Doubled(s), NEW i \in 0 .. Len(s) - 5,
           SubSeq(s, i + 1, i + 5) = Terminator
    PROVE  FALSE
<1>1. s[i + 2] = "LF" /\ s[i + 3] = "DOT" /\ s[i + 4] = "CR"
  BY TerminatorAt
<1>2. i + 2 \in 1 .. Len(s) - 1 /\ i + 2 + 1 = i + 3 /\ i + 2 + 2 = i + 4
  BY LenProperties
<1> QED
  BY <1>1, <1>2 DEF Doubled

(* And in front of a terminator there is none that would end before it.    *)
LEMMA OnlyAtTheEnd ==
    ASSUME NEW body \in Seq(Byte), Doubled(body), NEW i \in 0 .. Len(body \o Terminator) - 5,
           SubSeq(body \o Terminator, i + 1, i + 5) = Terminator
    PROVE  i + 5 = Len(body \o Terminator)
<1>. DEFINE s == body \o Terminator
<1>. DEFINE L == Len(body)
<1>1. /\ s \in Seq(Byte) /\ L \in Nat /\ Len(s) = L + 5
      /\ \A j \in 1 .. L + 5 : s[j] = IF j <= L THEN body[j] ELSE Terminator[j - L]
  <2>1. L \in Nat /\ Terminator \in Seq(Byte) /\ Len(Terminator) = 5
    BY LenProperties, Sizes
  <2>2. /\ s \in Seq(Byte) /\ Len(s) = L + Len(Terminator)
        /\ \A j \in 1 .. L + Len(Terminator) :
              s[j] = IF j <= L THEN body[j] ELSE Terminator[j - L]
    BY <2>1, ConcatProperties
  <2>. HIDE DEF s, L
  <2> QED
    BY <2>1, <2>2
<1>2. s[i + 2] = "LF" /\ s[i + 3] = "DOT" /\ s[i + 4] = "CR"
  BY <1>1, TerminatorAt
<1>3. Terminator[1] = "CR" /\ Terminator[2] = "LF"
  BY DEF Terminator
<1>. HIDE DEF s, L
<1>4. i \in 0 .. L
  BY <1>1 DEF s
<1>5. CASE i + 3 <= L
  <2>1. /\ i + 2 \in 1 .. L - 1 /\ i + 2 + 1 = i + 3 /\ i + 2 + 2 = i + 4
        /\ i + 2 \in 1 .. L + 5 /\ i + 3 \in 1 .. L + 5 /\ i + 4 \in 1 .. L + 5
        /\ i + 2 <= L
    BY <1>1, <1>4, <1>5
  <2>2. body[i + 2] = "LF" /\ body[i + 3] = "DOT"
    BY <1>1, <1>2, <1>5, <2>1
  <2>3. i + 4 <= L /\ body[i + 4] = "DOT"
    BY <2>1, <2>2 DEF Doubled, L
  <2>4. s[i + 4] = body[i + 4]
    BY <1>1, <2>1, <2>3
  <2> QED
    BY <1>2, <2>3, <2>4
<1>6. CASE i + 3 = L + 1
  <2>1. i + 3 \in 1 .. L + 5 /\ ~(i + 3 <= L) /\ i + 3 - L = 1
    BY <1>1, <1>4, <1>6
  <2> QED
    BY <1>1, <1>2, <1>3, <2>1
<1>7. CASE i + 3 = L + 2
  <2>1. i + 3 \in 1 .. L + 5 /\ ~(i + 3 <= L) /\ i + 3 - L = 2
    BY <1>1, <1>4, <1>7
  <2> QED
    BY <1>1, <1>2, <1>3, <2>1
<1>8. CASE i = L
  BY <1>1, <1>8 DEF s
<1> QED
  BY <1>1, <1>4, <1>5, <1>6, <1>7, <1>8

LEMMA EndsOnce ==
    ASSUME MailInv, DotsDoubled
    PROVE  NoEarlyEnd
<1>1. SUFFICES ASSUME Sending, ~lost, StartsRight, NEW i \in 0 .. Len(Sent) - 5,
                      SubSeq(Sent, i + 1, i + 5) = Terminator
               PROVE  fileDoneReading /\ i + 5 = Len(Sent)
  BY Sizes DEF NoEarlyEnd
<1>2. stm = "WRITE_FILE" /\ Sent \in Seq(Byte)
  BY <1>1, SentType DEF Sending
<1>3. fileDoneReading
  <2>1. ~Doubled(Sent)
    BY <1>1, <1>2, DoubledHasNone
  <2> QED
    BY <1>1, <1>2, <2>1 DEF DotsDoubled, MailInv, TypeOK
<1>4. PICK body \in Seq(Byte) : Doubled(body) /\ Sent = body \o Terminator
  BY <1>1, <1>2, <1>3 DEF DotsDoubled
<1> QED
  BY <1>1, <1>3, <1>4, OnlyAtTheEnd

(* The peer finds the end of the mail where the server put it and nowhere  *)
(* before, for every mail that loses no byte, whatever the blocks cut in two *)
(* (pop3.c:152-181).                                                       *)
THEOREM MailEndsOnce == Spec => []NoEarlyEnd
<1>1. MailInv /\ DotsDoubled => NoEarlyEnd
  BY EndsOnce
<1>2. Init => MailInv /\ Position /\ DotsDoubled
  BY InitInv, InitPosition, InitDoubled
<1>3. MailInv /\ Position /\ DotsDoubled /\ [Next]_vars => (MailInv /\ Position /\ DotsDoubled)'
  BY NextInv, NextPosition, NextDoubled
<1> QED
  BY <1>1, <1>2, <1>3, PTL DEF Spec

-----------------------------------------------------------------------------
(* -- A mail on the wire, byte by byte -- *)

(* What OnTheWire makes of the i-th byte of m.                             *)
Before(m, i) == IF i = 1 THEN "LF" ELSE m[i - 1]
Piece(m, i)  == CASE m[i] = "LF" /\ Before(m, i) # "CR" -> <<"CR", "LF">>
                  [] m[i] = "DOT" /\ Before(m, i) = "LF" -> <<"DOT", "DOT">>
                  [] OTHER -> <<m[i]>>

(* W[n] is what OnTheWire makes of the first n bytes of m.                 *)
WireRun(W, m) ==
    /\ W \in [0 .. Len(m) -> Seq(Byte)]
    /\ W[0] = <<>> /\ W[Len(m)] = OnTheWire(m)
    /\ \A n \in 1 .. Len(m) : W[n] = W[n - 1] \o Piece(m, n)

LEMMA PieceType ==
    ASSUME NEW m \in Seq(Byte), NEW n \in 1 .. Len(m)
    PROVE  Piece(m, n) \in Seq(Byte)
<1>1. m[n] \in Byte
  BY ElementOfSeq
<1>2. <<"CR", "LF">> \in Seq(Byte) /\ <<"DOT", "DOT">> \in Seq(Byte) /\ <<m[n]>> \in Seq(Byte)
  BY <1>1 DEF Byte
<1>3. Piece(m, n) \in {<<"CR", "LF">>, <<"DOT", "DOT">>, <<m[n]>>}
  BY DEF Piece
<1> QED
  BY <1>2, <1>3

(* The flattening of OnTheWire goes through such a function.               *)
LEMMA WireSteps ==
    ASSUME NEW m \in Seq(Byte)
    PROVE  \E W : WireRun(W, m)
<1>. DEFINE N == Len(m)
<1>. DEFINE S == Seq(Byte)
<1>. DEFINE h == [x \in S \X (1 .. N) |-> x[1] \o Piece(m, x[2])]
<1>. DEFINE pieces == [i \in DOMAIN m |-> Piece(m, i)]
<1>1. N \in Nat /\ DOMAIN m = 1 .. N
  BY LenProperties
<1>2. <<>> \in S
  OBVIOUS
<1>3. h \in [S \X (1 .. N) -> S]
  <2>1. ASSUME NEW x \in S \X (1 .. N)
        PROVE  x[1] \o Piece(m, x[2]) \in S
    <3>1. x[1] \in Seq(Byte) /\ Piece(m, x[2]) \in Seq(Byte)
      BY PieceType
    <3> QED
      BY <3>1, ConcatProperties
  <2> QED
    BY <2>1
<1>4. \A s \in S, n \in 1 .. N : h[<<s, n>>] = s \o Piece(m, n)
  OBVIOUS
<1>. HIDE DEF S, h, N
<1>5. PICK g : FoldsSets(g, S, N, <<>>, h)
  BY <1>1, <1>2, <1>3, FoldExists
<1>6. FoldsWithin(g, S, N, <<>>, h)
  BY <1>5 DEF FoldsSets, FoldsWithin
<1>7. PICK W : FoldsUpTo(W, g[1 .. N], S, N, <<>>, h)
  BY <1>1, <1>2, <1>3, <1>6, FoldSteps
<1>8. /\ W \in [0 .. N -> Seq(Byte)] /\ W[0] = <<>>
      /\ \A n \in 1 .. N : W[n] = W[n - 1] \o Piece(m, n)
  <2>1. ASSUME NEW n \in 1 .. N
        PROVE  W[n] = W[n - 1] \o Piece(m, n)
    <3>1. n - 1 \in 0 .. N
      BY <1>1
    <3> QED
      BY <1>4, <1>7, <3>1 DEF FoldsUpTo
  <2> QED
    BY <1>7, <2>1 DEF FoldsUpTo, S
<1>9. /\ pieces \in Seq(Seq(Byte)) /\ Len(pieces) = N
      /\ \A i \in 1 .. N : pieces[i] = Piece(m, i)
  <2>1. \A i \in 1 .. N : Piece(m, i) \in Seq(Byte)
    BY PieceType DEF N
  <2> QED
    BY <1>1, <2>1
<1>10. OnTheWire(m) = FlattenSeq(pieces)
  BY DEF OnTheWire, Piece, Before
<1>. HIDE DEF pieces
<1>11. CASE N = 0
  <2>1. pieces = <<>>
    BY <1>9, <1>11, EmptySeq
  <2>2. FlattenSeq(pieces) = pieces
    BY <1>9, <1>11 DEF FlattenSeq
  <2>3. W[N] = OnTheWire(m)
    BY <1>8, <1>10, <1>11, <2>1, <2>2
  <2> QED
    BY <1>8, <2>3 DEF WireRun, N
<1>12. CASE N # 0
  <2>. DEFINE f == [i \in 1 .. N |-> W[i]]
  <2>1. f = [i \in 1 .. Len(pieces) |-> IF i = 1 THEN pieces[i] ELSE f[i - 1] \o pieces[i]]
    <3>1. ASSUME NEW i \in 1 .. N
          PROVE  W[i] = IF i = 1 THEN pieces[i] ELSE f[i - 1] \o pieces[i]
      <4>1. CASE i = 1
        <5>1. 0 \in 0 .. N /\ i - 1 = 0
          BY <1>1, <4>1
        <5>2. W[i] = <<>> \o pieces[i] /\ pieces[i] \in Seq(Byte)
          BY <1>8, <1>9, <5>1, PieceType DEF N
        <5> QED
          BY <4>1, <5>2, ConcatEmptySeq
      <4>2. CASE i # 1
        <5>1. i - 1 \in 1 .. N
          BY <1>1, <4>2
        <5> QED
          BY <1>8, <1>9, <4>2, <5>1
      <4> QED
        BY <4>1, <4>2
    <3> QED
      BY <1>9, <3>1
  <2>2. PICK flatten :
          /\ flatten = [i \in 1 .. Len(pieces) |->
                          IF i = 1 THEN pieces[i] ELSE flatten[i - 1] \o pieces[i]]
          /\ FlattenSeq(pieces) = flatten[Len(pieces)]
    <3>. HIDE DEF f
    <3> QED
      BY <1>9, <1>12, <2>1 DEF FlattenSeq
  <2>. HIDE DEF f
  <2>. DEFINE Q == {n \in 0 .. N : n # 0 => flatten[n] = W[n]}
  <2>3. \A n \in 1 .. N :
           flatten[n] = IF n = 1 THEN pieces[n] ELSE flatten[n - 1] \o pieces[n]
    BY <1>9, <2>2
  <2>4. 0 \in Q
    BY <1>1
  <2>5. ASSUME NEW n \in 1 .. N, n - 1 \in Q
        PROVE  n \in Q
    <3>0. pieces[n] = Piece(m, n) /\ W[n] = W[n - 1] \o Piece(m, n) /\ n \in 0 .. N
      <4>1. n \in 0 .. N
        BY <1>1
      <4>2. pieces[n] = Piece(m, n)
        BY <1>9
      <4>3. W[n] = W[n - 1] \o Piece(m, n)
        BY <1>8
      <4> QED
        BY <4>1, <4>2, <4>3
    <3>1. W[n] = W[n - 1] \o pieces[n] /\ pieces[n] \in Seq(Byte) /\ n \in 0 .. N
      BY <3>0, PieceType DEF N
    <3>2. CASE n = 1
      <4>0. n - 1 = 0
        BY <3>2
      <4>1. W[n] = <<>> \o pieces[n]
        BY <1>8, <3>1, <4>0
      <4> QED
        BY <2>3, <3>1, <3>2, <4>1, ConcatEmptySeq
    <3>3. CASE n # 1
      <4>1. n - 1 # 0
        BY <3>3
      <4> QED
        BY <2>3, <2>5, <3>1, <3>3, <4>1
    <3> QED
      BY <3>2, <3>3
  <2>6. \A n \in 0 .. N : n \in Q
    <3>1. Q \in SUBSET (0 .. N)
      OBVIOUS
    <3>. HIDE DEF Q
    <3> QED
      BY <1>1, <2>4, <2>5, <3>1, UpTo
  <2>7. W[N] = flatten[N]
    BY <1>1, <1>12, <2>6
  <2>8. W[N] = OnTheWire(m)
    BY <1>9, <1>10, <2>2, <2>7
  <2> QED
    BY <1>8, <2>8 DEF WireRun, N
<1> QED
  BY <1>11, <1>12

(* Wire(m)[n] is what the first n bytes of m are on the wire.              *)
Wire(m) == CHOOSE W : WireRun(W, m)

LEMMA WireIs ==
    ASSUME NEW m \in Seq(Byte)
    PROVE  /\ Len(m) \in Nat /\ Wire(m)[0] = <<>> /\ Wire(m)[Len(m)] = OnTheWire(m)
           /\ \A n \in 0 .. Len(m) : Wire(m)[n] \in Seq(Byte)
           /\ \A n \in 1 .. Len(m) : Wire(m)[n] = Wire(m)[n - 1] \o Piece(m, n)
<1>1. \E W : WireRun(W, m)
  BY WireSteps
<1>2. WireRun(Wire(m), m)
  BY <1>1 DEF Wire
<1> QED
  BY <1>2, LenProperties DEF WireRun

(* Each beginning is followed by something.                                *)
LEMMA WireGoesOn ==
    ASSUME NEW m \in Seq(Byte), NEW P \in 0 .. Len(m)
    PROVE  \E x \in Seq(Byte) : OnTheWire(m) = Wire(m)[P] \o x
<1>. DEFINE N == Len(m)
<1>. DEFINE w == Wire(m)
<1>1. /\ N \in Nat /\ w[N] = OnTheWire(m)
      /\ \A n \in 0 .. N : w[n] \in Seq(Byte)
      /\ \A n \in 1 .. N : w[n] = w[n - 1] \o Piece(m, n) /\ Piece(m, n) \in Seq(Byte)
  BY WireIs, PieceType
<1>. HIDE DEF N, w
<1>2. P \in 0 .. N
  BY DEF N
<1>. DEFINE Q == {n \in 0 .. N : P <= n => \E x \in Seq(Byte) : w[n] = w[P] \o x}
<1>3. ASSUME NEW n \in 0 .. N, n = P
      PROVE  n \in Q
  <2>1. <<>> \in Seq(Byte) /\ w[P] \o <<>> = w[P]
    BY <1>1, <1>2, ConcatEmptySeq
  <2> QED
    BY <1>3, <2>1
<1>4. 0 \in Q
  <2>1. CASE P = 0
    <3>1. 0 \in 0 .. N
      BY <1>1
    <3>. HIDE DEF Q
    <3> QED
      BY <1>3, <2>1, <3>1
  <2>2. CASE P # 0
    <3>1. ~(P <= 0) /\ 0 \in 0 .. N
      BY <1>1, <1>2, <2>2
    <3> QED
      BY <3>1
  <2> QED
    BY <2>1, <2>2
<1>5. ASSUME NEW n \in 1 .. N, n - 1 \in Q
      PROVE  n \in Q
  <2>1. n \in 0 .. N /\ n - 1 \in 0 .. N
    BY <1>1
  <2>2. CASE n = P
    BY <1>3, <2>1, <2>2
  <2>3. CASE n < P
    <3>1. ~(P <= n)
      BY <1>1, <1>2, <2>1, <2>3
    <3> QED
      BY <2>1, <3>1
  <2>4. CASE P < n
    <3>1. P <= n - 1
      BY <1>1, <1>2, <2>4
    <3>2. PICK x \in Seq(Byte) : w[n - 1] = w[P] \o x
      BY <1>5, <3>1
    <3>3. w[n] = (w[P] \o x) \o Piece(m, n) /\ Piece(m, n) \in Seq(Byte) /\ w[P] \in Seq(Byte)
      BY <1>1, <1>2, <3>2
    <3>. DEFINE y == Piece(m, n)
    <3>4. y \in Seq(Byte) /\ w[n] = (w[P] \o x) \o y
      BY <3>3
    <3>. HIDE DEF y, Q
    <3>5. w[n] = w[P] \o (x \o y) /\ x \o y \in Seq(Byte)
      BY <3>2, <3>3, <3>4, ConcatThree, ConcatProperties
    <3>. USE DEF Q
    <3> QED
      BY <2>1, <3>5
  <2>5. n = P \/ n < P \/ P < n
    BY <1>1, <1>2
  <2>. HIDE DEF Q
  <2> QED
    BY <2>2, <2>3, <2>4, <2>5
<1>6. N \in Q
  <2>1. \A n \in 0 .. N : n \in Q
    <3>1. Q \in SUBSET (0 .. N)
      OBVIOUS
    <3>. HIDE DEF Q
    <3> QED
      BY <1>1, <1>4, <1>5, <3>1, UpTo
  <2>2. N \in 0 .. N
    BY <1>1
  <2>. HIDE DEF Q
  <2> QED
    BY <2>1, <2>2
<1>7. P <= N
  BY <1>1, <1>2
<1>8. \E x \in Seq(Byte) : w[N] = w[P] \o x
  BY <1>6, <1>7
<1> QED
  BY <1>1, <1>8 DEF w

-----------------------------------------------------------------------------
(* -- The whole mail -- *)

(* A block ends at a multiple of its length.                               *)
LEMMA MultipleMod ==
    ASSUME NEW B \in Nat, B > 0, NEW k \in Nat
    PROVE  (k * B) % B = 0
<1>. DEFINE a == k * B
<1>. DEFINE d == a \div B
<1>. DEFINE r == a % B
<1>1. a \in Nat
  OBVIOUS
<1>2. a = B * d + r /\ r \in 0 .. B - 1 /\ d \in Int
  <2>. HIDE DEF a
  <2> QED
    BY <1>1
<1>. HIDE DEF d, r
<1>3. r = B * (k - d)
  BY <1>2
<1>4. CASE k - d >= 1
  <2>. DEFINE x == k - d - 1
  <2>1. x \in Nat
    BY <1>2, <1>4
  <2>2. r = B + B * x
    BY <1>2, <1>3
  <2>. HIDE DEF x
  <2>3. B * x \in Nat
    BY <2>1
  <2> QED
    BY <1>2, <2>2, <2>3
<1>5. CASE k - d <= -1
  <2>. DEFINE x == d - k - 1
  <2>1. x \in Nat
    BY <1>2, <1>5
  <2>2. r = -B - B * x
    BY <1>2, <1>3
  <2>. HIDE DEF x
  <2>3. B * x \in Nat
    BY <2>1
  <2> QED
    BY <1>2, <2>2, <2>3
<1>6. CASE k - d = 0
  <2>1. r = 0
    BY <1>3, <1>6
  <2> QED
    BY <2>1 DEF r
<1> QED
  BY <1>2, <1>4, <1>5, <1>6

Continues(m, P, block, out) == Wire(m)[P] \o out = Wire(m)[P + Len(block)]

(* The escaping of a block adds to the beginning of the answer what the    *)
(* block is on the wire, if it takes the first byte for what it is.        *)
LEMMA EscapeIsWire ==
    ASSUME NEW m \in Seq(Byte), NEW P \in Nat, NEW block \in Seq(Byte),
           P + Len(block) <= Len(m), \A i \in 1 .. Len(block) : block[i] = m[P + i],
           NEW atStart \in BOOLEAN, Len(block) > 0,
           m[P + 1] = "DOT" /\ atStart => Before(m, P + 1) = "LF",
           m[P + 1] = "DOT" /\ Before(m, P + 1) = "LF" => atStart,
           m[P + 1] = "LF" => Before(m, P + 1) # "CR"
    PROVE  /\ Continues(m, P, block, Escaped(block, atStart).out)
           /\ Escaped(block, atStart).newLine <=> m[P + Len(block)] = "LF"
<1>. DEFINE N == Len(block)
<1>. DEFINE w == Wire(m)
<1>1. PICK E : EscapeRun(E, block, atStart)
  BY EscapeSteps
<1>2. /\ N \in Nat /\ E[0] = EscapeStart(atStart) /\ Escaped(block, atStart) = E[N]
      /\ \A n \in 0 .. N : E[n] \in EscapeState
      /\ \A n \in 1 .. N : block[n] \in Byte /\ E[n - 1] \in EscapeState
                           /\ E[n] = Escape(E[n - 1], block[n])
  BY <1>1, EscapeRunIs
<1>3. /\ Len(m) \in Nat /\ \A n \in 0 .. Len(m) : w[n] \in Seq(Byte)
      /\ \A n \in 1 .. Len(m) : w[n] = w[n - 1] \o Piece(m, n)
  BY WireIs
<1>4. \A n \in 1 .. N : block[n] = m[P + n] /\ P + n \in 1 .. Len(m) /\ P + n - 1 \in 0 .. Len(m)
  BY <1>2, <1>3
<1>. DEFINE OK(n) == /\ w[P] \o E[n].out = w[P + n]
                     /\ n = 0 => (E[n].newLine <=> atStart) /\ E[n].last = "none"
                     /\ n > 0 => (E[n].newLine <=> block[n] = "LF") /\ E[n].last = block[n]
<1>. DEFINE Q == {n \in 0 .. N : OK(n)}
<1>5. 0 \in Q
  <2>1. E[0].out = <<>> /\ E[0].newLine = atStart /\ E[0].last = "none"
    BY <1>2 DEF EscapeStart
  <2>2. w[P] \in Seq(Byte) /\ P + 0 = P
    <3>1. P \in 0 .. Len(m)
      BY <1>2, <1>3
    <3>. HIDE DEF w
    <3> QED
      BY <1>3, <3>1
  <2>3. w[P] \o <<>> = w[P]
    <3>. HIDE DEF w
    <3> QED
      BY <2>2, ConcatEmptySeq
  <2>4. OK(0) /\ 0 \in 0 .. N
    <3>. HIDE DEF w
    <3> QED
      BY <1>2, <2>1, <2>2, <2>3
  <2>. HIDE DEF OK
  <2> QED
    BY <2>4
<1>6. ASSUME NEW n \in 1 .. N, n - 1 \in Q
      PROVE  n \in Q
  <2>. DEFINE e == E[n - 1]
  <2>. DEFINE c == block[n]
  <2>. DEFINE t == Added(e, c)
  <2>1. /\ OK(n - 1) /\ n \in 0 .. N /\ n > 0
        /\ e \in EscapeState /\ c \in Byte /\ E[n] = Escape(e, c)
    <3>1. n \in 0 .. N /\ n > 0
      BY <1>2
    <3>. HIDE DEF OK
    <3> QED
      BY <1>2, <1>6, <3>1
  <2>2. c = m[P + n] /\ P + n \in 1 .. Len(m) /\ P + n - 1 \in 0 .. Len(m) /\ n \in Nat
    BY <1>2, <1>4
  <2>3. t = Piece(m, P + n)
    <3>1. CASE n = 1
      <4>1. n - 1 = 0 /\ P + n = P + 1
        BY <3>1
      <4>2. (e.newLine <=> atStart) /\ e.last = "none" /\ c = m[P + 1]
        BY <2>1, <2>2, <4>1
      <4>. HIDE DEF e, c
      <4>3. CASE c = "LF"
        BY <4>1, <4>2, <4>3 DEF Added, Piece
      <4>4. CASE c = "DOT"
        BY <4>1, <4>2, <4>4 DEF Added, Piece
      <4>5. CASE c # "LF" /\ c # "DOT"
        BY <4>1, <4>2, <4>5 DEF Added, Piece
      <4> QED
        BY <4>3, <4>4, <4>5
    <3>2. CASE n # 1
      <4>1. n - 1 > 0 /\ n - 1 \in 1 .. N /\ P + (n - 1) = P + n - 1 /\ P + n # 1
        BY <1>2, <2>2, <3>2
      <4>2. (e.newLine <=> e.last = "LF") /\ e.last = m[P + n - 1]
        <5>1. block[n - 1] = m[P + n - 1]
          BY <1>4, <4>1
        <5> QED
          BY <2>1, <4>1, <5>1
      <4>3. Before(m, P + n) = e.last
        BY <4>1, <4>2 DEF Before
      <4>4. c = m[P + n]
        BY <2>2
      <4>. HIDE DEF e, c
      <4>5. CASE c = "LF"
        BY <4>2, <4>3, <4>4, <4>5 DEF Added, Piece
      <4>6. CASE c = "DOT"
        BY <4>2, <4>3, <4>4, <4>6 DEF Added, Piece
      <4>7. CASE c # "LF" /\ c # "DOT"
        BY <4>2, <4>3, <4>4, <4>7 DEF Added, Piece
      <4> QED
        BY <4>5, <4>6, <4>7
    <3> QED
      BY <3>1, <3>2
  <2>. HIDE DEF e, c, w, OK
  <2>4. /\ E[n].out = e.out \o t /\ t \in Seq(Byte) /\ (E[n].newLine <=> c = "LF")
        /\ E[n].last = c
    <3>1. /\ Escape(e, c).out = e.out \o Added(e, c)
          /\ Escape(e, c).newLine <=> c = "LF"
          /\ Escape(e, c).last = c
          /\ Added(e, c) \in Seq(Byte)
      BY <2>1, EscapeAdds
    <3> QED
      BY <2>1, <3>1
  <2>5. e.out \in Seq(Byte)
    BY <2>1 DEF EscapeState
  <2>6. w[P] \in Seq(Byte) /\ w[P + n] = w[P + n - 1] \o t
    <3>1. P \in 0 .. Len(m)
      BY <1>3, <2>2
    <3>. DEFINE j == P + n
    <3>2. j \in 1 .. Len(m) /\ t = Piece(m, j)
      BY <2>2, <2>3
    <3>. HIDE DEF w, t, j
    <3>3. w[P] \in Seq(Byte)
      BY <1>3, <3>1
    <3>4. w[j] = w[j - 1] \o t
      BY <1>3, <3>2
    <3> QED
      BY <3>3, <3>4 DEF j
  <2>7. w[P] \o e.out = w[P + n - 1]
    <3>1. P + (n - 1) = P + n - 1
      BY <2>2
    <3>2. w[P] \o e.out = w[P + (n - 1)]
      BY <2>1 DEF e, OK
    <3> QED
      BY <3>1, <3>2
  <2>. HIDE DEF t, w
  <2>8. w[P] \o E[n].out = w[P + n]
    <3>. DEFINE x == w[P]
    <3>. DEFINE y == e.out
    <3>1. /\ x \in Seq(Byte) /\ y \in Seq(Byte) /\ t \in Seq(Byte)
          /\ E[n].out = y \o t /\ w[P + n] = (x \o y) \o t
      BY <2>4, <2>5, <2>6, <2>7
    <3>. HIDE DEF x, y
    <3>2. (x \o y) \o t = x \o (y \o t)
      BY <3>1, ConcatThree
    <3>3. x \o E[n].out = w[P + n]
      BY <3>1, <3>2
    <3> QED
      BY <3>3 DEF x
  <2>9. n # 0
    BY <2>2, <2>1
  <2>10. OK(n)
    BY <2>4, <2>8, <2>9 DEF c, OK
  <2>. HIDE DEF OK
  <2> QED
    BY <2>1, <2>10
<1>7. N \in Q
  <2>1. \A n \in 0 .. N : n \in Q
    <3>1. Q \in SUBSET (0 .. N)
      OBVIOUS
    <3>. HIDE DEF Q, N
    <3> QED
      BY <1>2, <1>5, <1>6, <3>1, UpTo
  <2>2. N \in 0 .. N
    BY <1>2
  <2>. HIDE DEF Q
  <2> QED
    BY <2>1, <2>2
<1>8. OK(N)
  BY <1>7
<1>9. N > 0 /\ N \in 1 .. N
  BY <1>2
<1>. HIDE DEF w
<1>10. block[N] = m[P + N]
  BY <1>4, <1>9
<1>11. /\ w[P] \o E[N].out = w[P + N] /\ (E[N].newLine <=> m[P + N] = "LF")
  BY <1>8, <1>9, <1>10
<1> QED
  BY <1>2, <1>11 DEF w, Continues

(* Up to where it has been read, the mail was sent as it should be.        *)
Whole ==
    stm = "WRITE_FILE" /\ ~lost /\ Plain(mail) /\ StartsRight =>
        /\ ~fileDoneReading =>
              /\ Sent = Header \o Wire(mail)[Read]
              /\ Read = 0 => (newLine <=> fresh)
              /\ Read # 0 => (newLine <=> mail[Read] = "LF")
        /\ fileDoneReading => Sent = Answer(mail)

(* A block without a NUL is escaped whole.                                 *)
LEMMA PlainBlock ==
    ASSUME NEW block \in Seq(Byte), \A i \in 1 .. Len(block) : block[i] # "NUL"
    PROVE  Line(block) = block
<1>1. PICK k \in 0 .. Len(block) :
         Line(block) = SubSeq(block, 1, k) /\ (k < Len(block) => block[k + 1] = "NUL")
  BY LineIs
<1>2. Len(block) \in Nat
  BY LenProperties
<1>3. ~(k < Len(block))
  <2>1. k < Len(block) => k + 1 \in 1 .. Len(block)
    BY <1>2
  <2> QED
    BY <1>1, <2>1
<1>4. k = Len(block)
  BY <1>2, <1>3
<1> QED
  BY <1>1, <1>4, SubSeqFull

LEMMA RetrWhole ==
    ASSUME MailInv, handleRetr
    PROVE  Whole'
<1>1. Sent' = Header /\ Read' = 0 /\ ~fileDoneReading' /\ fresh' = newLine /\ newLine' = newLine
  BY RetrSends, RetrPosition DEF handleRetr
<1>2. mail' \in Seq(Byte)
  BY RetrInv DEF MailInv, TypeOK
<1>3. Wire(mail')[0] = <<>>
  BY <1>2, WireIs
<1>4. Header \o <<>> = Header
  BY Sizes, ConcatEmptySeq
<1>5. Sent' = Header \o Wire(mail')[Read']
  BY <1>1, <1>3, <1>4
<1> QED
  BY <1>1, <1>5 DEF Whole

(* The block that is read begins as the mail does there: newLine tells     *)
(* whether a line begins, and no CR was left behind for its LF.            *)
LEMMA ReadingWhole ==
    ASSUME MailInv, Position, Whole, pop3WriteFile, NEW q, NEW heard,
           SentOf(q, heard), Reading(q, heard)
    PROVE  Whole'
<1>. DEFINE block == First(Rest, BLOCK)
<1>. DEFINE P == Read
<1>1. /\ stm = "WRITE_FILE" /\ ~fileDoneReading
      /\ UNCHANGED <<stm, mail, fresh, fileDoneReading>> /\ mail \in Seq(Byte)
  BY DEF pop3WriteFile, Reading, read_block, MailInv, TypeOK
<1>2. /\ block \in Seq(Byte) /\ Len(block) \in Nat /\ Len(block) > 0
      /\ AtBlock(P) /\ P \in Nat /\ Read' = P + Len(block)
      /\ P < Len(mail) /\ Len(mail) \in Nat /\ P + Len(block) <= Len(mail)
      /\ \A i \in 1 .. Len(block) : block[i] = mail[P + i]
  BY BlockRead
<1>3. SUFFICES ASSUME ~lost', Plain(mail), StartsRight
               PROVE  /\ Sent' = Header \o Wire(mail)[P + Len(block)]
                      /\ newLine' <=> mail[P + Len(block)] = "LF"
  <2>. HIDE DEF block, P
  <2>1. P + Len(block) # 0
    BY <1>2
  <2> QED
    BY <1>1, <1>2, <2>1 DEF Whole, StartsRight
<1>4. \A i \in 1 .. Len(block) : block[i] # "NUL"
  <2>1. \A i \in 1 .. Len(block) : P + i \in DOMAIN mail /\ block[i] = mail[P + i]
    <3>. HIDE DEF block, P
    <3>1. DOMAIN mail = 1 .. Len(mail)
      BY <1>1, LenProperties
    <3> QED
      BY <1>2, <3>1
  <2>. HIDE DEF block, P
  <2> QED
    BY <1>3, <2>1 DEF Plain
<1>5. Line(block) = block
  <2>. HIDE DEF block
  <2> QED
    BY <1>2, <1>4, PlainBlock
<1>. DEFINE e == Escaped(block, newLine)
<1>6. /\ ~lost /\ Sent' = Sent \o e.out /\ newLine' = e.newLine
      /\ e \in EscapeState /\ newLine \in BOOLEAN
  BY <1>3, <1>5, ReadingSends
<1>7. /\ Sent = Header \o Wire(mail)[P]
      /\ P = 0 => (newLine <=> fresh)
      /\ P # 0 => (newLine <=> mail[P] = "LF")
  BY <1>1, <1>3, <1>6 DEF Whole
<1>. HIDE DEF block, P
<1>8. /\ mail[P + 1] = "DOT" /\ newLine => Before(mail, P + 1) = "LF"
      /\ mail[P + 1] = "DOT" /\ Before(mail, P + 1) = "LF" => newLine
      /\ mail[P + 1] = "LF" => Before(mail, P + 1) # "CR"
  <2>1. CASE P = 0
    <3>1. Before(mail, P + 1) = "LF" /\ mail[P + 1] = mail[1]
      BY <2>1 DEF Before
    <3>2. mail # <<>>
      <4>1. mail = <<>> => Len(mail) = 0
        OBVIOUS
      <4> QED
        BY <1>2, <4>1
    <3>3. mail[1] = "DOT" => newLine
      BY <1>3, <1>7, <2>1, <3>2 DEF StartsRight
    <3> QED
      BY <3>1, <3>3
  <2>2. CASE P # 0
    <3>1. Before(mail, P + 1) = mail[P]
      <4>. DEFINE j == P + 1
      <4>1. j # 1 /\ j - 1 = P
        BY <1>2, <2>2
      <4>. HIDE DEF j
      <4>2. Before(mail, j) = mail[P]
        BY <4>1 DEF Before
      <4> QED
        BY <4>2 DEF j
    <3>2. ~(mail[P] = "CR" /\ mail[P + 1] = "LF")
      <4>1. P \in 1 .. Len(mail) - 1
        BY <1>2, <2>2
      <4>2. P % BLOCK = 0
        BY <1>2, Sizes, MultipleMod DEF AtBlock
      <4> QED
        BY <1>3, <4>1, <4>2 DEF Plain
    <3> QED
      BY <1>7, <2>2, <3>1, <3>2
  <2> QED
    BY <2>1, <2>2
<1>9. /\ Wire(mail)[P] \o e.out = Wire(mail)[P + Len(block)]
      /\ e.newLine <=> mail[P + Len(block)] = "LF"
  <2>1. mail \in Seq(Byte) /\ newLine \in BOOLEAN
    BY <1>1, <1>6
  <2>. HIDE DEF e
  <2>2. /\ P \in Nat /\ block \in Seq(Byte) /\ Len(block) > 0
        /\ P + Len(block) <= Len(mail)
        /\ \A i \in 1 .. Len(block) : block[i] = mail[P + i]
    BY <1>2
  <2>3. Continues(mail, P, block, Escaped(block, newLine).out)
    BY <1>8, <2>1, <2>2, EscapeIsWire
  <2>4. Escaped(block, newLine).newLine => mail[P + Len(block)] = "LF"
    BY <1>8, <2>1, <2>2, EscapeIsWire
  <2>5. mail[P + Len(block)] = "LF" => Escaped(block, newLine).newLine
    BY <1>8, <2>1, <2>2, EscapeIsWire
  <2> QED
    BY <2>3, <2>4, <2>5 DEF e, Continues
<1>10. Sent' = Header \o Wire(mail)[P + Len(block)]
  <2>1. P \in 0 .. Len(mail)
    BY <1>2
  <2>2. Wire(mail)[P] \in Seq(Byte) /\ e.out \in Seq(Byte) /\ Header \in Seq(Byte)
    BY <1>1, <1>6, <2>1, WireIs, Sizes DEF EscapeState
  <2>. DEFINE x == Wire(mail)[P]
  <2>. DEFINE y == e.out
  <2>3. /\ x \in Seq(Byte) /\ y \in Seq(Byte) /\ Header \in Seq(Byte)
        /\ Sent' = (Header \o x) \o y /\ x \o y = Wire(mail)[P + Len(block)]
    BY <1>6, <1>7, <1>9, <2>2
  <2>. HIDE DEF x, y, e
  <2>4. (Header \o x) \o y = Header \o (x \o y)
    BY <2>3, ConcatThree
  <2> QED
    BY <2>3, <2>4
<1> QED
  BY <1>6, <1>9, <1>10

LEMMA EndingWhole ==
    ASSUME MailInv, Position, Whole, pop3WriteFile, NEW q, NEW heard,
           SentOf(q, heard), Ending(q, heard)
    PROVE  Whole'
<1>1. /\ stm = "WRITE_FILE" /\ ~fileDoneReading /\ Rest = <<>> /\ mail \in Seq(Byte)
  BY DEF pop3WriteFile, Ending, MailInv, TypeOK
<1>2. Sent' = Sent \o Terminator /\ fileDoneReading' /\ UNCHANGED <<mail, fresh, lost>>
  BY EndingSends
<1>3. Read = Len(mail)
  <2>1. Len(Rest) = 0 /\ Len(mail) \in Nat
    BY <1>1, LenProperties
  <2> QED
    BY <2>1 DEF Read
<1>4. Wire(mail)[Read] = OnTheWire(mail)
  BY <1>1, <1>3, WireIs
<1>5. ~lost /\ Plain(mail) /\ StartsRight => Sent' = Answer(mail)
  BY <1>1, <1>2, <1>4 DEF Whole, Answer
<1> QED
  BY <1>2, <1>5 DEF Whole, StartsRight, Plain, Answer, OnTheWire

LEMMA NextWhole == MailInv /\ Position /\ Whole /\ [Next]_vars => Whole'
<1>1. SUFFICES ASSUME MailInv, Position, Whole, [Next]_vars PROVE Whole'
  OBVIOUS
<1>2. CASE handleRetr
  BY <1>1, <1>2, RetrWhole
<1>3. CASE pop3WriteFile
  <2>1. PICK q, heard :
          /\ SentOf(q, heard)
          /\ \/ Waiting(q, heard) \/ Reading(q, heard) \/ Ending(q, heard) \/ Finishing(q)
    BY <1>1, <1>3, WriteStep
  <2>2. CASE Waiting(q, heard)
    <3>1. Sent' = Sent /\ UNCHANGED <<stm, file, fileDoneReading, newLine, mail, fresh, lost>>
      BY <2>1, <2>2, WaitingSends DEF Waiting
    <3>2. Read' = Read
      BY <3>1 DEF Read, Rest
    <3> QED
      BY <1>1, <3>1, <3>2 DEF Whole, StartsRight
  <2>3. CASE Reading(q, heard)
    BY <1>1, <1>3, <2>1, <2>3, ReadingWhole
  <2>4. CASE Ending(q, heard)
    BY <1>1, <1>3, <2>1, <2>4, EndingWhole
  <2>5. CASE Finishing(q)
    BY <1>1, <1>3, <2>1, <2>5, FinishingInv DEF Whole
  <2> QED
    BY <2>1, <2>2, <2>3, <2>4, <2>5
<1>4. CASE UNCHANGED vars
  <2>1. UNCHANGED <<serverBuffer, stm, file, fileDoneReading, newLine, mail, fresh, got, lost>>
    BY <1>4 DEF vars, state, history
  <2>2. Sent' = Sent /\ Read' = Read
    BY <2>1 DEF Sent, Read, Rest
  <2> QED
    BY <1>1, <2>1, <2>2 DEF Whole, StartsRight
<1> QED
  BY <1>1, <1>2, <1>3, <1>4 DEF Next

LEMMA InitWhole == Init => Whole
BY DEF Init, Whole

LEMMA PrefixOfConcat ==
    ASSUME NEW s \in Seq(Byte), NEW x \in Seq(Byte)
    PROVE  IsPrefix(s, s \o x)
<1>1. /\ Len(s) \in Nat /\ Len(x) \in Nat /\ Len(s \o x) = Len(s) + Len(x)
  BY LenProperties, ConcatProperties
<1>2. CASE Len(s) = 0
  <2>1. SubSeq(s, 1, Len(s)) = <<>> /\ SubSeq(s \o x, 1, Len(s)) = <<>>
    BY <1>2, SubSeqEmpty
  <2> QED
    BY <1>1, <2>1 DEF IsPrefix
<1>3. CASE Len(s) # 0
  <2>1. 1 \in 1 .. Len(s) /\ Len(s) \in 1 .. Len(s) /\ Len(s) <= Len(s \o x)
    BY <1>1, <1>3
  <2>2. SubSeq(s \o x, 1, Len(s)) = SubSeq(s, 1, Len(s))
    BY <2>1, SubSeqOfConcat1
  <2> QED
    BY <2>1, <2>2 DEF IsPrefix
<1> QED
  BY <1>2, <1>3

LEMMA WholeArrives ==
    ASSUME MailInv, Position, Whole
    PROVE  MailArrivesWhole
<1>1. SUFFICES ASSUME Sending, ~lost, Plain(mail), StartsRight
               PROVE  IF fileDoneReading THEN Sent = Answer(mail)
                      ELSE IsPrefix(Sent, Answer(mail))
  BY DEF MailArrivesWhole
<1>2. stm = "WRITE_FILE" /\ mail \in Seq(Byte) /\ fileDoneReading \in BOOLEAN
  BY <1>1 DEF Sending, MailInv, TypeOK
<1>3. CASE fileDoneReading
  BY <1>1, <1>2, <1>3 DEF Whole
<1>4. CASE ~fileDoneReading
  <2>1. Read \in 0 .. Len(mail) /\ Sent = Header \o Wire(mail)[Read]
    BY <1>1, <1>2, <1>4 DEF Whole, Position
  <2>2. PICK x \in Seq(Byte) : OnTheWire(mail) = Wire(mail)[Read] \o x
    BY <1>2, <2>1, WireGoesOn
  <2>. DEFINE w == Wire(mail)[Read]
  <2>3. /\ w \in Seq(Byte) /\ Sent = Header \o w /\ OnTheWire(mail) = w \o x
        /\ Header \in Seq(Byte) /\ Terminator \in Seq(Byte)
    BY <1>2, <2>1, <2>2, WireIs, Sizes
  <2>. HIDE DEF w
  <2>4. Answer(mail) = (Header \o (w \o x)) \o Terminator
    BY <2>3 DEF Answer
  <2>5. Header \o (w \o x) = Sent \o x
    BY <2>3, ConcatThree
  <2>6. Sent \in Seq(Byte) /\ x \o Terminator \in Seq(Byte)
    BY <2>3, ConcatProperties
  <2>7. (Sent \o x) \o Terminator = Sent \o (x \o Terminator)
    <3>1. Sent \in Seq(Byte) /\ x \in Seq(Byte) /\ Terminator \in Seq(Byte)
      BY <2>2, <2>3, <2>6
    <3> QED
      BY <3>1, ConcatThree
  <2> QED
    BY <1>4, <2>4, <2>5, <2>6, <2>7, PrefixOfConcat
<1> QED
  BY <1>3, <1>4

(* What the peer gets of a plain mail is, at every moment, the beginning of *)
(* Header, the mail on the wire and Terminator, and all of it in the end:  *)
(* neither the cuts of the blocks nor those of the sends show (pop3ReadFile, *)
(* pop3WriteFile).                                                         *)
THEOREM MailArrives == Spec => []MailArrivesWhole
<1>1. MailInv /\ Position /\ Whole => MailArrivesWhole
  BY WholeArrives
<1>2. Init => MailInv /\ Position /\ Whole
  BY InitInv, InitPosition, InitWhole
<1>3. MailInv /\ Position /\ Whole /\ [Next]_vars => (MailInv /\ Position /\ Whole)'
  BY NextInv, NextPosition, NextWhole
<1> QED
  BY <1>1, <1>2, <1>3, PTL DEF Spec
=============================================================================
