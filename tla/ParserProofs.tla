---------------------------- MODULE ParserProofs ----------------------------
(***************************************************************************)
(* Proofs about Parser, for every size of the memory and every set of      *)
(* verbs.                                                                  *)
(*                                                                         *)
(* The bytes of a line are followed from a new parser, one by one: F[n] is *)
(* the parser after n of them (Feeds).  Until a word fills its memory it   *)
(* is reading the word that starts at some w and has the ones before it    *)
(* where they belong (Reading, RunReads); after that it stays as it is     *)
(* (Stuck).  LineEnds says what this comes to at LF, and the invariant     *)
(* that such an F exists for what the connection has read, however it was  *)
(* cut (Continued, ConsumeIs).                                             *)
(***************************************************************************)
EXTENDS Parser, FoldLemmas, SequenceTheorems

(* -- The parser, byte by byte -- *)

ParserState == [state : Verbs \cup {UNDEF, ERROR}, finished : BOOLEAN,
                line : Seq(Byte), arg1 : Seq(Byte), arg2 : Seq(Byte)]

(* A parser that has read a byte keeps to the size of its memory. *)
Sized(p) == /\ Len(p.line) <= BUFFER_SIZE
            /\ Len(p.arg1) < BUFFER_SIZE /\ Len(p.arg2) < BUFFER_SIZE

LEMMA Constants ==
    /\ UNDEF \notin Verbs /\ ERROR \notin Verbs /\ UNDEF # ERROR
    /\ BUFFER_SIZE \in Nat /\ BUFFER_SIZE > 0
    /\ NewParser \in ParserState /\ Sized(NewParser)
<1>1. Verbs \subseteq Seq({"A"})
  BY ParserAssumption
<1>2. UNDEF \notin Seq({"A"}) /\ ERROR \notin Seq({"A"})
  <2>1. ASSUME NEW x, x # "A"
        PROVE  <<x>> \notin Seq({"A"})
    <3>1. <<x>>[1] = x /\ Len(<<x>>) = 1
      OBVIOUS
    <3> QED
      BY <2>1, <3>1, ElementOfSeq
  <2> QED
    BY <2>1 DEF UNDEF, ERROR
<1>3. UNDEF[1] # ERROR[1]
  BY DEF UNDEF, ERROR
<1>4. BUFFER_SIZE \in Nat /\ BUFFER_SIZE > 0
  BY ParserAssumption, BufferSizeAssumption
<1>5. NewParser \in ParserState
  BY DEF NewParser, ParserState
<1>6. Sized(NewParser)
  BY <1>4 DEF NewParser, Sized
<1> QED
  BY <1>1, <1>2, <1>3, <1>4, <1>5, <1>6

LEMMA UpperByte ==
    ASSUME NEW c \in Byte
    PROVE  toupper(c) \in Byte /\ (toupper(c) = "LF" <=> c = "LF")
           /\ (toupper(c) = "SP" <=> c = "SP") /\ (toupper(c) = "CR" <=> c = "CR")
BY DEF Byte, toupper

LEMMA FirstBytes ==
    ASSUME NEW s \in Seq(Byte), NEW n \in 0 .. Len(s)
    PROVE  /\ SubSeq(s, 1, n) \in Seq(Byte) /\ Len(SubSeq(s, 1, n)) = n
           /\ \A i \in 1 .. n : SubSeq(s, 1, n)[i] = s[i]
<1>1. 1 \in Int /\ n \in Int /\ \A i \in 1 .. n : s[i] \in Byte
  BY ElementOfSeq
<1>2. /\ SubSeq(s, 1, n) \in Seq(Byte)
      /\ Len(SubSeq(s, 1, n)) = IF 1 <= n THEN n - 1 + 1 ELSE 0
      /\ \A i \in 1 .. n - 1 + 1 : SubSeq(s, 1, n)[i] = s[1 + i - 1]
  BY <1>1, SubSeqProperties
<1>3. n - 1 + 1 = n /\ (IF 1 <= n THEN n - 1 + 1 ELSE 0) = n
      /\ \A i \in 1 .. n : 1 + i - 1 = i
  OBVIOUS
<1> QED
  BY <1>2, <1>3

LEMMA FrontIs ==
    ASSUME NEW s \in Seq(Byte), s # <<>>
    PROVE  /\ Front(s) \in Seq(Byte) /\ Len(Front(s)) = Len(s) - 1 /\ Len(s) - 1 \in Nat
           /\ \A i \in 1 .. Len(s) - 1 : Front(s)[i] = s[i]
           /\ Last(s) = s[Len(s)]
<1>1. Len(s) \in Nat /\ Len(s) > 0
  BY EmptySeq
<1>2. Front(s) = SubSeq(s, 1, Len(s) - 1)
  BY DEF Front
<1>. DEFINE m == Len(s) - 1
<1>3. m \in Nat /\ m \in 0 .. Len(s)
  BY <1>1
<1>. HIDE DEF m
<1>4. /\ SubSeq(s, 1, m) \in Seq(Byte) /\ Len(SubSeq(s, 1, m)) = m
      /\ \A i \in 1 .. m : SubSeq(s, 1, m)[i] = s[i]
  BY <1>3, FirstBytes
<1> QED
  BY <1>2, <1>3, <1>4 DEF Last, m

(* What becomes of a parser by the fields the feeding sets. *)
LEMMA WithLine ==
    ASSUME NEW p \in ParserState, Sized(p), NEW l \in Seq(Byte), Len(l) <= BUFFER_SIZE
    PROVE  LET q == [p EXCEPT !.line = l]
           IN  /\ q \in ParserState /\ Sized(q)
               /\ q.line = l /\ q.state = p.state /\ q.finished = p.finished
               /\ q.arg1 = p.arg1 /\ q.arg2 = p.arg2
BY DEF ParserState, Sized

LEMMA WithEnd ==
    ASSUME NEW p \in ParserState, Sized(p)
    PROVE  /\ [p EXCEPT !.finished = TRUE] \in ParserState
           /\ Sized([p EXCEPT !.finished = TRUE])
           /\ [p EXCEPT !.state = ERROR, !.finished = TRUE] \in ParserState
           /\ Sized([p EXCEPT !.state = ERROR, !.finished = TRUE])
<1>1. p.line \in Seq(Byte) /\ p.arg1 \in Seq(Byte) /\ p.arg2 \in Seq(Byte)
      /\ p.state \in Verbs \cup {UNDEF, ERROR}
  BY DEF ParserState
<1>2. /\ [p EXCEPT !.finished = TRUE] \in ParserState
      /\ [p EXCEPT !.state = ERROR, !.finished = TRUE] \in ParserState
  BY <1>1 DEF ParserState
<1> QED
  BY <1>2 DEF ParserState, Sized

LEMMA ProcessType ==
    ASSUME NEW p \in ParserState, Sized(p), Len(p.line) < BUFFER_SIZE
    PROVE  process_buffer(p) \in ParserState /\ Sized(process_buffer(p))
           /\ process_buffer(p).line = p.line /\ process_buffer(p).finished = p.finished
<1>. DEFINE q == process_buffer(p)
<1>1. p.line \in Seq(Byte) /\ p.arg1 \in Seq(Byte) /\ p.arg2 \in Seq(Byte)
      /\ p.state \in Verbs \cup {UNDEF, ERROR}
  BY DEF ParserState
<1>2. CASE p.state = UNDEF
  <2>1. q = [p EXCEPT !.state = IF p.line \in Verbs THEN p.line ELSE ERROR]
    BY <1>2 DEF process_buffer
  <2> QED
    BY <1>1, <2>1 DEF ParserState, Sized
<1>3. CASE p.state # UNDEF
  <2>1. q \in {p, [p EXCEPT !.arg1 = p.line], [p EXCEPT !.arg2 = p.line]}
    BY <1>3 DEF process_buffer
  <2>2. [p EXCEPT !.arg1 = p.line] \in ParserState /\ Sized([p EXCEPT !.arg1 = p.line])
        /\ [p EXCEPT !.arg1 = p.line].line = p.line
        /\ [p EXCEPT !.arg1 = p.line].finished = p.finished
    BY <1>1 DEF ParserState, Sized
  <2>3. [p EXCEPT !.arg2 = p.line] \in ParserState /\ Sized([p EXCEPT !.arg2 = p.line])
        /\ [p EXCEPT !.arg2 = p.line].line = p.line
        /\ [p EXCEPT !.arg2 = p.line].finished = p.finished
    BY <1>1 DEF ParserState, Sized
  <2> QED
    BY <2>1, <2>2, <2>3
<1> QED
  BY <1>2, <1>3

LEMMA FedType ==
    ASSUME NEW p \in ParserState, Sized(p), Len(p.line) < BUFFER_SIZE, NEW c \in Byte
    PROVE  Fed(p, c) \in ParserState /\ Sized(Fed(p, c))
<1>1. p.line \in Seq(Byte) /\ BUFFER_SIZE \in Nat /\ BUFFER_SIZE > 0
  BY Constants DEF ParserState
<1>2. CASE c = "SP"
  <2>1. Fed(p, c) = [process_buffer(p) EXCEPT !.line = <<>>]
    BY <1>2 DEF Fed, EndOfWord
  <2>2. <<>> \in Seq(Byte) /\ Len(<<>>) <= BUFFER_SIZE
    BY <1>1
  <2>3. process_buffer(p) \in ParserState /\ Sized(process_buffer(p))
    BY ProcessType
  <2> QED
    BY <2>1, <2>2, <2>3, WithLine
<1>3. CASE c = "LF"
  <2>1. Fed(p, c) = EndOfLine(p)
    BY <1>3 DEF Fed
  <2>2. CASE p.line # <<>> /\ Last(p.line) = "CR"
    <3>. DEFINE q == [p EXCEPT !.line = Front(@)]
    <3>1. Front(p.line) \in Seq(Byte) /\ Len(Front(p.line)) = Len(p.line) - 1
          /\ Len(p.line) - 1 \in Nat
      BY <1>1, <2>2, FrontIs
    <3>2. q \in ParserState /\ Sized(q) /\ Len(q.line) < BUFFER_SIZE
      BY <1>1, <3>1, WithLine DEF Sized
    <3>3. process_buffer(q) \in ParserState /\ Sized(process_buffer(q))
      BY <3>2, ProcessType
    <3>4. EndOfLine(p) = [process_buffer(q) EXCEPT !.finished = TRUE]
      BY <2>2 DEF EndOfLine
    <3>. HIDE DEF q
    <3> QED
      BY <2>1, <3>3, <3>4, WithEnd
  <2>3. CASE ~(p.line # <<>> /\ Last(p.line) = "CR")
    <3>1. EndOfLine(p) = [p EXCEPT !.state = ERROR, !.finished = TRUE]
      BY <2>3 DEF EndOfLine
    <3> QED
      BY <2>1, <3>1, WithEnd
  <2> QED
    BY <2>2, <2>3
<1>4. CASE c # "SP" /\ c # "LF"
  <2>1. Fed(p, c) = [p EXCEPT !.line = Append(@, c)]
    BY <1>4 DEF Fed
  <2>2. Append(p.line, c) \in Seq(Byte) /\ Len(Append(p.line, c)) = Len(p.line) + 1
        /\ Len(p.line) \in Nat
    BY <1>1
  <2>3. Len(Append(p.line, c)) <= BUFFER_SIZE
    BY <1>1, <2>2
  <2> QED
    BY <2>1, <2>2, <2>3, WithLine
<1> QED
  BY <1>2, <1>3, <1>4

LEMMA FeedType ==
    ASSUME NEW p \in ParserState, Sized(p), NEW c \in Byte
    PROVE  parser_feed(p, c) \in ParserState /\ Sized(parser_feed(p, c))
<1>1. CASE Len(p.line) = BUFFER_SIZE
  BY <1>1 DEF parser_feed
<1>2. CASE Len(p.line) # BUFFER_SIZE
  <2>1. Len(p.line) < BUFFER_SIZE
    BY <1>2, Constants DEF Sized, ParserState
  <2>2. parser_feed(p, c) = Fed(p, IF p.state = UNDEF THEN toupper(c) ELSE c)
    BY <1>2 DEF parser_feed
  <2>3. (IF p.state = UNDEF THEN toupper(c) ELSE c) \in Byte
    BY UpperByte
  <2> QED
    BY <2>1, <2>2, <2>3, FedType
<1> QED
  BY <1>1, <1>2

-----------------------------------------------------------------------------
(* -- The words of a line -- *)

LEMMA WordUpTo ==
    ASSUME NEW s \in Seq(Byte), NEW i \in 1 .. Len(s) + 1, NEW e \in i .. Len(s) + 1,
           e = Len(s) + 1 \/ s[e] = "SP", \A j \in i .. e - 1 : s[j] # "SP"
    PROVE  WordAt(s, i) = SubSeq(s, i, e - 1)
<1>. DEFINE T == {j \in i .. Len(s) + 1 : j = Len(s) + 1 \/ s[j] = "SP"}
<1>1. Len(s) \in Nat /\ i \in Nat /\ e \in Nat
  OBVIOUS
<1>2. T \in SUBSET Nat /\ e \in T
  BY <1>1
<1>3. Min(T) \in T /\ \A j \in T : Min(T) <= j
  <2>. HIDE DEF T
  <2> QED
    BY <1>2, MinIn
<1>4. Min(T) <= e /\ Min(T) \in i .. Len(s) + 1 /\ (Min(T) = Len(s) + 1 \/ s[Min(T)] = "SP")
  BY <1>2, <1>3
<1>5. ~(Min(T) \in i .. e - 1)
  BY <1>1, <1>4
<1>6. Min(T) = e
  <2>. HIDE DEF T
  <2> QED
    BY <1>1, <1>4, <1>5
<1> QED
  BY <1>6 DEF WordAt

LEMMA WordIs ==
    ASSUME NEW s \in Seq(Byte), NEW i \in Starts(s)
    PROVE  WordAt(s, i) \in Seq(Byte) /\ WordAt(s, i) # <<>>
<1>. DEFINE T == {j \in i .. Len(s) + 1 : j = Len(s) + 1 \/ s[j] = "SP"}
<1>1. Len(s) \in Nat /\ i \in 2 .. Len(s) /\ s[i] # "SP"
  BY DEF Starts
<1>2. T \in SUBSET Nat /\ Len(s) + 1 \in T
  BY <1>1
<1>3. Min(T) \in T
  <2>. HIDE DEF T
  <2> QED
    BY <1>2, MinIn
<1>4. Min(T) \in i .. Len(s) + 1 /\ Min(T) # i
  BY <1>1, <1>3
<1>. DEFINE m == Min(T) - 1
<1>5. i \in Int /\ m \in Int /\ i <= m /\ m <= Len(s) /\ i >= 1
  <2>. HIDE DEF T
  <2> QED
    BY <1>1, <1>4
<1>6. WordAt(s, i) = SubSeq(s, i, m)
  BY DEF WordAt
<1>. HIDE DEF m
<1>7. \A j \in i .. m : s[j] \in Byte
  BY <1>1, <1>5, ElementOfSeq
<1>8. SubSeq(s, i, m) \in Seq(Byte) /\ Len(SubSeq(s, i, m)) = m - i + 1
  BY <1>5, <1>7, SubSeqProperties
<1>9. Len(SubSeq(s, i, m)) > 0
  BY <1>5, <1>8
<1>10. \A x \in Seq(Byte) : Len(x) > 0 => x # <<>>
  BY EmptySeq
<1> QED
  BY <1>6, <1>8, <1>9, <1>10

LEMMA MinAdded ==
    ASSUME NEW S \in SUBSET Nat, S # {}, NEW w \in Nat, \A i \in S : i < w
    PROVE  Min(S \cup {w}) = Min(S)
<1>1. Min(S) \in S /\ \A i \in S : Min(S) <= i
  BY MinIn
<1>. DEFINE T == S \cup {w}
<1>2. T \in SUBSET Nat /\ T # {}
  OBVIOUS
<1>3. Min(T) \in T /\ \A i \in T : Min(T) <= i
  <2>. HIDE DEF T
  <2> QED
    BY <1>2, MinIn
<1>4. Min(T) <= Min(S) /\ Min(S) < w /\ Min(S) \in Nat /\ Min(T) \in Nat
  BY <1>1, <1>2, <1>3
<1>5. Min(T) # w
  <2>. HIDE DEF T
  <2> QED
    BY <1>4
<1>6. Min(S) <= Min(T)
  BY <1>1, <1>3, <1>5
<1>. HIDE DEF T
<1> QED
  BY <1>4, <1>6 DEF T

LEMMA MinAlone ==
    ASSUME NEW w \in Nat
    PROVE  Min({w}) = w
<1>1. {w} \in SUBSET Nat
  OBVIOUS
<1> QED
  BY <1>1, MinIn

(* The arguments are the first two words of those that start in S. *)
ArgsAre(p, s, S) == p.arg1 = Arg(s, S) /\ p.arg2 = Arg(s, Later(S))

LEMMA NextArg ==
    ASSUME NEW s \in Seq(Byte), NEW p \in ParserState, p.state \in Verbs,
           NEW S \in SUBSET Starts(s), ArgsAre(p, s, S),
           NEW w \in Starts(s), \A i \in S : i < w, p.line = WordAt(s, w)
    PROVE  LET q == process_buffer(p)
           IN  q.state = p.state /\ ArgsAre(q, s, S \cup {w})
<1>. DEFINE q == process_buffer(p)
<1>1. p.state # UNDEF /\ p.state # ERROR
  BY Constants
<1>2. Starts(s) \subseteq Nat /\ w \in Nat
  BY DEF Starts
<1>3. S \in SUBSET Nat /\ Later(S) \in SUBSET S
  BY <1>2 DEF Later
<1>4. CASE S = {}
  <2>1. p.arg1 = <<>> /\ p.arg2 = <<>>
    BY <1>4 DEF ArgsAre, Arg, Later
  <2>2. q = [p EXCEPT !.arg1 = p.line]
    BY <1>1, <2>1 DEF process_buffer
  <2>3. q.state = p.state /\ q.arg1 = p.line /\ q.arg2 = <<>>
    BY <2>1, <2>2 DEF ParserState
  <2>4. S \cup {w} = {w} /\ Later({w}) = {}
    BY <1>2, <1>4 DEF Later
  <2>5. Arg(s, {w}) = WordAt(s, w) /\ Arg(s, {}) = <<>>
    BY <1>2, MinAlone DEF Arg
  <2> QED
    BY <2>3, <2>4, <2>5 DEF ArgsAre
<1>5. CASE S # {}
  <2>1. Min(S) \in S /\ \A i \in S : Min(S) <= i
    BY <1>3, <1>5, MinIn
  <2>2. Arg(s, S \cup {w}) = Arg(s, S) /\ Arg(s, S) # <<>>
    <3>1. Min(S \cup {w}) = Min(S)
      BY <1>2, <1>3, <1>5, MinAdded
    <3>2. WordAt(s, Min(S)) # <<>>
      BY <2>1, WordIs
    <3> QED
      BY <1>5, <3>1, <3>2 DEF Arg
  <2>3. Later(S \cup {w}) = Later(S) \cup {w}
    <3>1. \A j \in S : ~(w < j)
      BY <1>2, <1>3
    <3>2. Min(S) < w
      BY <2>1
    <3>3. ~(w < w)
      BY <1>2
    <3> QED
      BY <2>1, <3>1, <3>2, <3>3 DEF Later
  <2>4. p.arg1 # <<>>
    BY <2>2 DEF ArgsAre
  <2>5. CASE Later(S) = {}
    <3>1. p.arg2 = <<>>
      BY <2>5 DEF ArgsAre, Arg
    <3>2. q = [p EXCEPT !.arg2 = p.line]
      BY <1>1, <2>4, <3>1 DEF process_buffer
    <3>3. q.state = p.state /\ q.arg1 = p.arg1 /\ q.arg2 = p.line
      BY <3>2 DEF ParserState
    <3>4. Arg(s, Later(S \cup {w})) = WordAt(s, w)
      BY <1>2, <2>3, <2>5, MinAlone DEF Arg
    <3> QED
      BY <2>2, <3>3, <3>4 DEF ArgsAre
  <2>6. CASE Later(S) # {}
    <3>1. Later(S) \in SUBSET Nat /\ Later(S) \subseteq Starts(s)
          /\ \A i \in Later(S) : i < w
      BY <1>2, <1>3
    <3>2. Min(Later(S)) \in Later(S)
      BY <2>6, <3>1, MinIn
    <3>3. WordAt(s, Min(Later(S))) # <<>>
      BY <3>1, <3>2, WordIs
    <3>4. p.arg2 # <<>>
      BY <2>6, <3>3 DEF ArgsAre, Arg
    <3>5. q = p
      BY <1>1, <2>4, <3>4 DEF process_buffer
    <3>6. Min(Later(S) \cup {w}) = Min(Later(S))
      BY <1>2, <2>6, <3>1, MinAdded
    <3>7. Arg(s, Later(S \cup {w})) = Arg(s, Later(S))
      BY <2>3, <2>6, <3>6 DEF Arg
    <3> QED
      BY <2>2, <3>5, <3>7 DEF ArgsAre
  <2> QED
    BY <2>5, <2>6
<1> QED
  BY <1>4, <1>5

(* An empty word leaves the arguments as they are. *)
LEMMA NoArg ==
    ASSUME NEW p \in ParserState, p.state \in Verbs, p.line = <<>>
    PROVE  LET q == process_buffer(p)
           IN  q.state = p.state /\ q.arg1 = p.arg1 /\ q.arg2 = p.arg2
<1>1. p.state # UNDEF /\ p.state # ERROR
  BY Constants
<1>2. CASE p.arg1 = <<>>
  <2>1. process_buffer(p) = [p EXCEPT !.arg1 = p.line]
    BY <1>1, <1>2 DEF process_buffer
  <2> QED
    BY <1>2, <2>1 DEF ParserState
<1>3. CASE p.arg1 # <<>> /\ p.arg2 = <<>>
  <2>1. process_buffer(p) = [p EXCEPT !.arg2 = p.line]
    BY <1>1, <1>3 DEF process_buffer
  <2> QED
    BY <1>3, <2>1 DEF ParserState
<1>4. CASE p.arg1 # <<>> /\ p.arg2 # <<>>
  BY <1>1, <1>4 DEF process_buffer
<1> QED
  BY <1>2, <1>3, <1>4

-----------------------------------------------------------------------------
(* -- What the parser has made of the first n bytes of s -- *)

Verdict(s) == IF Upper(WordAt(s, 1)) \in Verbs THEN Upper(WordAt(s, 1)) ELSE ERROR

(* It is reading the word that starts at w, and has put the ones before it *)
(* where they belong.                                                      *)
Reading(p, s, n, w) ==
    /\ w \in 1 .. n + 1 /\ Len(p.line) = n - w + 1
    /\ \A j \in w .. n : s[j] # "SP"
    /\ \A i \in 1 .. n - w + 1 :
          p.line[i] = IF w = 1 THEN toupper(s[i]) ELSE s[w + i - 1]
    /\ ~p.finished
    /\ IF w = 1 THEN p.state = UNDEF /\ p.arg1 = <<>> /\ p.arg2 = <<>>
       ELSE /\ s[w - 1] = "SP" /\ p.state = Verdict(s)
            /\ p.state # ERROR => ArgsAre(p, s, {i \in Starts(s) : i < w})

(* The word that is read ends where a space or the end of s is. *)
LEMMA WordEnds ==
    ASSUME NEW s \in Seq(Byte), NEW n \in 0 .. Len(s), NEW p \in ParserState,
           NEW w, Reading(p, s, n, w), n = Len(s) \/ s[n + 1] = "SP"
    PROVE  LET q == process_buffer(p)
           IN  q.state = Verdict(s)
               /\ (q.state # ERROR => ArgsAre(q, s, {i \in Starts(s) : i < n + 2}))
<1>. DEFINE q == process_buffer(p)
<1>1. Len(s) \in Nat /\ n \in Nat /\ w \in 1 .. n + 1 /\ n + 1 \in w .. Len(s) + 1
  BY DEF Reading
<1>2. p.line \in Seq(Byte) /\ Len(p.line) = n - w + 1
  BY DEF ParserState, Reading
<1>3. WordAt(s, w) = SubSeq(s, w, n)
  <2>1. \A e \in Nat : e = n + 1 => e - 1 = n
    BY <1>1
  <2>. DEFINE e == n + 1
  <2>2. w \in 1 .. Len(s) + 1 /\ e \in w .. Len(s) + 1 /\ e - 1 = n
        /\ (e = Len(s) + 1 \/ s[e] = "SP")
    BY <1>1
  <2>3. \A j \in w .. e - 1 : s[j] # "SP"
    BY <2>2 DEF Reading
  <2>. HIDE DEF e
  <2> QED
    BY <2>2, <2>3, WordUpTo
<1>4. \A i \in w .. n : s[i] \in Byte
  BY <1>1, ElementOfSeq
<1>5. /\ SubSeq(s, w, n) \in Seq(Byte)
      /\ Len(SubSeq(s, w, n)) = n - w + 1
      /\ \A i \in 1 .. n - w + 1 : SubSeq(s, w, n)[i] = s[w + i - 1]
  <2>1. w \in Int /\ n \in Int
    BY <1>1
  <2>2. /\ SubSeq(s, w, n) \in Seq(Byte)
        /\ Len(SubSeq(s, w, n)) = IF w <= n THEN n - w + 1 ELSE 0
        /\ \A i \in 1 .. n - w + 1 : SubSeq(s, w, n)[i] = s[w + i - 1]
    BY <1>4, <2>1, SubSeqProperties
  <2>3. (IF w <= n THEN n - w + 1 ELSE 0) = n - w + 1
    BY <1>1
  <2> QED
    BY <2>2, <2>3
<1>6. ASSUME NEW i \in Starts(s), i < n + 2, i > w
      PROVE  FALSE
  <2>1. i \in 2 .. Len(s) /\ s[i - 1] = "SP"
    BY DEF Starts
  <2>2. i - 1 \in w .. n
    BY <1>1, <1>6, <2>1
  <2> QED
    BY <2>1, <2>2 DEF Reading
<1>7. CASE w = 1
  <2>1. p.line = Upper(SubSeq(s, 1, n))
    <3>. DEFINE u == SubSeq(s, 1, n)
    <3>1. u \in Seq(Byte) /\ Len(u) = n /\ DOMAIN u = 1 .. n
      BY <1>1, <1>5, <1>7
    <3>2. \A i \in 1 .. n : u[i] = s[i]
      BY <1>1, <1>5, <1>7
    <3>3. DOMAIN p.line = 1 .. n /\ \A i \in 1 .. n : p.line[i] = toupper(s[i])
      BY <1>1, <1>2, <1>7 DEF Reading
    <3>4. p.line = [i \in DOMAIN p.line |-> p.line[i]]
      BY <1>2
    <3>. HIDE DEF u
    <3>5. p.line = [i \in DOMAIN u |-> toupper(u[i])]
      BY <3>1, <3>2, <3>3, <3>4
    <3> QED
      BY <3>5 DEF Upper, u
  <2>2. q = [p EXCEPT !.state = Verdict(s)]
    BY <1>3, <1>7, <2>1 DEF Reading, process_buffer, Verdict
  <2>3. q.state = Verdict(s) /\ q.arg1 = <<>> /\ q.arg2 = <<>>
    BY <1>7, <2>2 DEF ParserState, Reading
  <2>4. {i \in Starts(s) : i < n + 2} = {}
    <3>1. ASSUME NEW i \in Starts(s)
          PROVE  i > w
      BY <1>7 DEF Starts
    <3> QED
      BY <1>6, <3>1
  <2> QED
    BY <2>3, <2>4 DEF ArgsAre, Arg, Later
<1>8. CASE w # 1
  <2>. DEFINE S == {i \in Starts(s) : i < w}
  <2>1. p.state = Verdict(s) /\ s[w - 1] = "SP"
    BY <1>8 DEF Reading
  <2>2. CASE p.state = ERROR
    <3>1. q = p
      BY <2>2, Constants DEF process_buffer
    <3> QED
      BY <2>1, <2>2, <3>1
  <2>3. CASE p.state # ERROR
    <3>1. p.state \in Verbs /\ ArgsAre(p, s, S)
      BY <1>8, <2>1, <2>3 DEF Reading, Verdict
    <3>2. CASE w = n + 1
      <4>1. p.line = <<>>
        <5>1. \A x \in Seq(Byte) : Len(x) = 0 => x = <<>>
          BY EmptySeq
        <5> QED
          BY <1>1, <1>2, <3>2, <5>1
      <4>2. {i \in Starts(s) : i < n + 2} = S
        <5>1. n + 1 \notin Starts(s)
          BY <1>1 DEF Starts
        <5>2. \A i \in Starts(s) : i < n + 2 <=> i < n + 1 \/ i = n + 1
          BY <1>1 DEF Starts
        <5> QED
          BY <3>2, <5>1, <5>2
      <4>3. q.state = p.state /\ q.arg1 = p.arg1 /\ q.arg2 = p.arg2
        BY <3>1, <4>1, NoArg
      <4> QED
        BY <2>1, <3>1, <4>2, <4>3 DEF ArgsAre
    <3>3. CASE w # n + 1
      <4>1. w \in w .. n /\ w \in 2 .. Len(s)
        BY <1>1, <1>8, <3>3
      <4>2. w \in Starts(s)
        BY <2>1, <4>1 DEF Starts, Reading
      <4>3. p.line = WordAt(s, w)
        <5>1. \A i \in 1 .. n - w + 1 : p.line[i] = s[w + i - 1]
          BY <1>8 DEF Reading
        <5>. DEFINE u == SubSeq(s, w, n)
        <5>2. u \in Seq(Byte) /\ Len(u) = Len(p.line)
              /\ \A i \in 1 .. Len(p.line) : p.line[i] = u[i]
          BY <1>2, <1>5, <5>1
        <5>. HIDE DEF u
        <5>3. p.line = u
          BY <1>2, <5>2, SeqEqual
        <5> QED
          BY <1>3, <5>3 DEF u
      <4>4. {i \in Starts(s) : i < n + 2} = S \cup {w}
        <5>1. w < n + 2 /\ Starts(s) \subseteq Nat
          BY <1>1 DEF Starts
        <5>2. \A i \in Starts(s) : i < n + 2 => i < w \/ i = w
          BY <1>1, <1>6, <5>1
        <5>3. \A i \in Starts(s) : i < w => i < n + 2
          BY <1>1, <5>1
        <5> QED
          BY <4>2, <5>1, <5>2, <5>3
      <4>5. S \in SUBSET Starts(s) /\ \A i \in S : i < w
        OBVIOUS
      <4>. HIDE DEF S
      <4>6. q.state = p.state /\ ArgsAre(q, s, S \cup {w})
        BY <3>1, <4>2, <4>3, <4>5, NextArg
      <4> QED
        BY <2>1, <4>4, <4>6
    <3> QED
      BY <3>2, <3>3
  <2> QED
    BY <2>2, <2>3
<1> QED
  BY <1>7, <1>8

LEMMA FeedReads ==
    ASSUME NEW s \in Seq(Byte), NEW n \in 1 .. Len(s), NEW p \in ParserState, Sized(p),
           Len(p.line) < BUFFER_SIZE, NEW w, Reading(p, s, n - 1, w), s[n] # "LF"
    PROVE  Reading(parser_feed(p, s[n]), s, n, IF s[n] = "SP" THEN n + 1 ELSE w)
<1>. DEFINE m == n - 1
<1>. DEFINE q == parser_feed(p, s[n])
<1>. DEFINE c == IF p.state = UNDEF THEN toupper(s[n]) ELSE s[n]
<1>1. Len(s) \in Nat /\ n \in Nat /\ w \in 1 .. n /\ s[n] \in Byte
      /\ m \in 0 .. Len(s) /\ m + 1 = n /\ m + 2 = n + 1
  BY ElementOfSeq DEF Reading
<1>2. q = Fed(p, c)
  <2>1. Len(p.line) # BUFFER_SIZE
    BY Constants DEF ParserState
  <2> QED
    BY <2>1 DEF parser_feed
<1>3. (c = "SP" <=> s[n] = "SP") /\ c # "LF"
  BY <1>1, UpperByte
<1>4. ~p.finished /\ Reading(p, s, m, w)
  BY DEF Reading
<1>5. CASE s[n] = "SP"
  <2>. DEFINE r == process_buffer(p)
  <2>1. q = [r EXCEPT !.line = <<>>]
    BY <1>2, <1>3, <1>5 DEF Fed, EndOfWord
  <2>2. r \in ParserState /\ r.finished = p.finished
    BY ProcessType
  <2>3. q.line = <<>> /\ q.state = r.state /\ q.finished = p.finished
        /\ q.arg1 = r.arg1 /\ q.arg2 = r.arg2
    BY <2>1, <2>2 DEF ParserState
  <2>4. s[m + 1] = "SP"
    BY <1>1, <1>5
  <2>. HIDE DEF m
  <2>5. r.state = Verdict(s) /\ (r.state # ERROR => ArgsAre(r, s, {i \in Starts(s) : i < m + 2}))
    BY <1>1, <1>4, <2>4, WordEnds
  <2>6. n + 1 \in 1 .. n + 1 /\ n + 1 # 1 /\ Len(<<>>) = n - (n + 1) + 1
        /\ n + 1 - 1 = n /\ (n + 1) .. n = {} /\ 1 .. n - (n + 1) + 1 = {}
    BY <1>1
  <2>7. q.state # ERROR => ArgsAre(q, s, {i \in Starts(s) : i < n + 1})
    BY <1>1, <2>3, <2>5 DEF ArgsAre
  <2>. HIDE DEF q, r
  <2> QED
    BY <1>4, <1>5, <2>3, <2>5, <2>6, <2>7 DEF Reading, q
<1>6. CASE s[n] # "SP"
  <2>1. q = [p EXCEPT !.line = Append(@, c)]
    BY <1>2, <1>3, <1>6 DEF Fed
  <2>2. p.line \in Seq(Byte) /\ Len(p.line) = n - w /\ c \in Byte
    <3>1. n - 1 - w + 1 = n - w
      BY <1>1
    <3> QED
      BY <1>1, <3>1, UpperByte DEF ParserState, Reading
  <2>3. q.line = Append(p.line, c) /\ q.state = p.state /\ q.finished = p.finished
        /\ q.arg1 = p.arg1 /\ q.arg2 = p.arg2
    BY <2>1 DEF ParserState
  <2>4. Len(q.line) = n - w + 1 /\ q.line[n - w + 1] = c
        /\ \A i \in 1 .. n - w : q.line[i] = p.line[i]
    BY <2>2, <2>3, AppendProperties
  <2>5. c = IF w = 1 THEN toupper(s[n]) ELSE s[n]
    BY Constants DEF Reading, Verdict
  <2>6. \A i \in 1 .. n - w : p.line[i] = IF w = 1 THEN toupper(s[i]) ELSE s[w + i - 1]
    <3>1. n - 1 - w + 1 = n - w
      BY <1>1
    <3> QED
      BY <3>1 DEF Reading
  <2>7. ASSUME NEW i \in 1 .. n - w + 1
        PROVE  q.line[i] = IF w = 1 THEN toupper(s[i]) ELSE s[w + i - 1]
    <3>1. i \in 1 .. n - w \/ (i = n - w + 1 /\ w + i - 1 = n /\ (w = 1 => i = n))
      BY <1>1
    <3>. HIDE DEF q, c
    <3> QED
      BY <2>4, <2>5, <2>6, <3>1
  <2>8. \A j \in w .. n : s[j] # "SP"
    <3>1. \A j \in w .. n : j \in w .. n - 1 \/ j = n
      BY <1>1
    <3> QED
      BY <1>6, <3>1 DEF Reading
  <2>9. w \in 1 .. n + 1
    BY <1>1
  <2>10. ArgsAre(q, s, {i \in Starts(s) : i < w}) <=> ArgsAre(p, s, {i \in Starts(s) : i < w})
    BY <2>3 DEF ArgsAre
  <2>. HIDE DEF q, c, m
  <2> QED
    BY <1>6, <2>3, <2>4, <2>7, <2>8, <2>9, <2>10 DEF Reading, q
<1> QED
  BY <1>5, <1>6

-----------------------------------------------------------------------------
(* -- A line, from its beginning -- *)

(* F[n] is the parser after the first n bytes of s, for n up to N. *)
Feeds(F, s, N) == /\ F[0] = NewParser
                  /\ \A n \in 1 .. N : F[n] = parser_feed(F[n - 1], s[n])

LEMMA RunTypes ==
    ASSUME NEW s \in Seq(Byte), NEW N \in 0 .. Len(s), NEW F, Feeds(F, s, N)
    PROVE  \A n \in 0 .. N : F[n] \in ParserState /\ Sized(F[n])
<1>. DEFINE P == {n \in 0 .. N : F[n] \in ParserState /\ Sized(F[n])}
<1>1. N \in Nat /\ Len(s) \in Nat
  OBVIOUS
<1>2. 0 \in P
  BY <1>1, Constants DEF Feeds
<1>3. ASSUME NEW n \in 1 .. N, n - 1 \in P
      PROVE  n \in P
  <2>1. s[n] \in Byte /\ F[n] = parser_feed(F[n - 1], s[n]) /\ n \in 0 .. N
    BY <1>1, ElementOfSeq DEF Feeds
  <2>2. F[n - 1] \in ParserState /\ Sized(F[n - 1])
    BY <1>3
  <2> QED
    BY <2>1, <2>2, FeedType
<1>4. P \in SUBSET (0 .. N)
  OBVIOUS
<1>5. \A n \in 0 .. N : n \in P
  <2>. HIDE DEF P
  <2> QED
    BY <1>1, <1>2, <1>3, <1>4, UpTo
<1> QED
  BY <1>5

(* The first n bytes have a word of BUFFER_SIZE bytes. *)
LongBy(s, n) == \E i \in 0 .. n - BUFFER_SIZE : \A j \in i + 1 .. i + BUFFER_SIZE : s[j] # "SP"
Stuck(p, s, n) == Len(p.line) = BUFFER_SIZE /\ LongBy(s, n)
Reads(p, s, n) == /\ Len(p.line) < BUFFER_SIZE /\ ~LongBy(s, n)
                  /\ \A i \in 1 .. n : s[i] # "LF"
                  /\ \E w \in 1 .. n + 1 : Reading(p, s, n, w)

LEMMA StartReads == \A s : Reads(NewParser, s, 0)
<1>. SUFFICES ASSUME NEW s PROVE Reads(NewParser, s, 0)
  OBVIOUS
<1>1. NewParser.line = <<>> /\ NewParser.state = UNDEF /\ ~NewParser.finished
      /\ NewParser.arg1 = <<>> /\ NewParser.arg2 = <<>>
  BY DEF NewParser
<1>2. Len(<<>>) = 0 /\ 0 - 1 + 1 = 0 /\ 1 .. 0 = {} /\ 1 \in 1 .. 0 + 1
  OBVIOUS
<1>3. Reading(NewParser, s, 0, 1)
  BY <1>1, <1>2 DEF Reading
<1>4. ~LongBy(s, 0)
  BY Constants DEF LongBy
<1> QED
  BY <1>1, <1>2, <1>3, <1>4, Constants DEF Reads

(* The last byte of a line ends it, and no other byte ends anything. *)
LEMMA FedEnds ==
    ASSUME NEW p \in ParserState, Sized(p), Len(p.line) < BUFFER_SIZE, NEW c \in Byte,
           ~p.finished
    PROVE  /\ parser_feed(p, c).finished <=> c = "LF"
           /\ c = "LF" => parser_feed(p, c) = EndOfLine(p)
<1>. DEFINE q == parser_feed(p, c)
<1>. DEFINE b == IF p.state = UNDEF THEN toupper(c) ELSE c
<1>1. q = Fed(p, b) /\ b \in Byte /\ (b = "LF" <=> c = "LF") /\ (b = "SP" <=> c = "SP")
  <2>1. Len(p.line) # BUFFER_SIZE
    BY Constants DEF ParserState
  <2> QED
    BY <2>1, UpperByte DEF parser_feed
<1>. HIDE DEF b
<1>2. CASE c = "SP"
  <2>1. q = [process_buffer(p) EXCEPT !.line = <<>>]
    BY <1>1, <1>2 DEF Fed, EndOfWord
  <2>2. process_buffer(p) \in ParserState /\ process_buffer(p).finished = p.finished
    BY ProcessType
  <2>3. q.finished = p.finished
    BY <2>1, <2>2 DEF ParserState
  <2> QED
    BY <1>2, <2>3
<1>3. CASE c = "LF"
  <2>1. q = EndOfLine(p)
    BY <1>1, <1>3 DEF Fed
  <2>2. EndOfLine(p).finished
    <3>1. CASE p.line # <<>> /\ Last(p.line) = "CR"
      <4>. DEFINE r == [p EXCEPT !.line = Front(@)]
      <4>1. Front(p.line) \in Seq(Byte) /\ Len(Front(p.line)) < BUFFER_SIZE
            /\ Len(Front(p.line)) <= BUFFER_SIZE
        <5>1. p.line \in Seq(Byte) /\ Len(p.line) \in Nat
          BY DEF ParserState
        <5>2. Front(p.line) \in Seq(Byte) /\ Len(Front(p.line)) = Len(p.line) - 1
          BY <3>1, <5>1, FrontIs
        <5> QED
          BY <5>1, <5>2, Constants
      <4>2. r \in ParserState /\ Sized(r) /\ Len(r.line) < BUFFER_SIZE
        BY <4>1, WithLine
      <4>3. process_buffer(r) \in ParserState
        BY <4>2, ProcessType
      <4>4. EndOfLine(p) = [process_buffer(r) EXCEPT !.finished = TRUE]
        BY <3>1 DEF EndOfLine
      <4>. HIDE DEF r
      <4> QED
        BY <4>3, <4>4 DEF ParserState
    <3>2. CASE ~(p.line # <<>> /\ Last(p.line) = "CR")
      <4>1. EndOfLine(p) = [p EXCEPT !.state = ERROR, !.finished = TRUE]
        BY <3>2 DEF EndOfLine
      <4> QED
        BY <4>1 DEF ParserState
    <3> QED
      BY <3>1, <3>2
  <2> QED
    BY <1>3, <2>1, <2>2
<1>4. CASE c # "SP" /\ c # "LF"
  <2>1. q = [p EXCEPT !.line = Append(@, b)]
    BY <1>1, <1>4 DEF Fed
  <2>2. q.finished = p.finished
    BY <2>1 DEF ParserState
  <2> QED
    BY <1>4, <2>2
<1> QED
  BY <1>2, <1>3, <1>4

LEMMA RunReads ==
    ASSUME NEW s \in Seq(Byte), NEW N \in 0 .. Len(s), NEW F, Feeds(F, s, N),
           \A n \in 0 .. N : ~F[n].finished
    PROVE  \A n \in 0 .. N : Stuck(F[n], s, n) \/ Reads(F[n], s, n)
<1>. DEFINE P == {n \in 0 .. N : Stuck(F[n], s, n) \/ Reads(F[n], s, n)}
<1>1. N \in Nat /\ Len(s) \in Nat /\ BUFFER_SIZE \in Nat /\ BUFFER_SIZE > 0
  BY Constants
<1>2. 0 \in P
  BY <1>1, StartReads DEF Feeds
<1>3. ASSUME NEW n \in 1 .. N, n - 1 \in P
      PROVE  n \in P
  <2>. DEFINE p == F[n - 1]
  <2>. DEFINE q == F[n]
  <2>1. s[n] \in Byte /\ q = parser_feed(p, s[n]) /\ n \in 0 .. N /\ n \in 1 .. Len(s)
        /\ n - 1 \in 0 .. N /\ n \in Nat
    BY <1>1, ElementOfSeq DEF Feeds
  <2>2. p \in ParserState /\ Sized(p) /\ ~p.finished /\ q \in ParserState /\ Sized(q)
        /\ ~q.finished
    BY <2>1, RunTypes
  <2>. HIDE DEF p, q
  <2>3. CASE Stuck(p, s, n - 1)
    <3>1. q = p
      BY <2>1, <2>3 DEF Stuck, parser_feed
    <3>2. LongBy(s, n)
      <4>1. \A i \in 0 .. n - 1 - BUFFER_SIZE : i \in 0 .. n - BUFFER_SIZE
        BY <1>1, <2>1
      <4> QED
        BY <2>3, <4>1 DEF Stuck, LongBy
    <3> QED
      BY <2>1, <2>3, <3>1, <3>2 DEF Stuck, q
  <2>4. CASE Reads(p, s, n - 1)
    <3>1. Len(p.line) < BUFFER_SIZE
      BY <2>4 DEF Reads
    <3>2. s[n] # "LF"
      BY <2>1, <2>2, <3>1, FedEnds
    <3>3. PICK w : Reading(p, s, n - 1, w)
      BY <2>4 DEF Reads
    <3>4. PICK v : Reading(q, s, n, v)
      BY <2>1, <2>2, <3>1, <3>2, <3>3, FeedReads
    <3>5. v \in 1 .. n + 1 /\ Len(q.line) = n - v + 1 /\ \A j \in v .. n : s[j] # "SP"
      BY <3>4 DEF Reading
    <3>6. \A i \in 1 .. n : s[i] # "LF"
      <4>1. \A i \in 1 .. n : i \in 1 .. n - 1 \/ i = n
        BY <2>1
      <4> QED
        BY <2>4, <3>2, <4>1 DEF Reads
    <3>7. CASE Len(q.line) = BUFFER_SIZE
      <4>1. v - 1 \in 0 .. n - BUFFER_SIZE /\ v - 1 + 1 = v /\ v - 1 + BUFFER_SIZE = n
        BY <1>1, <2>1, <3>5, <3>7
      <4>2. LongBy(s, n)
        BY <3>5, <4>1 DEF LongBy
      <4> QED
        BY <2>1, <3>7, <4>2 DEF Stuck, q
    <3>8. CASE Len(q.line) # BUFFER_SIZE
      <4>1. Len(q.line) < BUFFER_SIZE
        BY <1>1, <2>1, <2>2, <3>5, <3>8 DEF Sized
      <4>2. ASSUME NEW i \in 0 .. n - BUFFER_SIZE, \A j \in i + 1 .. i + BUFFER_SIZE : s[j] # "SP"
            PROVE  FALSE
        <5>1. CASE i \in 0 .. n - 1 - BUFFER_SIZE
          BY <2>4, <4>2, <5>1 DEF Reads, LongBy
        <5>2. CASE i = n - BUFFER_SIZE
          <6>1. v > 1 /\ v - 1 \in i + 1 .. i + BUFFER_SIZE
            BY <1>1, <2>1, <3>5, <4>1, <5>2
          <6>2. s[v - 1] = "SP"
            BY <3>4, <6>1 DEF Reading
          <6> QED
            BY <4>2, <6>1, <6>2
        <5> QED
          BY <1>1, <2>1, <5>1, <5>2
      <4>3. ~LongBy(s, n)
        BY <4>2 DEF LongBy
      <4> QED
        BY <2>1, <3>4, <3>5, <3>6, <4>1, <4>3 DEF Reads, q
    <3> QED
      BY <3>7, <3>8
  <2> QED
    BY <1>3, <2>3, <2>4 DEF p
<1>4. P \in SUBSET (0 .. N)
  OBVIOUS
<1>5. \A n \in 0 .. N : n \in P
  <2>. HIDE DEF P
  <2> QED
    BY <1>1, <1>2, <1>3, <1>4, UpTo
<1> QED
  BY <1>5

-----------------------------------------------------------------------------
(* -- The end of a line -- *)

(* What a parser has to say when it has finished. *)
Told(p) == IF p.state = ERROR THEN <<ERROR>> ELSE <<p.state, p.arg1, p.arg2>>

(* The byte before LF is CR exactly when the parser sees it. *)
LEMMA LastByte ==
    ASSUME NEW s \in Seq(Byte), NEW m \in 0 .. Len(s), NEW p \in ParserState,
           NEW w, Reading(p, s, m, w)
    PROVE  p.line # <<>> /\ Last(p.line) = "CR" <=> m >= 1 /\ s[m] = "CR"
<1>1. Len(s) \in Nat /\ m \in Nat /\ w \in 1 .. m + 1
      /\ p.line \in Seq(Byte) /\ Len(p.line) = m - w + 1
  BY DEF Reading, ParserState
<1>2. CASE w = m + 1
  <2>1. p.line = <<>>
    <3>1. \A x \in Seq(Byte) : Len(x) = 0 => x = <<>>
      BY EmptySeq
    <3> QED
      BY <1>1, <1>2, <3>1
  <2>2. m >= 1 => s[m] = "SP"
    <3>1. m >= 1 => w # 1 /\ w - 1 = m
      BY <1>1, <1>2
    <3> QED
      BY <3>1 DEF Reading
  <2> QED
    BY <2>1, <2>2
<1>3. CASE w # m + 1
  <2>1. m - w + 1 \in 1 .. m - w + 1 /\ m >= 1 /\ m \in 1 .. Len(s) /\ w + (m - w + 1) - 1 = m
        /\ (w = 1 => m - w + 1 = m)
    BY <1>1, <1>3
  <2>2. p.line # <<>>
    BY <1>1, <2>1
  <2>3. Last(p.line) = p.line[m - w + 1]
    BY <1>1 DEF Last
  <2>4. p.line[m - w + 1] = IF w = 1 THEN toupper(s[m]) ELSE s[m]
    <3>. DEFINE i == m - w + 1
    <3>1. p.line[i] = IF w = 1 THEN toupper(s[i]) ELSE s[w + i - 1]
      BY <2>1 DEF Reading
    <3> QED
      BY <2>1, <3>1
  <2>5. s[m] \in Byte
    BY <2>1, ElementOfSeq
  <2> QED
    BY <2>1, <2>2, <2>3, <2>4, <2>5, UpperByte
<1> QED
  BY <1>2, <1>3

LEMMA LineEnds ==
    ASSUME NEW s \in Seq(Byte), Len(s) >= 1, NEW F, Feeds(F, s, Len(s)),
           \A n \in 0 .. Len(s) - 1 : ~F[n].finished, F[Len(s)].finished
    PROVE  /\ \A i \in DOMAIN s : s[i] = "LF" <=> i = Len(s)
           /\ Told(F[Len(s)]) = CommandOf(s)
<1>. DEFINE N == Len(s)
<1>. DEFINE m == N - 1
<1>. DEFINE p == F[m]
<1>. DEFINE e == F[N]
<1>1. N \in Nat /\ N >= 1 /\ m \in 0 .. N /\ m \in Nat /\ DOMAIN s = 1 .. N
      /\ BUFFER_SIZE \in Nat
  BY Constants
<1>2. Feeds(F, s, m) /\ e = parser_feed(p, s[N]) /\ s[N] \in Byte
  BY <1>1, ElementOfSeq DEF Feeds
<1>3. \A n \in 0 .. m : ~F[n].finished
  OBVIOUS
<1>4. p \in ParserState /\ Sized(p) /\ ~p.finished /\ (Stuck(p, s, m) \/ Reads(p, s, m))
  <2>1. m \in 0 .. m
    BY <1>1
  <2>. HIDE DEF m
  <2> QED
    BY <1>1, <1>2, <1>3, <2>1, RunTypes, RunReads DEF p
<1>5. ~Stuck(p, s, m)
  <2>1. ASSUME Stuck(p, s, m)
        PROVE  FALSE
    <3>1. e = p
      BY <1>2, <2>1 DEF Stuck, parser_feed
    <3> QED
      BY <1>4, <3>1
  <2> QED
    BY <2>1
<1>. HIDE DEF p, e
<1>6. Len(p.line) < BUFFER_SIZE /\ \A i \in 1 .. m : s[i] # "LF"
  BY <1>4, <1>5 DEF Reads
<1>7. s[N] = "LF" /\ e = EndOfLine(p)
  BY <1>2, <1>4, <1>6, FedEnds DEF e
<1>8. \A i \in DOMAIN s : s[i] = "LF" <=> i = N
  <2>1. m = N - 1
    OBVIOUS
  <2>. HIDE DEF N, m
  <2>2. \A i \in 1 .. N : i \in 1 .. m \/ i = N
    BY <1>1, <2>1
  <2> QED
    BY <1>1, <1>6, <1>7, <2>2
<1>9. PICK w : Reading(p, s, m, w)
  BY <1>4, <1>5 DEF Reads
<1>10. p.line # <<>> /\ Last(p.line) = "CR" <=> m >= 1 /\ s[m] = "CR"
  <2>. HIDE DEF m
  <2> QED
    BY <1>1, <1>4, <1>9, LastByte
<1>11. CASE ~(m >= 1 /\ s[m] = "CR")
  <2>1. e = [p EXCEPT !.state = ERROR, !.finished = TRUE]
    BY <1>7, <1>10, <1>11 DEF EndOfLine
  <2>2. e.state = ERROR
    BY <1>4, <2>1 DEF ParserState
  <2>3. CommandOf(s) = <<ERROR>>
    BY <1>1, <1>11 DEF CommandOf
  <2> QED
    BY <1>8, <2>2, <2>3 DEF Told, e
<1>12. CASE m >= 1 /\ s[m] = "CR"
  <2>. DEFINE k == m - 1
  <2>. DEFINE text == SubSeq(s, 1, k)
  <2>. DEFINE q == F[k]
  <2>. DEFINE r == process_buffer(q)
  <2>1. k \in Nat /\ k + 1 = m /\ k \in 0 .. N /\ m \in 1 .. m /\ k \in 0 .. k
        /\ k = N - 2 /\ N >= 2 /\ m = N - 1
    BY <1>1, <1>12
  <2>2. text \in Seq(Byte) /\ Len(text) = k /\ \A i \in 1 .. k : text[i] = s[i]
    <3>1. k \in 0 .. Len(s)
      BY <2>1
    <3>. HIDE DEF k
    <3> QED
      BY <3>1, FirstBytes
  <2>3. Feeds(F, text, k)
    BY <1>1, <1>2, <2>1, <2>2 DEF Feeds
  <2>4. p = parser_feed(q, s[m])
    BY <1>1, <1>2, <2>1 DEF Feeds, p
  <2>5. q \in ParserState /\ Sized(q) /\ ~q.finished /\ (Stuck(q, text, k) \/ Reads(q, text, k))
    <3>1. \A n \in 0 .. k : ~F[n].finished
      BY <1>1, <1>3
    <3>. HIDE DEF k, text, m
    <3>2. k \in 0 .. Len(text)
      BY <2>1, <2>2
    <3> QED
      BY <2>1, <2>2, <2>3, <3>1, <3>2, RunTypes, RunReads
  <2>. HIDE DEF k, q, m
  <2>6. ~Stuck(q, text, k)
    <3>1. ASSUME Stuck(q, text, k)
          PROVE  FALSE
      <4>1. p = q /\ Len(q.line) = BUFFER_SIZE
        BY <2>4, <3>1 DEF Stuck, parser_feed
      <4> QED
        BY <1>1, <1>6, <4>1
    <3> QED
      BY <3>1
  <2>7. Len(q.line) < BUFFER_SIZE /\ \E v : Reading(q, text, k, v)
    BY <2>5, <2>6 DEF Reads
  <2>8. p = [q EXCEPT !.line = Append(@, "CR")]
    <3>1. Len(q.line) # BUFFER_SIZE
      BY <1>1, <2>7
    <3>2. p = Fed(q, IF q.state = UNDEF THEN toupper("CR") ELSE "CR")
      BY <1>12, <2>4, <3>1 DEF parser_feed
    <3>3. toupper("CR") = "CR"
      BY DEF toupper
    <3> QED
      BY <3>2, <3>3 DEF Fed
  <2>9. Front(p.line) = q.line
    <3>1. q.line \in Seq(Byte) /\ "CR" \in Byte /\ Len(q.line) \in Nat
      BY <2>5 DEF ParserState, Byte
    <3>2. p.line = Append(q.line, "CR")
      BY <2>5, <2>8 DEF ParserState
    <3>3. p.line \in Seq(Byte) /\ Len(p.line) = Len(q.line) + 1
          /\ \A i \in 1 .. Len(q.line) : p.line[i] = q.line[i]
      BY <3>1, <3>2, AppendProperties
    <3>4. p.line # <<>>
      BY <3>1, <3>3
    <3>5. /\ Front(p.line) \in Seq(Byte) /\ Len(Front(p.line)) = Len(p.line) - 1
          /\ \A i \in 1 .. Len(p.line) - 1 : Front(p.line)[i] = p.line[i]
      BY <3>3, <3>4, FrontIs
    <3>6. Len(p.line) - 1 = Len(q.line)
      BY <3>1, <3>3
    <3>. DEFINE f == Front(p.line)
    <3>7. f \in Seq(Byte) /\ Len(f) = Len(q.line)
          /\ \A i \in 1 .. Len(f) : f[i] = q.line[i]
      BY <3>3, <3>5, <3>6
    <3>. HIDE DEF f
    <3>8. f = q.line
      BY <3>1, <3>7, SeqEqual
    <3> QED
      BY <3>8 DEF f
  <2>10. [p EXCEPT !.line = Front(@)] = q
    <3>1. [p EXCEPT !.line = Front(@)] = [p EXCEPT !.line = q.line]
      BY <2>9
    <3> QED
      BY <2>5, <2>8, <3>1 DEF ParserState
  <2>11. e = [r EXCEPT !.finished = TRUE]
    BY <1>7, <1>10, <1>12, <2>10 DEF EndOfLine
  <2>12. r \in ParserState
    BY <2>5, <2>7, ProcessType
  <2>13. r.state = Verdict(text)
         /\ (r.state # ERROR => ArgsAre(r, text, {i \in Starts(text) : i < k + 2}))
    <3>. HIDE DEF text
    <3>1. k \in 0 .. Len(text)
      BY <2>1, <2>2
    <3> QED
      BY <2>2, <2>5, <2>7, <3>1, WordEnds
  <2>14. {i \in Starts(text) : i < k + 2} = Starts(text)
    <3>. HIDE DEF text
    <3> QED
      BY <2>1, <2>2 DEF Starts
  <2>. HIDE DEF r
  <2>15. e.state = r.state /\ e.arg1 = r.arg1 /\ e.arg2 = r.arg2
    BY <2>11, <2>12 DEF ParserState
  <2>16. text = SubSeq(s, 1, Len(s) - 2) /\ Len(s) >= 2 /\ s[Len(s) - 1] = "CR"
    BY <1>12, <2>1
  <2>. HIDE DEF text
  <2>. DEFINE verb == Upper(WordAt(text, 1))
  <2>17. CommandOf(s) = IF verb \in Verbs
                        THEN <<verb, Arg(text, Starts(text)), Arg(text, Later(Starts(text)))>>
                        ELSE <<ERROR>>
    BY <2>16 DEF CommandOf
  <2>18. r.state = IF verb \in Verbs THEN verb ELSE ERROR
    BY <2>13 DEF Verdict
  <2>. HIDE DEF verb
  <2>19. Told(e) = CommandOf(s)
    BY <2>13, <2>14, <2>15, <2>17, <2>18, Constants DEF Told, ArgsAre
  <2> QED
    BY <1>8, <2>19 DEF e
<1> QED
  BY <1>11, <1>12

-----------------------------------------------------------------------------
(* -- What pop3cmd_consume takes from a buffer -- *)

SizedParser == {p \in ParserState : Sized(p)}
Taking == [parser : SizedParser, n : Nat]

Turn(r, b) == IF r.parser.finished THEN r
              ELSE [parser |-> parser_feed(r.parser, b), n |-> r.n + 1]

(* R[i] is what has been done once i bytes have been looked at. *)
Consumed(R, p, bytes) ==
    /\ R \in [0 .. Len(bytes) -> Taking]
    /\ R[0] = [parser |-> p, n |-> 0]
    /\ R[Len(bytes)] = pop3cmd_consume(p, bytes)
    /\ \A i \in 1 .. Len(bytes) : R[i] = Turn(R[i - 1], bytes[i])

LEMMA TurnType ==
    ASSUME NEW r \in Taking, NEW b \in Byte
    PROVE  Turn(r, b) \in Taking
<1>1. r.parser \in ParserState /\ Sized(r.parser) /\ r.n \in Nat
  BY DEF Taking, SizedParser
<1>2. parser_feed(r.parser, b) \in SizedParser /\ r.n + 1 \in Nat
  BY <1>1, FeedType DEF SizedParser
<1> QED
  BY <1>2 DEF Turn, Taking

LEMMA ConsumeSteps ==
    ASSUME NEW p \in SizedParser, NEW bytes \in Seq(Byte)
    PROVE  \E R : Consumed(R, p, bytes)
<1>. DEFINE N == Len(bytes)
<1>. DEFINE S == Taking
<1>. DEFINE base == [parser |-> p, n |-> 0]
<1>. DEFINE h == [x \in S \X (1 .. N) |-> Turn(x[1], bytes[x[2]])]
<1>1. N \in Nat /\ DOMAIN bytes = 1 .. N
  OBVIOUS
<1>2. base \in S
  BY DEF Taking
<1>3. h \in [S \X (1 .. N) -> S]
  <2>1. \A q \in S, n \in 1 .. N : Turn(q, bytes[n]) \in S
    BY TurnType, ElementOfSeq
  <2> QED
    BY <2>1
<1>4. \A q \in S, n \in 1 .. N : h[<<q, n>>] = Turn(q, bytes[n])
  OBVIOUS
<1>. HIDE DEF S, h, base, N
<1>5. PICK g : FoldsSets(g, S, N, base, h)
  BY <1>1, <1>2, <1>3, FoldExists
<1>6. g = [t \in SUBSET (DOMAIN bytes) |->
             IF t = {} THEN base ELSE Turn(g[t \ {Max(t)}], bytes[Max(t)])]
  <2>1. ASSUME NEW t \in SUBSET (1 .. N), t # {}
        PROVE  h[<<g[t \ {Max(t)}], Max(t)>>] = Turn(g[t \ {Max(t)}], bytes[Max(t)])
    <3>1. Max(t) \in 1 .. N /\ t \ {Max(t)} \in SUBSET (1 .. N)
      BY <1>1, <2>1, MaxIn
    <3> QED
      BY <1>4, <1>5, <3>1 DEF FoldsSets
  <2> QED
    BY <1>1, <1>5, <2>1 DEF FoldsSets
<1>7. PICK iter :
         /\ iter = [t \in SUBSET (DOMAIN bytes) |->
                      IF t = {} THEN base
                      ELSE Turn(iter[t \ {Max(t)}], bytes[Max(t)])]
         /\ pop3cmd_consume(p, bytes) = iter[DOMAIN bytes]
  BY <1>6 DEF pop3cmd_consume, FoldLeft, MapThenFoldSet, base, Turn
<1>8. iter[{}] = base
  BY <1>7
<1>9. \A t \in SUBSET (1 .. N) : t # {} /\ iter[t \ {Max(t)}] \in S
         => iter[t] = h[<<iter[t \ {Max(t)}], Max(t)>>]
  <2>. SUFFICES ASSUME NEW t \in SUBSET (1 .. N), t # {}, iter[t \ {Max(t)}] \in S
                PROVE  iter[t] = h[<<iter[t \ {Max(t)}], Max(t)>>]
    OBVIOUS
  <2>1. Max(t) \in 1 .. N
    BY <1>1, MaxIn
  <2>2. iter[t] = Turn(iter[t \ {Max(t)}], bytes[Max(t)])
    BY <1>1, <1>7, <2>1
  <2> QED
    BY <1>4, <2>1, <2>2
<1>10. FoldsWithin(iter, S, N, base, h)
  BY <1>8, <1>9 DEF FoldsWithin
<1>11. PICK R : FoldsUpTo(R, iter[1 .. N], S, N, base, h)
  BY <1>1, <1>2, <1>3, <1>10, FoldSteps
<1>12. ASSUME NEW n \in 1 .. N
       PROVE  R[n] = Turn(R[n - 1], bytes[n])
  <2>1. n - 1 \in 0 .. N
    BY <1>1
  <2> QED
    BY <1>4, <1>11, <2>1 DEF FoldsUpTo
<1> QED
  BY <1>1, <1>7, <1>11, <1>12 DEF S, base, N, FoldsUpTo, Consumed

(* Bytes have been taken one by one, up to the end of a line or the last. *)
LEMMA ConsumeIs ==
    ASSUME NEW p \in SizedParser, ~p.finished, NEW bytes \in Seq(Byte)
    PROVE  LET r == pop3cmd_consume(p, bytes)
           IN  /\ r \in Taking /\ r.n <= Len(bytes)
               /\ ~r.parser.finished => r.n = Len(bytes)
               /\ \E G : /\ G[0] = p /\ G[r.n] = r.parser
                         /\ \A i \in 1 .. r.n : G[i] = parser_feed(G[i - 1], bytes[i])
                         /\ \A i \in 0 .. r.n - 1 : ~G[i].finished
<1>. DEFINE N == Len(bytes)
<1>. DEFINE r == pop3cmd_consume(p, bytes)
<1>1. PICK R : Consumed(R, p, bytes)
  BY ConsumeSteps
<1>. DEFINE P == {i \in 0 .. N : /\ R[i].n \in 0 .. i /\ R[R[i].n] = R[i]
                                 /\ ~R[i].parser.finished => R[i].n = i
                                 /\ \A k \in 0 .. R[i].n - 1 : ~R[k].parser.finished}
<1>2. N \in Nat
  OBVIOUS
<1>3. R[0] = [parser |-> p, n |-> 0] /\ \A i \in 0 .. N : R[i] \in Taking
  BY <1>1, <1>2 DEF Consumed
<1>4. 0 \in P
  BY <1>2, <1>3
<1>5. ASSUME NEW i \in 1 .. N, i - 1 \in P
      PROVE  i \in P
  <2>1. R[i] = Turn(R[i - 1], bytes[i]) /\ i - 1 \in 0 .. N /\ i \in 0 .. N
    BY <1>1, <1>2 DEF Consumed
  <2>2. CASE R[i - 1].parser.finished
    <3>1. R[i] = R[i - 1]
      BY <2>1, <2>2 DEF Turn
    <3> QED
      BY <1>2, <1>5, <2>1, <2>2, <3>1
  <2>3. CASE ~R[i - 1].parser.finished
    <3>1. R[i - 1].n = i - 1
      BY <1>5, <2>3
    <3>2. R[i].n = R[i - 1].n + 1
      BY <2>1, <2>3 DEF Turn
    <3>3. R[i].n = i
      BY <1>2, <3>1, <3>2
    <3>4. \A k \in 0 .. i - 1 : k \in 0 .. R[i - 1].n - 1 \/ k = i - 1
      BY <1>2, <3>1
    <3>5. \A k \in 0 .. i - 1 : ~R[k].parser.finished
      BY <1>5, <2>3, <3>4
    <3> QED
      BY <1>2, <2>1, <3>3, <3>5
  <2> QED
    BY <2>2, <2>3
<1>6. N \in P
  <2>1. P \in SUBSET (0 .. N) /\ N \in 0 .. N
    BY <1>2
  <2>. HIDE DEF P, N
  <2> QED
    BY <1>2, <1>4, <1>5, <2>1, UpTo
<1>7. R[N] = r
  BY <1>1 DEF Consumed
<1>8. /\ r \in Taking /\ r.n \in 0 .. N /\ R[r.n] = r
      /\ ~r.parser.finished => r.n = N
      /\ \A k \in 0 .. r.n - 1 : ~R[k].parser.finished
  <2>1. r \in Taking
    BY <1>2, <1>3, <1>7
  <2>. HIDE DEF r
  <2> QED
    BY <1>6, <1>7, <2>1
<1>. HIDE DEF P, r, N
<1>. DEFINE G == [i \in 0 .. r.n |-> R[i].parser]
<1>9. G[0] = p /\ G[r.n] = r.parser /\ \A i \in 0 .. r.n - 1 : ~G[i].finished
  BY <1>2, <1>3, <1>8
<1>10. ASSUME NEW i \in 1 .. r.n
       PROVE  G[i] = parser_feed(G[i - 1], bytes[i])
  <2>1. i \in 1 .. N /\ i - 1 \in 0 .. r.n - 1 /\ i - 1 \in 0 .. r.n /\ i \in 0 .. r.n
    BY <1>2, <1>8
  <2>2. ~R[i - 1].parser.finished
    BY <1>8, <2>1
  <2>3. R[i] = Turn(R[i - 1], bytes[i])
    BY <1>1, <2>1 DEF Consumed, N
  <2>4. R[i].parser = parser_feed(R[i - 1].parser, bytes[i])
    BY <2>2, <2>3 DEF Turn
  <2> QED
    BY <2>1, <2>4
<1>. HIDE DEF G
<1> QED
  BY <1>2, <1>8, <1>9, <1>10 DEF r, N

-----------------------------------------------------------------------------
(* -- The lines of a connection -- *)

(* p has read s and wants more; c is what the whole line s was taken for. *)
Unfinished(p, s) == \E F : /\ Feeds(F, s, Len(s)) /\ F[Len(s)] = p
                           /\ \A n \in 0 .. Len(s) : ~F[n].finished
LineFor(c, s) == \E F : /\ Feeds(F, s, Len(s)) /\ F[Len(s)].finished
                        /\ \A n \in 0 .. Len(s) - 1 : ~F[n].finished
                        /\ c = <<F[Len(s)].state, F[Len(s)].arg1, F[Len(s)].arg2>>

QueueInv == clientBuffer \in Queues(Byte) /\ Fits(clientBuffer)
LineInv  == line \in Seq(Byte) /\ Unfinished(parser, line)
TurnInv  == stm \in {"READ", "WRITE", "WRITE_FILE", "ABORT"}
DoneInv  == executed # None => /\ executed.line \in Seq(Byte) /\ Len(executed.line) >= 1
                               /\ LineFor(executed.command, executed.line)
ParserInv == QueueInv /\ LineInv /\ TurnInv /\ DoneInv

LEMMA LeftInQueue ==
    ASSUME NEW q \in Queues(Byte), Fits(q), NEW n \in 0 .. Len(q.bytes)
    PROVE  buffer_read_adv(q, n) \in Queues(Byte) /\ Fits(buffer_read_adv(q, n))
<1>1. q.bytes \in Seq(Byte) /\ q.read \in Nat /\ Len(q.bytes) \in Nat /\ n \in Nat
      /\ BUFFER_SIZE \in Nat
  BY BufferSizeAssumption DEF Queues
<1>. DEFINE rest == SubSeq(q.bytes, n + 1, Len(q.bytes))
<1>2. rest \in Seq(Byte) /\ Len(rest) = Len(q.bytes) - n
  <2>1. n + 1 \in Int /\ Len(q.bytes) \in Int
        /\ \A i \in n + 1 .. Len(q.bytes) : q.bytes[i] \in Byte
    <3>1. \A i \in n + 1 .. Len(q.bytes) : i \in 1 .. Len(q.bytes)
      BY <1>1
    <3> QED
      BY <1>1, <3>1, ElementOfSeq
  <2>2. rest \in Seq(Byte)
        /\ Len(rest) = IF n + 1 <= Len(q.bytes) THEN Len(q.bytes) - (n + 1) + 1 ELSE 0
    BY <2>1, SubSeqProperties
  <2>3. (IF n + 1 <= Len(q.bytes) THEN Len(q.bytes) - (n + 1) + 1 ELSE 0)
          = Len(q.bytes) - n
    BY <1>1
  <2> QED
    BY <2>2, <2>3
<1>3. q.read + Len(q.bytes) <= BUFFER_SIZE
  BY DEF Fits, Written
<1>. DEFINE after == buffer_read_adv(q, n)
<1>4. after = [bytes |-> rest, read |-> IF n = Len(q.bytes) THEN 0 ELSE q.read + n]
  BY DEF buffer_read_adv
<1>. HIDE DEF rest
<1>5. after.bytes = rest /\ after.read = (IF n = Len(q.bytes) THEN 0 ELSE q.read + n)
      /\ after \in Queues(Byte)
  BY <1>1, <1>2, <1>4 DEF Queues
<1>. HIDE DEF after
<1>6. after.read + Len(after.bytes) <= BUFFER_SIZE
  BY <1>1, <1>2, <1>3, <1>5
<1> QED
  BY <1>5, <1>6 DEF Fits, Written, after

LEMMA MoreInQueue ==
    ASSUME NEW q \in Queues(Byte), Fits(q), NEW s \in BoundedSeq(Byte, Space(q))
    PROVE  buffer_write_adv(q, s) \in Queues(Byte) /\ Fits(buffer_write_adv(q, s))
<1>1. q.bytes \in Seq(Byte) /\ q.read \in Nat /\ Len(q.bytes) \in Nat
      /\ BUFFER_SIZE \in Nat
  BY BufferSizeAssumption DEF Queues
<1>2. Space(q) = BUFFER_SIZE - (q.read + Len(q.bytes)) /\ Space(q) \in Nat
  BY <1>1 DEF Fits, Space, Written
<1>3. s \in Seq(Byte) /\ Len(s) <= Space(q)
  <2>1. PICK m \in 0 .. Space(q) : s \in [1 .. m -> Byte]
    BY DEF BoundedSeq, SeqOf
  <2>2. m \in Nat /\ m <= Space(q)
    BY <1>2, <2>1
  <2>3. s \in Seq(Byte)
    BY <2>1, <2>2, SeqDef
  <2>4. Len(s) = m
    BY <2>1, <2>2, <2>3, LenProperties
  <2> QED
    BY <2>2, <2>3, <2>4
<1>4. q.bytes \o s \in Seq(Byte) /\ Len(q.bytes \o s) = Len(q.bytes) + Len(s)
  BY <1>1, <1>3, ConcatProperties
<1>. DEFINE after == buffer_write_adv(q, s)
<1>5. after \in Queues(Byte) /\ after.bytes = q.bytes \o s /\ after.read = q.read
  BY <1>4 DEF Queues, buffer_write_adv
<1>. HIDE DEF after
<1>6. after.read + Len(after.bytes) <= BUFFER_SIZE
  BY <1>1, <1>2, <1>3, <1>4, <1>5
<1> QED
  BY <1>5, <1>6 DEF Fits, Written, after

LEMMA NoBytes == Unfinished(NewParser, <<>>)
<1>. DEFINE F == [i \in {0} |-> NewParser]
<1>1. F[0] = NewParser /\ Len(<<>>) = 0 /\ 1 .. 0 = {} /\ 0 .. 0 = {0}
  OBVIOUS
<1>2. ~NewParser.finished
  BY DEF NewParser
<1>. HIDE DEF F
<1> QED
  BY <1>1, <1>2 DEF Unfinished, Feeds

(* Bytes that follow those of s are read by the parser that has read s. *)
LEMMA Continued ==
    ASSUME NEW s \in Seq(Byte), NEW u \in Seq(Byte), NEW p, Unfinished(p, s),
           NEW G, G[0] = p,
           \A i \in 1 .. Len(u) : G[i] = parser_feed(G[i - 1], u[i]),
           \A i \in 0 .. Len(u) - 1 : ~G[i].finished
    PROVE  \E F : /\ Feeds(F, s \o u, Len(s \o u)) /\ F[Len(s \o u)] = G[Len(u)]
                  /\ \A n \in 0 .. Len(s \o u) - 1 : ~F[n].finished
<1>. DEFINE L == Len(s)
<1>. DEFINE U == Len(u)
<1>. DEFINE t == s \o u
<1>1. L \in Nat /\ U \in Nat
  OBVIOUS
<1>2. t \in Seq(Byte) /\ Len(t) = L + U
      /\ \A i \in 1 .. L + U : t[i] = IF i <= L THEN s[i] ELSE u[i - L]
  BY ConcatProperties
<1>3. PICK E : Feeds(E, s, L) /\ E[L] = p /\ \A n \in 0 .. L : ~E[n].finished
  BY DEF Unfinished
<1>. DEFINE F == [n \in 0 .. L + U |-> IF n <= L THEN E[n] ELSE G[n - L]]
<1>. HIDE DEF t, L, U
<1>4. F[0] = NewParser
  BY <1>1, <1>3 DEF Feeds
<1>5. \A n \in L .. L + U : F[n] = G[n - L]
  <2>1. F[L] = G[0] /\ L - L = 0
    BY <1>1, <1>3
  <2>2. \A n \in L .. L + U : n = L \/ (n \in 0 .. L + U /\ ~(n <= L))
    BY <1>1
  <2> QED
    BY <2>1, <2>2
<1>6. \A n \in 0 .. L : F[n] = E[n]
  BY <1>1
<1>7. ASSUME NEW n \in 1 .. L + U
      PROVE  F[n] = parser_feed(F[n - 1], t[n])
  <2>1. CASE n <= L
    <3>1. n \in 1 .. L /\ n \in 0 .. L /\ n - 1 \in 0 .. L /\ t[n] = s[n]
      BY <1>1, <1>2, <2>1
    <3>. HIDE DEF F
    <3> QED
      BY <1>3, <1>6, <3>1 DEF Feeds
  <2>2. CASE ~(n <= L)
    <3>1. n \in L .. L + U /\ n - 1 \in L .. L + U /\ n - L \in 1 .. U
          /\ n - 1 - L = n - L - 1 /\ t[n] = u[n - L]
      BY <1>1, <1>2, <2>2
    <3>2. F[n] = G[n - L] /\ F[n - 1] = G[n - L - 1]
      <4>. HIDE DEF F
      <4> QED
        BY <1>5, <3>1
    <3>. HIDE DEF F
    <3> QED
      BY <3>1, <3>2 DEF U
  <2> QED
    BY <2>1, <2>2
<1>8. \A n \in 0 .. L + U - 1 : ~F[n].finished
  <2>1. \A n \in 0 .. L : ~F[n].finished
    <3>. HIDE DEF F
    <3> QED
      BY <1>3, <1>6
  <2>2. ASSUME NEW n \in 0 .. L + U - 1, ~(n <= L)
        PROVE  ~F[n].finished
    <3>1. n \in L .. L + U /\ n - L \in 0 .. U - 1
      BY <1>1, <2>2
    <3>. HIDE DEF F
    <3> QED
      BY <1>5, <3>1 DEF U
  <2>3. \A n \in 0 .. L + U - 1 : n <= L => n \in 0 .. L
    BY <1>1
  <2>. HIDE DEF F
  <2> QED
    BY <2>1, <2>2, <2>3
<1>9. F[L + U] = G[U]
  <2>. DEFINE n == L + U
  <2>1. n \in L .. n /\ n - L = U
    BY <1>1
  <2>2. F[n] = G[n - L]
    <3>. HIDE DEF F
    <3> QED
      BY <1>5, <2>1
  <2>. HIDE DEF n, F
  <2>3. F[n] = G[U]
    BY <2>1, <2>2
  <2> QED
    BY <2>3 DEF n
<1>. HIDE DEF F
<1>10. Feeds(F, t, L + U)
  BY <1>4, <1>7 DEF Feeds
<1>11. Feeds(F, t, Len(t)) /\ F[Len(t)] = G[Len(u)]
       /\ \A n \in 0 .. Len(t) - 1 : ~F[n].finished
  BY <1>1, <1>2, <1>8, <1>9, <1>10 DEF U
<1> QED
  BY <1>11 DEF t

LEMMA ParserInInv ==
    ASSUME NEW s \in Seq(Byte), NEW p, Unfinished(p, s)
    PROVE  p \in SizedParser /\ ~p.finished
<1>1. PICK F : Feeds(F, s, Len(s)) /\ F[Len(s)] = p /\ \A n \in 0 .. Len(s) : ~F[n].finished
  BY DEF Unfinished
<1>2. Len(s) \in 0 .. Len(s)
  OBVIOUS
<1>3. F[Len(s)] \in ParserState /\ Sized(F[Len(s)])
  BY <1>1, <1>2, RunTypes
<1> QED
  BY <1>1, <1>2, <1>3 DEF SizedParser

LEMMA ParseKeeps ==
    ASSUME ParserInv, NEW q \in Queues(Byte), Fits(q), NEW next \in {"READ", "ABORT"},
           parseCommandInBuffer(q, next)
    PROVE  ParserInv'
<1>1. CASE ~buffer_can_read(q)
  <2>1. parser' = NewParser /\ clientBuffer' = q /\ line' = <<>> /\ executed' = None
        /\ stm' = "READ"
    BY <1>1 DEF parseCommandInBuffer
  <2> QED
    BY <2>1, NoBytes DEF ParserInv, QueueInv, LineInv, TurnInv, DoneInv
<1>2. CASE buffer_can_read(q)
  <2>. DEFINE r == pop3cmd_consume(parser, q.bytes)
  <2>. DEFINE u == SubSeq(q.bytes, 1, r.n)
  <2>. DEFINE taken == line \o u
  <2>1. q.bytes \in Seq(Byte) /\ line \in Seq(Byte) /\ Unfinished(parser, line)
    BY DEF ParserInv, LineInv, Queues
  <2>2. parser \in SizedParser /\ ~parser.finished
    BY <2>1, ParserInInv
  <2>3. /\ r \in Taking /\ r.n <= Len(q.bytes)
        /\ ~r.parser.finished => r.n = Len(q.bytes)
        /\ \E G : /\ G[0] = parser /\ G[r.n] = r.parser
                  /\ \A i \in 1 .. r.n : G[i] = parser_feed(G[i - 1], q.bytes[i])
                  /\ \A i \in 0 .. r.n - 1 : ~G[i].finished
    BY <2>1, <2>2, ConsumeIs
  <2>. HIDE DEF r
  <2>4. PICK G : /\ G[0] = parser /\ G[r.n] = r.parser
                 /\ \A i \in 1 .. r.n : G[i] = parser_feed(G[i - 1], q.bytes[i])
                 /\ \A i \in 0 .. r.n - 1 : ~G[i].finished
    BY <2>3
  <2>5. r.n \in 0 .. Len(q.bytes) /\ r.n \in Nat
    BY <2>3 DEF Taking
  <2>6. u \in Seq(Byte) /\ Len(u) = r.n /\ \A i \in 1 .. r.n : u[i] = q.bytes[i]
    BY <2>1, <2>5, FirstBytes
  <2>. HIDE DEF u
  <2>7. /\ \A i \in 1 .. Len(u) : G[i] = parser_feed(G[i - 1], u[i])
        /\ \A i \in 0 .. Len(u) - 1 : ~G[i].finished
        /\ G[0] = parser /\ G[Len(u)] = r.parser
    BY <2>4, <2>6
  <2>8. PICK F : /\ Feeds(F, taken, Len(taken)) /\ F[Len(taken)] = r.parser
                 /\ \A n \in 0 .. Len(taken) - 1 : ~F[n].finished
    BY <2>1, <2>6, <2>7, Continued
  <2>9. taken \in Seq(Byte) /\ Len(taken) = Len(line) + r.n /\ Len(taken) \in Nat
    <3>1. taken \in Seq(Byte) /\ Len(taken) = Len(line) + Len(u)
      BY <2>1, <2>6, ConcatProperties
    <3> QED
      BY <2>6, <3>1
  <2>. HIDE DEF taken
  <2>10. /\ clientBuffer' = buffer_read_adv(q, r.n)
         /\ IF r.parser.finished
            THEN /\ executed' = [line |-> taken,
                                 command |-> <<r.parser.state, r.parser.arg1, r.parser.arg2>>]
                 /\ parser' = NewParser /\ line' = <<>>
                 /\ stm' \in {"WRITE", "WRITE_FILE"}
            ELSE /\ executed' = None /\ parser' = r.parser /\ line' = taken
                 /\ stm' = next
    BY <1>2 DEF parseCommandInBuffer, taken, u, r
  <2>11. QueueInv'
    BY <2>5, <2>10, LeftInQueue DEF QueueInv
  <2>12. CASE r.parser.finished
    <3>1. executed'.line = taken
          /\ executed'.command = <<r.parser.state, r.parser.arg1, r.parser.arg2>>
      BY <2>10, <2>12
    <3>2. Len(taken) >= 1
      <4>1. ASSUME r.n = 0
            PROVE  FALSE
        BY <2>2, <2>4, <2>12, <4>1
      <4> QED
        BY <2>1, <2>5, <2>9, <4>1
    <3>3. LineFor(executed'.command, executed'.line)
      <4>1. LineFor(executed'.command, taken)
        BY <2>8, <2>12, <3>1 DEF LineFor
      <4> QED
        BY <3>1, <4>1
    <3>4. DoneInv'
      BY <2>9, <3>1, <3>2, <3>3 DEF DoneInv
    <3>5. LineInv' /\ TurnInv'
      BY <2>10, <2>12, NoBytes DEF LineInv, TurnInv
    <3> QED
      BY <2>11, <3>4, <3>5 DEF ParserInv
  <2>13. CASE ~r.parser.finished
    <3>1. \A n \in 0 .. Len(taken) : ~F[n].finished
      <4>1. \A n \in 0 .. Len(taken) : n \in 0 .. Len(taken) - 1 \/ n = Len(taken)
        BY <2>9
      <4> QED
        BY <2>8, <2>13, <4>1
    <3>2. Unfinished(r.parser, taken)
      BY <2>8, <3>1 DEF Unfinished
    <3>3. LineInv' /\ TurnInv' /\ DoneInv'
      BY <2>9, <2>10, <2>13, <3>2 DEF LineInv, TurnInv, DoneInv
    <3> QED
      BY <2>11, <3>3 DEF ParserInv
  <2> QED
    BY <2>12, <2>13
<1> QED
  BY <1>1, <1>2

LEMMA ParserInvInit == Init => ParserInv
<1>. SUFFICES ASSUME Init
              PROVE  ParserInv
  OBVIOUS
<1>1. QueueInv
  <2>1. clientBuffer.bytes = <<>> /\ clientBuffer.read = 0 /\ clientBuffer \in Queues(Byte)
    BY DEF Init, Empty, Queues
  <2> QED
    BY <2>1, Constants DEF QueueInv, Fits, Written
<1>2. LineInv /\ TurnInv /\ DoneInv
  BY NoBytes DEF Init, LineInv, TurnInv, DoneInv
<1> QED
  BY <1>1, <1>2 DEF ParserInv

LEMMA ParserInvNext == ParserInv /\ [Next]_vars => ParserInv'
<1>. SUFFICES ASSUME ParserInv, [Next]_vars
              PROVE  ParserInv'
  OBVIOUS
<1>1. CASE pop3ReadCommand
  <2>1. PICK s \in BoundedSeq(Byte, Space(clientBuffer)) :
           parseCommandInBuffer(buffer_write_adv(clientBuffer, s), "READ")
    BY <1>1 DEF pop3ReadCommand
  <2>2. buffer_write_adv(clientBuffer, s) \in Queues(Byte)
        /\ Fits(buffer_write_adv(clientBuffer, s))
    BY <2>1, MoreInQueue DEF ParserInv, QueueInv
  <2> QED
    BY <2>1, <2>2, ParseKeeps
<1>2. CASE pop3WriteCommand
  <2>1. CASE buffer_can_read(clientBuffer)
    <3>1. parseCommandInBuffer(clientBuffer, "ABORT")
      BY <1>2, <2>1 DEF pop3WriteCommand
    <3>2. clientBuffer \in Queues(Byte) /\ Fits(clientBuffer)
      BY DEF ParserInv, QueueInv
    <3> QED
      BY <3>1, <3>2, ParseKeeps
  <2>2. CASE ~buffer_can_read(clientBuffer)
    <3>1. stm' = "READ" /\ executed' = None /\ UNCHANGED <<clientBuffer, parser, line>>
      BY <1>2, <2>2 DEF pop3WriteCommand
    <3> QED
      BY <3>1 DEF ParserInv, QueueInv, LineInv, TurnInv, DoneInv
  <2> QED
    BY <2>1, <2>2
<1>3. CASE pop3WriteFile
  BY <1>3 DEF pop3WriteFile, ParserInv, QueueInv, LineInv, TurnInv, DoneInv
<1>4. CASE UNCHANGED vars
  BY <1>4 DEF vars, ParserInv, QueueInv, LineInv, TurnInv, DoneInv
<1> QED
  BY <1>1, <1>2, <1>3, <1>4 DEF Next

(* What was taken since the end of the last line has been read byte by     *)
(* byte from a new parser, and so was the line that is being answered.     *)
THEOREM ParserInvariant == Spec => []ParserInv
BY ParserInvInit, ParserInvNext, PTL DEF Spec

-----------------------------------------------------------------------------

LEMMA InvTypes == ParserInv => TypeOK
<1>. SUFFICES ASSUME ParserInv
              PROVE  TypeOK
  OBVIOUS
<1>1. line \in Seq(Byte) /\ Unfinished(parser, line)
  BY DEF ParserInv, LineInv
<1>2. parser \in ParserState /\ Sized(parser) /\ ~parser.finished
  BY <1>1, ParserInInv DEF SizedParser
<1>3. line = <<>> => parser = NewParser
  <2>1. PICK F : Feeds(F, line, Len(line)) /\ F[Len(line)] = parser
    BY <1>1 DEF Unfinished
  <2>2. line = <<>> => Len(line) = 0
    OBVIOUS
  <2> QED
    BY <2>1, <2>2 DEF Feeds
<1>4. \A a \in {parser.arg1, parser.arg2} : Len(a) < BUFFER_SIZE
  BY <1>2 DEF Sized
<1>5. parser.state \in Verbs \cup {UNDEF, ERROR} /\ Len(parser.line) <= BUFFER_SIZE
  BY <1>2 DEF ParserState, Sized
<1> QED
  BY <1>2, <1>3, <1>4, <1>5 DEF ParserInv, QueueInv, TurnInv, TypeOK

(* Nothing is stored beyond the memory of the client buffer, of the word   *)
(* that is read or of an argument, terminator included, and between two    *)
(* commands the parser is as new (parser_feed, process_buffer,             *)
(* parseCommandInBuffer).                                                  *)
THEOREM ParserTypes == Spec => []TypeOK
<1>1. ParserInv => TypeOK
  BY InvTypes
<1> QED
  BY <1>1, ParserInvariant, PTL

LEMMA InvEnds == ParserInv => EndOfLineSeen
<1>. SUFFICES ASSUME ParserInv
              PROVE  EndOfLineSeen
  OBVIOUS
<1>. DEFINE N == Len(line)
<1>1. line \in Seq(Byte) /\ Unfinished(parser, line)
  BY DEF ParserInv, LineInv
<1>2. PICK F : Feeds(F, line, N) /\ F[N] = parser /\ \A n \in 0 .. N : ~F[n].finished
  BY <1>1 DEF Unfinished
<1>3. N \in 0 .. N /\ N \in 0 .. Len(line) /\ N \in Nat
  BY <1>1
<1>. HIDE DEF N
<1>4. Stuck(F[N], line, N) \/ Reads(F[N], line, N)
  BY <1>1, <1>2, <1>3, RunReads
<1>5. LongWord(line) <=> LongBy(line, N)
  BY DEF LongWord, LongBy, N
<1>6. CASE Stuck(parser, line, N)
  BY <1>5, <1>6 DEF Stuck, EndOfLineSeen
<1>7. CASE Reads(parser, line, N)
  <2>1. Len(parser.line) < BUFFER_SIZE /\ ~LongWord(line)
        /\ \A i \in DOMAIN line : line[i] # "LF"
    BY <1>1, <1>5, <1>7 DEF Reads, N
  <2>2. Len(parser.line) # BUFFER_SIZE
    <3>1. parser.line \in Seq(Byte) /\ Len(parser.line) \in Nat
      BY <1>1, ParserInInv DEF SizedParser, ParserState
    <3> QED
      BY <2>1, <3>1, Constants
  <2> QED
    BY <2>1, <2>2 DEF EndOfLineSeen
<1> QED
  BY <1>2, <1>4, <1>6, <1>7

(* However long a line is and however its bytes arrive, its end is missed  *)
(* exactly when one of its words has BUFFER_SIZE bytes (parser_feed).      *)
THEOREM LineEndsSeen == Spec => []EndOfLineSeen
<1>1. ParserInv => EndOfLineSeen
  BY InvEnds
<1> QED
  BY <1>1, ParserInvariant, PTL

LEMMA InvCommand == ParserInv => CommandIsTheLine
<1>. SUFFICES ASSUME ParserInv, executed # None
              PROVE  LET s == executed.line
                         c == IF executed.command[1] = ERROR THEN <<ERROR>>
                              ELSE executed.command
                     IN  /\ \A i \in DOMAIN s : s[i] = "LF" <=> i = Len(s)
                         /\ c = CommandOf(s)
  BY DEF CommandIsTheLine
<1>. DEFINE s == executed.line
<1>1. s \in Seq(Byte) /\ Len(s) >= 1 /\ LineFor(executed.command, s)
  BY DEF ParserInv, DoneInv
<1>2. PICK F : /\ Feeds(F, s, Len(s)) /\ F[Len(s)].finished
               /\ \A n \in 0 .. Len(s) - 1 : ~F[n].finished
               /\ executed.command = <<F[Len(s)].state, F[Len(s)].arg1, F[Len(s)].arg2>>
  BY <1>1 DEF LineFor
<1>. HIDE DEF s
<1>3. /\ \A i \in DOMAIN s : s[i] = "LF" <=> i = Len(s)
      /\ Told(F[Len(s)]) = CommandOf(s)
  BY <1>1, <1>2, LineEnds
<1>4. (IF executed.command[1] = ERROR THEN <<ERROR>> ELSE executed.command)
        = Told(F[Len(s)])
  BY <1>2 DEF Told
<1> QED
  BY <1>3, <1>4 DEF s

(* The command that is executed is the one its whole line says, wherever   *)
(* recv cut the line and whatever came with it: the bytes are read once    *)
(* each, in order, up to LF, and no word of another line has a part in it  *)
(* (process_buffer, parser_feed, pop3cmd_consume, parseCommandInBuffer).   *)
THEOREM CommandCorrect == Spec => []CommandIsTheLine
<1>1. ParserInv => CommandIsTheLine
  BY InvCommand
<1> QED
  BY <1>1, ParserInvariant, PTL

-----------------------------------------------------------------------------

(* What parsing takes from the buffer is what goes into the line. *)
LEMMA ParseTakes ==
    ASSUME ParserInv, NEW q \in Queues(Byte), NEW next, buffer_can_read(q),
           parseCommandInBuffer(q, next)
    PROVE  executed'.line \o Pending' = line \o q.bytes
<1>. DEFINE r == pop3cmd_consume(parser, q.bytes)
<1>. DEFINE u == SubSeq(q.bytes, 1, r.n)
<1>. DEFINE rest == SubSeq(q.bytes, r.n + 1, Len(q.bytes))
<1>. DEFINE taken == line \o u
<1>1. q.bytes \in Seq(Byte) /\ line \in Seq(Byte) /\ Unfinished(parser, line)
  BY DEF ParserInv, LineInv, Queues
<1>2. parser \in SizedParser /\ ~parser.finished
  BY <1>1, ParserInInv
<1>3. r \in Taking /\ r.n <= Len(q.bytes)
  BY <1>1, <1>2, ConsumeIs
<1>4. /\ clientBuffer' = buffer_read_adv(q, r.n)
      /\ IF r.parser.finished
         THEN executed' = [line |-> taken,
                           command |-> <<r.parser.state, r.parser.arg1, r.parser.arg2>>]
              /\ line' = <<>>
         ELSE executed' = None /\ line' = taken
  BY DEF parseCommandInBuffer
<1>5. clientBuffer'.bytes = rest
  BY <1>4 DEF buffer_read_adv
<1>. HIDE DEF r
<1>6. r.n \in 0 .. Len(q.bytes) /\ r.n \in Nat
  BY <1>3 DEF Taking
<1>7. u \in Seq(Byte) /\ rest \in Seq(Byte) /\ u \o rest = q.bytes
  <2>. DEFINE b == q.bytes
  <2>. DEFINE n == r.n
  <2>1. b \in Seq(Byte) /\ n \in 0 .. Len(b)
    BY <1>1, <1>6
  <2>. HIDE DEF b, n
  <2>2. n + 1 \in 1 .. Len(b) + 1 /\ 1 \in 1 .. Len(b) + 1 /\ n \in 1 - 1 .. Len(b)
        /\ Len(b) \in n .. Len(b)
    BY <2>1
  <2>3. SubSeq(b, 1, n) \in Seq(Byte) /\ SubSeq(b, n + 1, Len(b)) \in Seq(Byte)
    <3>1. SubSeq(b, 1, n) \in Seq(Byte)
      BY <2>1, FirstBytes
    <3>2. 1 <= n + 1 /\ n + 1 \in Int /\ Len(b) \in Int
          /\ \A i \in n + 1 .. Len(b) : b[i] \in Byte
      <4>1. \A i \in n + 1 .. Len(b) : i \in 1 .. Len(b)
        BY <2>1
      <4> QED
        BY <2>1, <2>2, <4>1, ElementOfSeq
    <3> QED
      BY <3>1, <3>2, SubSeqProperties
  <2>4. SubSeq(b, 1, n) \o SubSeq(b, n + 1, Len(b)) = SubSeq(b, 1, Len(b))
    BY <2>1, <2>2, ConcatAdjacentSubSeq
  <2>5. SubSeq(b, 1, Len(b)) = b
    BY <2>1, SubSeqFull
  <2> QED
    BY <2>3, <2>4, <2>5 DEF b, n
<1>. HIDE DEF u, rest
<1>8. taken \in Seq(Byte) /\ taken \o rest = line \o q.bytes
  <2>1. line \in Seq(Byte) /\ u \in Seq(Byte) /\ rest \in Seq(Byte)
    BY <1>1, <1>7
  <2>2. (line \o u) \o rest = line \o (u \o rest)
    BY <2>1, ConcatAssociative
  <2> QED
    BY <1>7, <2>1, <2>2, ConcatProperties
<1>. HIDE DEF taken
<1>9. /\ <<>> \o rest = rest /\ taken \o rest \in Seq(Byte)
      /\ <<>> \o (taken \o rest) = taken \o rest
  BY <1>7, <1>8, ConcatProperties, ConcatEmptySeq
<1>10. Pending' = line' \o rest
  BY <1>5 DEF Pending
<1>11. CASE r.parser.finished
  <2>1. executed'.line = taken /\ Pending' = rest
    BY <1>4, <1>9, <1>10, <1>11
  <2> QED
    BY <1>8, <2>1
<1>12. CASE ~r.parser.finished
  <2>1. executed'.line = <<>> /\ Pending' = taken \o rest
    BY <1>4, <1>10, <1>12 DEF None
  <2> QED
    BY <1>8, <1>9, <2>1
<1> QED
  BY <1>11, <1>12

LEMMA PrefixOfMore ==
    ASSUME NEW s \in Seq(Byte), NEW t \in Seq(Byte)
    PROVE  IsPrefix(s, s \o t)
<1>1. s \o t \in Seq(Byte) /\ Len(s \o t) = Len(s) + Len(t)
      /\ \A i \in 1 .. Len(s) : (s \o t)[i] = s[i]
  BY ConcatProperties
<1>2. Len(s) \in Nat /\ Len(t) \in Nat /\ Len(s) \in 0 .. Len(s) /\ Len(s) \in 0 .. Len(s \o t)
  BY <1>1
<1>3. /\ SubSeq(s, 1, Len(s)) \in Seq(Byte) /\ Len(SubSeq(s, 1, Len(s))) = Len(s)
      /\ \A i \in 1 .. Len(s) : SubSeq(s, 1, Len(s))[i] = s[i]
  BY <1>2, FirstBytes
<1>4. /\ SubSeq(s \o t, 1, Len(s)) \in Seq(Byte) /\ Len(SubSeq(s \o t, 1, Len(s))) = Len(s)
      /\ \A i \in 1 .. Len(s) : SubSeq(s \o t, 1, Len(s))[i] = (s \o t)[i]
  BY <1>1, <1>2, FirstBytes
<1>5. SubSeq(s, 1, Len(s)) = SubSeq(s \o t, 1, Len(s))
  BY <1>1, <1>3, <1>4, SeqEqual
<1> QED
  BY <1>1, <1>2, <1>5 DEF IsPrefix

KeptStep == \/ KeepsPending
            \/ stm = "READ" /\ clientBuffer.bytes = <<>> /\ Pending' = <<>>
               /\ executed' = None

LEMMA InvKeeps == ParserInv /\ [Next]_vars => [KeptStep]_vars
<1>. SUFFICES ASSUME ParserInv, Next
              PROVE  KeptStep
  OBVIOUS
<1>. DEFINE b == clientBuffer.bytes
<1>1. clientBuffer \in Queues(Byte) /\ b \in Seq(Byte) /\ line \in Seq(Byte)
      /\ Pending = line \o b /\ Pending \in Seq(Byte)
  <2>1. clientBuffer \in Queues(Byte) /\ b \in Seq(Byte) /\ line \in Seq(Byte)
    BY DEF ParserInv, QueueInv, LineInv, Queues
  <2> QED
    BY <2>1, ConcatProperties DEF Pending
<1>2. CASE pop3ReadCommand
  <2>1. PICK s \in BoundedSeq(Byte, Space(clientBuffer)) :
           parseCommandInBuffer(buffer_write_adv(clientBuffer, s), "READ")
    BY <1>2 DEF pop3ReadCommand
  <2>. DEFINE q == buffer_write_adv(clientBuffer, s)
  <2>2. q \in Queues(Byte) /\ q.bytes = b \o s
    <3>1. q \in Queues(Byte)
      BY <2>1, MoreInQueue DEF ParserInv, QueueInv
    <3>2. q = [clientBuffer EXCEPT !.bytes = @ \o s]
      BY DEF buffer_write_adv
    <3>3. q.bytes = b \o s
      BY <1>1, <3>2 DEF Queues
    <3> QED
      BY <3>1, <3>3
  <2>3. s \in Seq(Byte)
    <3>1. PICK m \in 0 .. Space(clientBuffer) : s \in [1 .. m -> Byte]
      BY <2>1 DEF BoundedSeq, SeqOf
    <3>2. m \in Nat
      BY <3>1
    <3> QED
      BY <3>1, <3>2, SeqDef
  <2>4. stm = "READ"
    BY <1>2 DEF pop3ReadCommand
  <2>. HIDE DEF q
  <2>5. CASE buffer_can_read(q)
    <3>1. executed'.line \o Pending' = line \o (b \o s)
      <4>1. parseCommandInBuffer(q, "READ")
        BY <2>1 DEF q
      <4>2. executed'.line \o Pending' = line \o q.bytes
        BY <2>2, <2>5, <4>1, ParseTakes
      <4> QED
        BY <2>2, <4>2
    <3>2. line \o (b \o s) = Pending \o s
      <4>1. b \in Seq(Byte) /\ line \in Seq(Byte) /\ Pending = line \o b
        BY <1>1
      <4>. HIDE DEF b
      <4>2. (line \o b) \o s = line \o (b \o s)
        BY <2>3, <4>1, ConcatAssociative
      <4> QED
        BY <4>1, <4>2
    <3>3. IsPrefix(Pending, Pending \o s)
      BY <1>1, <2>3, PrefixOfMore
    <3> QED
      BY <2>4, <3>1, <3>2, <3>3 DEF KeptStep, KeepsPending
  <2>6. CASE ~buffer_can_read(q)
    <3>1. clientBuffer' = q /\ line' = <<>> /\ executed' = None
      BY <2>1, <2>6 DEF parseCommandInBuffer, q
    <3>2. q.bytes = <<>> /\ b \o s = <<>>
      BY <2>2, <2>6 DEF buffer_can_read
    <3>3. b = <<>>
      <4>1. Len(b \o s) = Len(b) + Len(s) /\ Len(b) \in Nat /\ Len(s) \in Nat
            /\ Len(<<>>) = 0
        BY <1>1, <2>3, ConcatProperties
      <4>2. Len(b) = 0
        BY <3>2, <4>1
      <4> QED
        BY <1>1, <4>2, EmptySeq
    <3>4. Pending' = <<>> \o <<>> /\ <<>> \o <<>> = <<>>
      BY <3>1, <3>2 DEF Pending
    <3> QED
      BY <2>4, <3>1, <3>3, <3>4 DEF KeptStep
  <2> QED
    BY <2>5, <2>6
<1>3. ASSUME UNCHANGED <<clientBuffer, line>>, executed' = None
      PROVE  KeepsPending
  <2>1. Pending' = Pending /\ executed'.line = <<>>
    BY <1>3 DEF Pending, None
  <2>2. <<>> \o Pending = Pending /\ Pending \o <<>> = Pending
    BY <1>1, ConcatEmptySeq
  <2>3. <<>> \in Seq(Byte)
    OBVIOUS
  <2>4. IsPrefix(Pending, Pending)
    BY <1>1, <2>2, <2>3, PrefixOfMore
  <2> QED
    BY <2>1, <2>2, <2>4 DEF KeepsPending
<1>4. CASE pop3WriteCommand
  <2>1. CASE buffer_can_read(clientBuffer)
    <3>1. parseCommandInBuffer(clientBuffer, "ABORT") /\ stm = "WRITE"
      BY <1>4, <2>1 DEF pop3WriteCommand
    <3>2. executed'.line \o Pending' = Pending
      BY <1>1, <2>1, <3>1, ParseTakes
    <3> QED
      BY <3>1, <3>2 DEF KeptStep, KeepsPending
  <2>2. CASE ~buffer_can_read(clientBuffer)
    BY <1>3, <1>4, <2>2 DEF pop3WriteCommand, KeptStep
  <2> QED
    BY <2>1, <2>2
<1>5. CASE pop3WriteFile
  BY <1>3, <1>5 DEF pop3WriteFile, KeptStep
<1> QED
  BY <1>2, <1>4, <1>5 DEF Next

(* However reads cut the input and whatever is executed between them, what *)
(* was received is executed byte after byte, in order and once, except for *)
(* the part of a line that a read of nothing throws away                   *)
(* (parseCommandInBuffer, pop3WriteFile).                                  *)
THEOREM InputKept == Spec => BytesKept
<1>1. ParserInv /\ [Next]_vars => [KeptStep]_vars
  BY InvKeeps
<1> QED
  BY <1>1, ParserInvariant, PTL DEF Spec, BytesKept, KeptStep
=============================================================================
