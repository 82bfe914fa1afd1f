------------------------------- MODULE Parser -------------------------------
(***************************************************************************)
(* The recognition of commands on one connection (parser.c, pop3cmd.c and  *)
(* parseCommandInBuffer of pop3.c): the bytes recv puts in the client      *)
(* buffer are fed to the parser one by one, up to the end of a line; the   *)
(* command is executed, the parser reset, and what follows in the buffer   *)
(* parsed after the reply.                                                 *)
(*                                                                         *)
(* "a" and "A" stand for the letters: a lower case one and its upper case. *)
(***************************************************************************)
EXTENDS ByteQueue, SequencesExt

CONSTANTS
    Verbs,      \* the words process_buffer knows
    MaxLine     \* bound: bytes of an unfinished line, the buffer included

ASSUME ParserAssumption ==
    /\ Verbs \subseteq Seq({"A"}) \ {<<>>}
    /\ BUFFER_SIZE # 0 /\ MaxLine \in Nat

Byte == {"A", "a", "SP", "CR", "LF"}

VARIABLES
    clientBuffer,
    parser,     \* the fields of struct pop3cmd_parser; Len(line) is line_size
    stm,        \* "READ", "WRITE", "WRITE_FILE", or "ABORT" (Session's no_handler)
    \* History: the bytes the parser took since the end of the last line, and
    \* the line and command being answered.
    line, executed

vars == <<clientBuffer, parser, stm, line, executed>>

UNDEF == <<"UNDEF">>
ERROR == <<"ERROR">>
None  == [line |-> <<>>, command |-> <<>>]

(* parser_init, parser_reset. *)
NewParser == [state |-> UNDEF, finished |-> FALSE,
              line |-> <<>>, arg1 |-> <<>>, arg2 |-> <<>>]

toupper(c) == IF c = "a" THEN "A" ELSE c

-----------------------------------------------------------------------------
(* What a word is taken for.  An empty one leaves its argument to the next *)
(* word, but an empty first word is an error.                              *)
process_buffer(p) ==
    IF p.state = UNDEF
    THEN [p EXCEPT !.state = IF p.line \in Verbs THEN p.line ELSE ERROR]
    ELSE CASE p.state # ERROR /\ p.arg1 = <<>> -> [p EXCEPT !.arg1 = p.line]
           [] p.state # ERROR /\ p.arg1 # <<>> /\ p.arg2 = <<>> ->
                 [p EXCEPT !.arg2 = p.line]
           [] OTHER -> p

EndOfWord(p) == [process_buffer(p) EXCEPT !.line = <<>>]

EndOfLine_bareLF(p) ==    \* mutant: the byte before LF is taken for a CR
    [process_buffer(IF p.line = <<>> THEN p ELSE [p EXCEPT !.line = Front(@)])
        EXCEPT !.finished = TRUE]

EndOfLine(p) ==
    IF p.line # <<>> /\ Last(p.line) = "CR"
    THEN [process_buffer([p EXCEPT !.line = Front(@)]) EXCEPT !.finished = TRUE]
    ELSE [p EXCEPT !.state = ERROR, !.finished = TRUE]

Fed(p, c) == CASE c = "SP" -> EndOfWord(p)
               [] c = "LF" -> EndOfLine(p)
               [] OTHER -> [p EXCEPT !.line = Append(@, c)]

parser_feed_noLimit(p, b) == Fed(p, IF p.state = UNDEF THEN toupper(b) ELSE b)
                              \* mutant: nothing stops a word from growing
parser_feed_restart(p, b) ==  \* mutant: a word too long is begun again
    IF Len(p.line) = BUFFER_SIZE THEN [p EXCEPT !.line = <<>>]
    ELSE Fed(p, IF p.state = UNDEF THEN toupper(b) ELSE b)

(* Letters are made capital until the verb is known.  A word as long as    *)
(* its memory makes the parser ignore every byte, the end of the line too. *)
parser_feed(p, b) ==
    IF Len(p.line) = BUFFER_SIZE THEN p
    ELSE Fed(p, IF p.state = UNDEF THEN toupper(b) ELSE b)

(* Bytes are taken up to the end of a line; n says how many. *)
pop3cmd_consume(p, bytes) ==
    FoldLeft(LAMBDA r, b : IF r.parser.finished THEN r
                           ELSE [parser |-> parser_feed(r.parser, b), n |-> r.n + 1],
             [parser |-> p, n |-> 0], bytes)

-----------------------------------------------------------------------------
(* The handlers. *)

(* next is the state an unfinished line leads to.  RETR is answered in     *)
(* WRITE_FILE; which verb that is does not matter here.                    *)
parseCommandInBuffer(q, next) ==
    IF ~buffer_can_read(q)
    THEN /\ parser' = NewParser
         /\ clientBuffer' = q
         /\ line' = <<>> /\ executed' = None
         /\ stm' = "READ"
    ELSE LET r     == pop3cmd_consume(parser, q.bytes)
             taken == line \o SubSeq(q.bytes, 1, r.n)
         IN  /\ clientBuffer' = buffer_read_adv(q, r.n)
             /\ IF r.parser.finished
                THEN /\ executed' = [line |-> taken,
                                     command |-> <<r.parser.state, r.parser.arg1,
                                                   r.parser.arg2>>]
                     /\ parser' = NewParser
                     /\ line' = <<>>
                     /\ stm' \in IF r.parser.state = ERROR THEN {"WRITE"}
                                 ELSE {"WRITE", "WRITE_FILE"}
                ELSE /\ executed' = None
                     /\ parser' = r.parser
                     /\ line' = taken
                     /\ stm' = next

(* s is what recv returns; it is empty when recv fails, when the peer has  *)
(* shut down its side, and when the buffer has no room.  A connection with *)
(* nothing to read and nothing in the buffer is closed (Session).          *)
pop3ReadCommand ==
    /\ stm = "READ"
    /\ \E s \in BoundedSeq(Byte, Space(clientBuffer)) :
          /\ s = <<>> \/ Len(line) + Len(clientBuffer.bytes) + Len(s) <= MaxLine
          /\ parseCommandInBuffer(buffer_write_adv(clientBuffer, s), "READ")

(* After a reply an unfinished line leaves the descriptor waiting to write *)
(* in a state that does not: the process aborts.                           *)
pop3WriteCommand ==
    /\ stm = "WRITE"
    /\ IF buffer_can_read(clientBuffer)
       THEN parseCommandInBuffer(clientBuffer, "ABORT")
       ELSE stm' = "READ" /\ executed' = None /\ UNCHANGED <<clientBuffer, parser, line>>

pop3WriteFile_reset ==    \* mutant: the client buffer starts anew after a mail
    /\ stm = "WRITE_FILE"
    /\ stm' = "READ" /\ executed' = None
    /\ clientBuffer' = Empty
    /\ UNCHANGED <<parser, line>>

(* After a mail the client buffer is not looked at. *)
pop3WriteFile ==
    /\ stm = "WRITE_FILE"
    /\ stm' = "READ" /\ executed' = None
    /\ UNCHANGED <<clientBuffer, parser, line>>

Init == /\ clientBuffer = Empty
        /\ parser = NewParser
        /\ stm = "READ"
        /\ line = <<>> /\ executed = None

Next == pop3ReadCommand \/ pop3WriteCommand \/ pop3WriteFile

Spec == Init /\ [][Next]_vars

-----------------------------------------------------------------------------
(* Nothing is stored beyond the memory of a buffer, a line or an argument; *)
(* an argument has room for its terminator.  Between two commands nothing  *)
(* of the one before is left in the parser.                                *)
TypeOK ==
    /\ clientBuffer \in Queues(Byte) /\ Fits(clientBuffer)
    /\ parser.state \in Verbs \cup {UNDEF, ERROR}
    /\ ~parser.finished
    /\ Len(parser.line) <= BUFFER_SIZE
    /\ \A a \in {parser.arg1, parser.arg2} : Len(a) < BUFFER_SIZE
    /\ stm \in {"READ", "WRITE", "WRITE_FILE", "ABORT"}
    /\ line = <<>> => parser = NewParser

-----------------------------------------------------------------------------
(* The reference: a line taken whole. *)

Upper(w) == [i \in DOMAIN w |-> toupper(w[i])]

(* The word that starts at i, up to the next space; where words but the    *)
(* first start, and which of those come after another.                     *)
WordAt(s, i) ==
    SubSeq(s, i, Min({j \in i .. Len(s) + 1 : j = Len(s) + 1 \/ s[j] = "SP"}) - 1)
Starts(s)  == {i \in 2 .. Len(s) : s[i] # "SP" /\ s[i - 1] = "SP"}
Later(S)   == {i \in S : \E j \in S : j < i}
Arg(s, S)  == IF S = {} THEN <<>> ELSE WordAt(s, Min(S))

CommandOf(s) ==
    LET n    == Len(s)
        text == SubSeq(s, 1, n - 2)
        verb == Upper(WordAt(text, 1))
    IN  IF n >= 2 /\ s[n - 1] = "CR" /\ verb \in Verbs
        THEN <<verb, Arg(text, Starts(text)), Arg(text, Later(Starts(text)))>>
        ELSE <<ERROR>>

(* However the bytes of a line arrived and whatever was in the buffer with *)
(* it, the command executed is the one the whole line says: its first word *)
(* in any case, its first two arguments as they were written; and the line *)
(* goes from the end of the one before to the next LF.  An ERROR may come  *)
(* with arguments, which nobody looks at.                                  *)
CommandIsTheLine == executed # None =>
    LET s == executed.line
        c == IF executed.command[1] = ERROR THEN <<ERROR>> ELSE executed.command
    IN  /\ \A i \in DOMAIN s : s[i] = "LF" <=> i = Len(s)
        /\ c = CommandOf(s)

LongWord(s) == \E i \in 0 .. Len(s) - BUFFER_SIZE :
                  \A j \in i + 1 .. i + BUFFER_SIZE : s[j] # "SP"

(* The end of a line is missed by a parser that met a word of BUFFER_SIZE  *)
(* bytes, and by no other: such a line is never answered, and one whose    *)
(* words are shorter always is, however long it is.                        *)
EndOfLineSeen ==
    /\ Len(parser.line) = BUFFER_SIZE <=> LongWord(line)
    /\ (\E i \in DOMAIN line : line[i] = "LF") => LongWord(line)

(* What the connection has received and not yet executed. *)
Pending == line \o clientBuffer.bytes

(* No byte of the input is lost, repeated or moved: a handler takes the    *)
(* line it executes from the front of what is pending, and adds behind it  *)
(* what it reads.  There is one exception: a receive that fails with       *)
(* nothing in the buffer throws away the part of a line it has             *)
(* (pop3.c:248).                                                           *)
KeepsPending ==
    LET kept == executed'.line \o Pending'
    IN  IF stm = "READ" THEN IsPrefix(Pending, kept) ELSE kept = Pending

BytesKept ==
    [][\/ KeepsPending
       \/ stm = "READ" /\ clientBuffer.bytes = <<>> /\ Pending' = <<>>
          /\ executed' = None]_vars
=============================================================================
