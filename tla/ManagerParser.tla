---------------------------- MODULE ManagerParser ----------------------------
(***************************************************************************)
(* The parser of the management service (manager_parser.c), made anew for  *)
(* every datagram.  A datagram is a sequence of tokens: the bytes with a   *)
(* meaning ("SP", "LF", "CR", "COLON") and, for the runs of bytes between  *)
(* them, the verbs and other words; verbs in any case are one token.       *)
(*                                                                         *)
(* Datagrams are shorter than the line of the parser, as UDP_BUFFER_SIZE   *)
(* makes them, and do not begin with a zero byte.                          *)
(***************************************************************************)
EXTENDS Integers, SequencesExt

Verb == {"CAPA", "USERS", "ADD", "DEL", "HIST", "CONC", "TRANS", "STOP"}

(* The words of s, which single tokens sep (one or more) keep apart: those *)
(* that have ended, and the last one if there is anything of it.           *)
Ended(w) == IF w.last = <<>> THEN w.words ELSE Append(w.words, w.last)
Words(s, sep) ==
    LET next(w, t) == IF t = sep THEN [words |-> Ended(w), last |-> <<>>]
                      ELSE [w EXCEPT !.last = Append(@, t)]
    IN  Ended(FoldLeft(next, [words |-> <<>>, last |-> <<>>], s))

-----------------------------------------------------------------------------
manager_parser_init == [state |-> "UNDEF", line |-> <<>>, arg1 |-> <<>>]

getParserState_prefix(line) ==     \* mutant: only the length of the verb is compared
    IF line # <<>> /\ Head(line) \in Verb THEN Head(line) ELSE "ERROR"
getParserState(line) ==
    IF line # <<>> /\ Tail(line) = <<>> /\ Head(line) \in Verb THEN Head(line) ELSE "ERROR"

(* The first word is the verb, the first one after it that is not empty    *)
(* the argument; further ones are ignored.                                 *)
m_process_buffer(q) ==
    IF q.state = "UNDEF" THEN [q EXCEPT !.state = getParserState(q.line)]
    ELSE IF q.state # "ERROR" /\ q.arg1 = <<>> THEN [q EXCEPT !.arg1 = q.line]
    ELSE q

(* A line end is a \n, after a word that is not empty; what comes after it *)
(* is added to that word.  A \r is part of its word.                       *)
manager_parser_feed(q, c) ==
    IF c = "SP" THEN [m_process_buffer(q) EXCEPT !.line = <<>>]
    ELSE IF c # "LF" THEN [q EXCEPT !.line = Append(@, c)]
    ELSE IF q.line # <<>> THEN m_process_buffer(q)
    ELSE [q EXCEPT !.state = "ERROR"]

manager_parser_analyze(datagram) ==
    FoldLeft(manager_parser_feed, manager_parser_init, datagram)
=============================================================================
