---------------------------- MODULE MailTransfer ----------------------------
(***************************************************************************)
(* The bytes of the answers to RETR on one connection (pop3.c,             *)
(* pop3file.c): a mail file is read block by block, each block is escaped  *)
(* into the server buffer, and the buffer is sent in as many pieces as the *)
(* socket takes.  Line ends become CR LF and a dot at the start of a line  *)
(* is doubled, so that the peer can tell the end of the mail.              *)
(*                                                                         *)
(* The bytes that matter are told apart; every other byte is "x".          *)
(***************************************************************************)
EXTENDS ByteQueue, SequencesExt, FiniteSets

CONSTANT Mailbox    \* the contents of the mail files

Byte == {"CR", "LF", "DOT", "NUL", "x"}

Header     == <<"CR", "LF">>    \* the end of the +OK line; its text is left out
Terminator == <<"CR", "LF", "DOT", "CR", "LF">>
BLOCK      == BUFFER_SIZE - 1   \* bytes private_getline asks read for
NotOpen    == <<"not open">>    \* fileState.file is NULL

ASSUME MailTransferAssumption ==
    /\ Mailbox \subseteq Seq(Byte)
    /\ BUFFER_SIZE > Len(Terminator)

First(s, n) == SubSeq(s, 1, IF n <= Len(s) THEN n ELSE Len(s))
After(s, n) == IF n < Len(s) THEN SubSeq(s, n + 1, Len(s)) ELSE <<>>

VARIABLES
    serverBuffer,
    stm,              \* "READ" or "WRITE_FILE"
    file,             \* what has not been read of the open file
    fileDoneReading,
    newLine,          \* the next byte is taken for the first of a line
    server,           \* "up", or "overrun" after the assertion of buffer.c
    \* History: the mail being sent, newLine as its RETR found it, what the
    \* peer has received of the answer, and whether a byte had no room.
    mail, fresh, got, lost

state   == <<serverBuffer, stm, file, fileDoneReading, newLine, server>>
history == <<mail, fresh, got, lost>>
vars    == <<state, history>>

-----------------------------------------------------------------------------
(* The escaping of a block. *)

(* The block goes into a string, which ends at the first NUL. *)
Line(block) ==
    LET nuls == {i \in DOMAIN block : block[i] = "NUL"}
    IN  IF nuls = {} THEN block
        ELSE SubSeq(block, 1, (CHOOSE i \in nuls : \A j \in nuls : i <= j) - 1)

Escape_crStarts(e, c) ==        \* mutant: a CR does not end the start of a line
    CASE c = "LF"  -> [out |-> e.out \o (IF e.last = "CR" THEN <<"LF">> ELSE <<"CR", "LF">>),
                       newLine |-> TRUE, last |-> c]
      [] c = "DOT" -> [out |-> e.out \o (IF e.newLine THEN <<"DOT", "DOT">> ELSE <<"DOT">>),
                       newLine |-> FALSE, last |-> c]
      [] OTHER     -> [out |-> Append(e.out, c), newLine |-> c = "CR", last |-> c]

Escape_crlf(e, c) ==            \* mutant: only a LF without its CR starts a line
    CASE c = "LF"  -> [out |-> e.out \o (IF e.last = "CR" THEN <<"LF">> ELSE <<"CR", "LF">>),
                       newLine |-> e.last # "CR", last |-> c]
      [] c = "DOT" -> [out |-> e.out \o (IF e.newLine THEN <<"DOT", "DOT">> ELSE <<"DOT">>),
                       newLine |-> FALSE, last |-> c]
      [] OTHER     -> [out |-> Append(e.out, c), newLine |-> FALSE, last |-> c]

(* One byte; last is the byte before it in the same block, "none" for the  *)
(* first.                                                                  *)
Escape(e, c) ==
    CASE c = "LF"  -> [out |-> e.out \o (IF e.last = "CR" THEN <<"LF">> ELSE <<"CR", "LF">>),
                       newLine |-> TRUE, last |-> c]
      [] c = "DOT" -> [out |-> e.out \o (IF e.newLine THEN <<"DOT", "DOT">> ELSE <<"DOT">>),
                       newLine |-> FALSE, last |-> c]
      [] OTHER     -> [out |-> Append(e.out, c), newLine |-> FALSE, last |-> c]

Escaped(line, atStart) ==
    FoldLeft(Escape, [out |-> <<>>, newLine |-> atStart, last |-> "none"], line)

-----------------------------------------------------------------------------
(* The handlers. *)

(* A file that cannot be opened any more is answered like an empty one. *)
handleRetr ==
    /\ stm = "READ"
    /\ \E m \in Mailbox :
          /\ serverBuffer' = buffer_write_adv(serverBuffer, Header)
          /\ mail' = m
    /\ stm' = "WRITE_FILE"
    /\ fileDoneReading' = FALSE
    /\ fresh' = newLine
    /\ UNCHANGED <<file, newLine, server, got, lost>>

read_block(q, rest) ==
    LET e == Escaped(Line(First(rest, BLOCK)), newLine)
    IN  /\ serverBuffer' = buffer_write(q, e.out)
        /\ newLine' = e.newLine
        /\ file' = After(rest, BLOCK)
        /\ lost' = (lost \/ Len(e.out) > Space(q))
        /\ UNCHANGED <<fileDoneReading, server>>

(* The terminator finds all the room of the buffer or none of it, so that  *)
(* snprintf does not cut it.                                               *)
end_of_file(q) ==
    LET b == buffer_write_adv(q, Terminator)
    IN  /\ serverBuffer' = b
        /\ server' = IF Fits(b) THEN "up" ELSE "overrun"
        /\ file' = NotOpen
        /\ fileDoneReading' = TRUE
        /\ UNCHANGED <<newLine, lost>>

pop3ReadFile(q) ==
    LET rest == IF file = NotOpen THEN mail ELSE file
    IN  /\ UNCHANGED <<stm, mail, fresh>>
        /\ \/ rest = <<>> /\ end_of_file(q)
           \/ rest # <<>> /\ read_block(q, rest)

Finish_stays(q) ==              \* mutant: the state is not left
    /\ serverBuffer' = q
    /\ UNCHANGED <<stm, file, fileDoneReading, newLine, server, history>>

(* Back in READ nothing is left of the answer, and its history ends.       *)
Finish(q) ==
    /\ stm' = "READ"
    /\ serverBuffer' = q
    /\ mail' = <<>> /\ got' = <<>> /\ fresh' = FALSE /\ lost' = FALSE
    /\ UNCHANGED <<file, fileDoneReading, newLine, server>>

(* n bytes are sent, none when send fails.  If that leaves room at the end *)
(* of the buffer the handler waits for the next write event; otherwise it  *)
(* goes on, also with a full buffer that was sent in part or not at all.   *)
pop3WriteFile ==
    /\ stm = "WRITE_FILE" /\ server = "up"
    /\ \E n \in 0 .. Len(serverBuffer.bytes) :
          LET q     == IF n = 0 THEN serverBuffer ELSE buffer_read_adv(serverBuffer, n)
              heard == got \o SubSeq(serverBuffer.bytes, 1, n)
              Waits == buffer_can_read(serverBuffer) /\ buffer_can_write(q)
          IN  \/ /\ Waits
                 /\ serverBuffer' = q /\ got' = heard
                 /\ UNCHANGED <<stm, file, fileDoneReading, newLine, server,
                                mail, fresh, lost>>
              \/ ~Waits /\ ~fileDoneReading /\ pop3ReadFile(q) /\ got' = heard
              \/ ~Waits /\ fileDoneReading /\ Finish(q)

Init ==
    /\ serverBuffer = Empty
    /\ stm = "READ"
    /\ file = NotOpen
    /\ fileDoneReading = FALSE
    /\ newLine = TRUE
    /\ server = "up"
    /\ mail = <<>> /\ fresh = FALSE /\ got = <<>> /\ lost = FALSE

Next == handleRetr \/ pop3WriteFile

Spec == Init /\ [][Next]_vars

(* The selector reports a socket whose peer reads, the handler runs, and   *)
(* sends do not fail for ever: a step that changes nothing does not count. *)
FairSpec == Spec /\ WF_vars(pop3WriteFile)

-----------------------------------------------------------------------------
TypeOK ==
    /\ serverBuffer \in Queues(Byte)
    /\ server = "up" => Fits(serverBuffer)
    /\ stm \in {"READ", "WRITE_FILE"}
    /\ file \in Seq(Byte) \cup {NotOpen}
    /\ {fileDoneReading, newLine, fresh, lost} \subseteq BOOLEAN
    /\ server \in {"up", "overrun"}
    /\ mail \in Seq(Byte) /\ got \in Seq(Byte)

(* What a mail looks like on the wire, from the whole file: every line end *)
(* is CR LF, a dot that begins a line is doubled.                          *)
OnTheWire(m) ==
    LET Before(i) == IF i = 1 THEN "LF" ELSE m[i - 1]
        Piece(i)  == CASE m[i] = "LF" /\ Before(i) # "CR" -> <<"CR", "LF">>
                       [] m[i] = "DOT" /\ Before(i) = "LF" -> <<"DOT", "DOT">>
                       [] OTHER -> <<m[i]>>
    IN  FlattenSeq([i \in DOMAIN m |-> Piece(i)])

Answer(m) == Header \o OnTheWire(m) \o Terminator
Sending   == stm = "WRITE_FILE" /\ server = "up"
Sent      == got \o serverBuffer.bytes

(* A mail whose blocks the escaping treats as it would the whole file: no  *)
(* NUL, no CR LF cut in two by the end of a block.                         *)
Plain(m) ==
    /\ \A i \in DOMAIN m : m[i] # "NUL"
    /\ \A i \in 1 .. Len(m) - 1 :
          i % BLOCK = 0 => ~(m[i] = "CR" /\ m[i + 1] = "LF")

(* The RETR before may leave newLine false, which the first byte of this   *)
(* mail is then taken by.  A dot is the worse for it, and a NUL: nothing   *)
(* of its block is sent, and the next one may begin with the dot.          *)
StartsRight == fresh \/ mail = <<>> \/ mail[1] \notin {"DOT", "NUL"}

(* Whatever the blocks and the sends are, a plain mail that found room is  *)
(* on its way as it should be: what was sent and what waits in the buffer  *)
(* is the beginning of the answer, and all of it once the file is read     *)
(* (pop3ReadFile, pop3WriteFile).                                          *)
MailArrivesWhole ==
    Sending /\ ~lost /\ Plain(mail) /\ StartsRight
        => IF fileDoneReading THEN Sent = Answer(mail)
           ELSE IsPrefix(Sent, Answer(mail))

(* The peer takes the first CR LF DOT CR LF for the end of the mail.  No   *)
(* mail contains one before its end, not even with NULs in it or with a    *)
(* CR LF cut in two (pop3.c:152-181).                                      *)
NoEarlyEnd ==
    Sending /\ ~lost /\ StartsRight
        => \A i \in 0 .. Len(Sent) - Len(Terminator) :
              SubSeq(Sent, i + 1, i + Len(Terminator)) = Terminator
                  => fileDoneReading /\ i + Len(Terminator) = Len(Sent)

(* What the report of the project says of RETR (section 7.4): what the     *)
(* peer gets is the file.  Violated by a text file of more than a block:   *)
(* a block grows with every line end that is escaped, and buffer_write     *)
(* drops what has no room (pop3.c:154-179).                                *)
FileArrives == Sending /\ fileDoneReading => Sent = Answer(mail)

(* Bytes are lost, and the assertion of buffer_write_adv fails, only for a *)
(* mail with a block that may fill the buffer once its line ends and dots  *)
(* are escaped; short and failing sends alone never do it.                 *)
Slim(m) == \A k \in 0 .. Len(m) \div BLOCK :
    LET block == First(After(m, k * BLOCK), BLOCK)
    IN  Len(block) + Cardinality({i \in DOMAIN block : block[i] \in {"LF", "DOT"}})
            < BUFFER_SIZE
SlimMailsAreSafe == Slim(mail) => ~lost /\ server = "up"

(* A mail that is being sent is sent to its end, unless the process aborts *)
(* (pop3WriteFile).                                                        *)
TransferEnds == stm = "WRITE_FILE" ~> (stm = "READ" \/ server = "overrun")
=============================================================================
