------------------------------ MODULE MCParser ------------------------------
(***************************************************************************)
(* A small instance of Parser: one verb of one letter, so that short lines *)
(* have a verb, arguments, empty words and a word that is too long.  And   *)
(* every array of that size, as the queue it stands for.                   *)
(***************************************************************************)
EXTENDS Parser

OneVerb == {<<"A">>}

TwoBytes == {"A", "LF"}
Array == INSTANCE Buffer WITH Byte <- TwoBytes

Arrays == {[data |-> d, limit |-> BUFFER_SIZE, read |-> r, write |-> w] :
              d \in [0 .. BUFFER_SIZE - 1 -> TwoBytes],
              r \in 0 .. BUFFER_SIZE, w \in 0 .. BUFFER_SIZE}

(* What BufferProofs proves, on this instance. *)
ASSUME ArraysAreQueues ==
    \A b \in {x \in Arrays : Array!BufferOK(x)} :
       LET q == Array!Queue(b)
           Is(c, r) == Array!BufferOK(c) /\ Array!Queue(c) = r
       IN  /\ \A c \in TwoBytes : Is(Array!buffer_write(b, c), buffer_write(q, <<c>>))
           /\ \A s \in BoundedSeq(TwoBytes, Space(q)) :
                 Is(Array!buffer_write_adv(Array!Put(b, s), Len(s)), buffer_write_adv(q, s))
           /\ \A n \in 0 .. Len(q.bytes) :
                 Is(Array!buffer_read_adv(b, n), buffer_read_adv(q, n))
           /\ Is(Array!buffer_compact(b), [q EXCEPT !.read = 0])
           /\ q.bytes # <<>> =>
                 /\ Array!buffer_read(b).byte = Head(q.bytes)
                 /\ Is(Array!buffer_read(b).b, buffer_read_adv(q, 1))
=============================================================================
