----------------------------- MODULE ByteQueue -----------------------------
(***************************************************************************)
(* What buffer.c promises the handlers: a queue of bytes that remembers    *)
(* how far into its memory it starts.  bytes is what lies between the      *)
(* pointers read and write, read the distance of the first from the start  *)
(* of the memory.  Room that has been read is not used again until the     *)
(* queue is empty, so a queue may have no room and few bytes.              *)
(* Buffer is the array and the pointers behind it.                         *)
(***************************************************************************)
EXTENDS Naturals, Sequences

CONSTANT BUFFER_SIZE    \* bytes of memory of a buffer

ASSUME BufferSizeAssumption == BUFFER_SIZE \in Nat

Queues(S) == [bytes : Seq(S), read : Nat]

Empty == [bytes |-> <<>>, read |-> 0]

Written(q) == q.read + Len(q.bytes)
Space(q)   == BUFFER_SIZE - Written(q)

buffer_can_read(q) == q.bytes # <<>>

buffer_can_write(q) == Written(q) < BUFFER_SIZE

Stored_all(q, s) == s                 \* mutant: buffer_write without its check

(* The first bytes of s that have room are stored, the others are lost:    *)
(* buffer_write byte by byte.                                              *)
Stored(q, s) == IF Len(s) <= Space(q) THEN s ELSE SubSeq(s, 1, Space(q))
buffer_write(q, s) == [q EXCEPT !.bytes = @ \o Stored(q, s)]

(* Bytes put at the write pointer by recv or snprintf and then counted;    *)
(* that they fit is asserted (Fits).                                       *)
buffer_write_adv(q, s) == [q EXCEPT !.bytes = @ \o s]
Fits(q) == Written(q) <= BUFFER_SIZE

buffer_read_adv_keep(q, n) ==         \* mutant: an empty buffer stays where it is
    [bytes |-> SubSeq(q.bytes, n + 1, Len(q.bytes)), read |-> q.read + n]

(* n bytes have been read.  The queue starts again at the beginning of its *)
(* memory only when it is empty.                                           *)
buffer_read_adv(q, n) ==
    [bytes |-> SubSeq(q.bytes, n + 1, Len(q.bytes)),
     read  |-> IF n = Len(q.bytes) THEN 0 ELSE q.read + n]
=============================================================================
