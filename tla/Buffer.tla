------------------------------- MODULE Buffer -------------------------------
(***************************************************************************)
(* The buffers of the two directions of a connection (buffer.c): an array  *)
(* and two pointers into it, and the queue of bytes (ByteQueue) they are   *)
(* for the handlers.                                                       *)
(***************************************************************************)
EXTENDS Integers, Sequences

CONSTANTS Byte, BUFFER_SIZE

(* struct buffer; the pointers are distances from data. *)
IsBuffer(b) ==
    /\ b \in [data : [0 .. b.limit - 1 -> Byte], limit : Nat, read : Nat, write : Nat]
    /\ b.limit = BUFFER_SIZE

buffer_reset(b) == [b EXCEPT !.read = 0, !.write = 0]

buffer_init(n, data) == [data |-> data, limit |-> n, read |-> 0, write |-> 0]

(* How many bytes may be put, and are there to be read, at the pointers    *)
(* that buffer_write_ptr and buffer_read_ptr return.                       *)
buffer_write_ptr(b) == b.limit - b.write
buffer_read_ptr(b)  == b.write - b.read

buffer_can_write(b) == buffer_write_ptr(b) > 0
buffer_can_read(b)  == buffer_read_ptr(b) > 0

buffer_compact(b) ==
    CASE b.read = 0 -> b
      [] b.read # 0 /\ b.read = b.write -> buffer_reset(b)
      [] OTHER -> [b EXCEPT !.data  = [i \in DOMAIN b.data |->
                                         IF i < buffer_read_ptr(b) THEN b.data[b.read + i]
                                         ELSE b.data[i]],
                            !.read  = 0,
                            !.write = buffer_read_ptr(b)]

(* -1 is what a failed call counts. *)
buffer_write_adv(b, n) == IF n > -1 THEN [b EXCEPT !.write = @ + n] ELSE b

buffer_read_adv(b, n) ==
    LET c == [b EXCEPT !.read = @ + n]
    IN  IF n = -1 THEN b ELSE IF c.read = c.write THEN buffer_compact(c) ELSE c

buffer_read(b) ==
    IF buffer_can_read(b) THEN [byte |-> b.data[b.read], b |-> buffer_read_adv(b, 1)]
    ELSE [byte |-> 0, b |-> b]

(* s stored from the write pointer on. *)
Put(b, s) == [b EXCEPT !.data = [i \in DOMAIN b.data |->
                 IF i \in b.write .. b.write + Len(s) - 1 THEN s[i - b.write + 1]
                 ELSE b.data[i]]]

buffer_write(b, c) ==
    IF buffer_can_write(b) THEN buffer_write_adv(Put(b, <<c>>), 1) ELSE b

-----------------------------------------------------------------------------
(* R <= W <= limit (buffer.h:23-24). *)
BufferOK(b) == IsBuffer(b) /\ b.read <= b.write /\ b.write <= b.limit

(* The queue a buffer stands for. *)
Queue(b) == [bytes |-> [i \in 1 .. buffer_read_ptr(b) |-> b.data[b.read + i - 1]],
             read  |-> b.read]

Q == INSTANCE ByteQueue
=============================================================================
