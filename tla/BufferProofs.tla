---------------------------- MODULE BufferProofs ----------------------------
(***************************************************************************)
(* The array and pointers of Buffer are the queue of ByteQueue: every      *)
(* operation keeps read <= write <= limit, and what it does to the queue   *)
(* is what ByteQueue says.                                                 *)
(***************************************************************************)
EXTENDS Buffer, SequenceTheorems, TLAPS

LEMMA Fields ==
    ASSUME NEW b, BufferOK(b)
    PROVE  /\ b.data \in [0 .. b.limit - 1 -> Byte]
           /\ b.limit \in Nat /\ b.read \in Nat /\ b.write \in Nat
           /\ b.read <= b.write /\ b.write <= b.limit
           /\ b = [data |-> b.data, limit |-> b.limit, read |-> b.read, write |-> b.write]
BY DEF BufferOK, IsBuffer

LEMMA QueueBytes ==
    ASSUME NEW b, BufferOK(b)
    PROVE  /\ Queue(b).bytes \in Seq(Byte)
           /\ Len(Queue(b).bytes) = b.write - b.read
           /\ \A i \in 1 .. b.write - b.read : Queue(b).bytes[i] = b.data[b.read + i - 1]
           /\ Queue(b) = [bytes |-> Queue(b).bytes, read |-> b.read]
<1> DEFINE n == b.write - b.read
           e(i) == b.data[b.read + i - 1]
<1>1. n \in Nat
  BY Fields
<1>2. \A i \in 1 .. n : e(i) \in Byte
  BY Fields
<1>3. Queue(b) = [bytes |-> [i \in 1 .. n |-> e(i)], read |-> b.read]
  BY DEF Queue, buffer_read_ptr
<1> HIDE DEF n
<1>4. [i \in 1 .. n |-> e(i)] \in Seq(Byte) /\ Len([i \in 1 .. n |-> e(i)]) = n
  <2>1. [i \in 1 .. n |-> e(i)] \in [1 .. n -> Byte]
    BY <1>2
  <2>2. [i \in 1 .. n |-> e(i)] \in Seq(Byte)
    BY <1>1, <2>1, SeqDef
  <2>3. DOMAIN [i \in 1 .. n |-> e(i)] = 1 .. n
    OBVIOUS
  <2> QED
    BY <1>1, <2>2, <2>3, LenProperties
<1>5. Queue(b).bytes = [i \in 1 .. n |-> e(i)] /\ Queue(b).read = b.read
  BY <1>3
<1>6. \A i \in 1 .. n : Queue(b).bytes[i] = e(i)
  BY <1>5
<1>7. Queue(b) = [bytes |-> Queue(b).bytes, read |-> b.read]
  BY <1>3, <1>5
<1>8. Queue(b).bytes \in Seq(Byte) /\ Len(Queue(b).bytes) = n
  BY <1>4, <1>5
<1> QED
  BY <1>6, <1>7, <1>8 DEF n

(* How a queue is recognised, byte by byte. *)
LEMMA SameQueue ==
    ASSUME NEW b, BufferOK(b), NEW s \in Seq(Byte), NEW r,
           r = b.read, Len(s) = b.write - b.read,
           \A i \in 1 .. b.write - b.read : b.data[b.read + i - 1] = s[i]
    PROVE  Queue(b) = [bytes |-> s, read |-> r]
<1>1. Queue(b).bytes = s
  BY QueueBytes, SeqEqual
<1> QED
  BY <1>1, QueueBytes

-----------------------------------------------------------------------------
(* A buffer begins as an empty queue, and so it is after a reset, which    *)
(* nothing needs (buffer.c:13-24).                                         *)
THEOREM InitIsEmpty ==
    ASSUME BUFFER_SIZE \in Nat, NEW data \in [0 .. BUFFER_SIZE - 1 -> Byte]
    PROVE  LET b == buffer_init(BUFFER_SIZE, data)
           IN  BufferOK(b) /\ Queue(b) = Q!Empty
<1> DEFINE b == buffer_init(BUFFER_SIZE, data)
<1>1. BufferOK(b) /\ b.read = 0 /\ b.write = 0
  BY DEF buffer_init, BufferOK, IsBuffer
<1>2. <<>> \in Seq(Byte) /\ Len(<<>>) = 0
  BY EmptySeq
<1> HIDE DEF b
<1>3. Queue(b) = [bytes |-> <<>>, read |-> 0]
  BY <1>1, <1>2, SameQueue
<1> QED
  BY <1>1, <1>3 DEF b, Q!Empty

(* Bytes that fit, put at the write pointer and counted, are the end of    *)
(* the queue: what recv and snprintf do (buffer.c:32-57).                  *)
THEOREM WriteAppends ==
    ASSUME NEW b, BufferOK(b), NEW s \in Seq(Byte), Len(s) <= buffer_write_ptr(b)
    PROVE  LET c == buffer_write_adv(Put(b, s), Len(s))
           IN  /\ BufferOK(c)
               /\ Queue(c) = Q!buffer_write_adv(Queue(b), s)
<1> DEFINE n == Len(s)
           d == [i \in DOMAIN b.data |->
                    IF i \in b.write .. b.write + n - 1 THEN s[i - b.write + 1] ELSE b.data[i]]
           c == buffer_write_adv(Put(b, s), n)
<1>1. n \in Nat /\ b.write + n <= b.limit
  BY LenProperties, Fields DEF buffer_write_ptr
<1>2. c = [data |-> d, limit |-> b.limit, read |-> b.read, write |-> b.write + n]
  <2>1. Put(b, s) = [data |-> d, limit |-> b.limit, read |-> b.read, write |-> b.write]
    <3>1. \A x : [b EXCEPT !.data = x] =
             [data |-> x, limit |-> b.limit, read |-> b.read, write |-> b.write]
      BY Fields
    <3>2. Put(b, s) = [b EXCEPT !.data = d]
      BY DEF Put
    <3> HIDE DEF d
    <3> QED
      BY <3>1, <3>2
  <2> HIDE DEF d, n
  <2>2. n > -1
    BY <1>1
  <2> QED
    BY <2>1, <2>2 DEF buffer_write_adv
<1>3. DOMAIN b.data = 0 .. b.limit - 1
  BY Fields
<1>4. \A i \in 1 .. n : s[i] \in Byte
  BY ElementOfSeq
<1>5. d \in [0 .. b.limit - 1 -> Byte]
  <2>1. ASSUME NEW i \in 0 .. b.limit - 1  PROVE d[i] \in Byte
    <3>1. CASE i \in b.write .. b.write + n - 1
      <4>1. i - b.write + 1 \in 1 .. n
        BY <1>1, <3>1, Fields
      <4> QED
        BY <1>3, <1>4, <3>1, <4>1
    <3>2. CASE i \notin b.write .. b.write + n - 1
      BY <1>3, <3>2, Fields
    <3> QED
      BY <3>1, <3>2
  <2> QED
    BY <1>3, <2>1
<1> HIDE DEF c
<1>6. BufferOK(c) /\ c.read = b.read /\ c.write = b.write + n /\ c.data = d
  <2> HIDE DEF d, n
  <2> QED
    BY <1>1, <1>2, <1>5, Fields DEF BufferOK, IsBuffer
<1> DEFINE t == Queue(b).bytes \o s
<1>7. /\ t \in Seq(Byte) /\ Len(t) = (b.write - b.read) + n
      /\ \A i \in 1 .. (b.write - b.read) + n :
            t[i] = IF i <= b.write - b.read THEN Queue(b).bytes[i] ELSE s[i - (b.write - b.read)]
  BY QueueBytes, ConcatProperties
<1>8. ASSUME NEW i \in 1 .. c.write - c.read  PROVE c.data[c.read + i - 1] = t[i]
  <2>1. i \in 1 .. (b.write - b.read) + n /\ b.read + i - 1 \in 0 .. b.limit - 1
    BY <1>1, <1>6, Fields
  <2>2. CASE i <= b.write - b.read
    <3>1. b.read + i - 1 \notin b.write .. b.write + n - 1
      BY <1>1, <2>1, <2>2, Fields
    <3>2. i \in 1 .. b.write - b.read
      BY <1>1, <2>1, <2>2, Fields
    <3> QED
      BY <1>3, <1>6, <1>7, <2>1, <2>2, <3>1, <3>2, QueueBytes
  <2>3. CASE i > b.write - b.read
    <3>1. b.read + i - 1 \in b.write .. b.write + n - 1
      BY <1>1, <2>1, <2>3, Fields
    <3>2. (b.read + i - 1) - b.write + 1 = i - (b.write - b.read) /\ ~(i <= b.write - b.read)
      BY <2>1, <2>3, Fields
    <3>3. c.data[c.read + i - 1] = s[(b.read + i - 1) - b.write + 1]
      BY <1>3, <1>6, <2>1, <3>1
    <3> QED
      BY <1>7, <2>1, <3>2, <3>3
  <2> HIDE DEF t, d, n
  <2> QED
    BY <2>1, <2>2, <2>3, <1>1, Fields
<1> HIDE DEF t, d
<1>9. Queue(c) = [bytes |-> t, read |-> b.read]
  <2>1. Len(t) = c.write - c.read
    BY <1>1, <1>6, <1>7, Fields
  <2> QED
    BY <1>6, <1>7, <1>8, <2>1, SameQueue
<1>10. Q!buffer_write_adv(Queue(b), s) = [bytes |-> t, read |-> b.read]
  <2>1. \A x : [Queue(b) EXCEPT !.bytes = x] = [bytes |-> x, read |-> b.read]
    BY QueueBytes
  <2> QED
    BY <2>1 DEF Q!buffer_write_adv, t
<1> QED
  BY <1>6, <1>9, <1>10 DEF c

(* A byte that has no room is lost without a word (buffer.c:84-90). *)
THEOREM WriteByte ==
    ASSUME NEW b, BufferOK(b), NEW c \in Byte
    PROVE  /\ BufferOK(buffer_write(b, c))
           /\ Queue(buffer_write(b, c)) = Q!buffer_write(Queue(b), <<c>>)
<1>1. <<c>> \in Seq(Byte) /\ Len(<<c>>) = 1
  OBVIOUS
<1>2. Q!Space(Queue(b)) = buffer_write_ptr(b)
  <2>1. Queue(b).read = b.read
    BY QueueBytes
  <2>2. b.limit = BUFFER_SIZE
    BY DEF BufferOK, IsBuffer
  <2> QED
    BY <2>1, <2>2, QueueBytes, Fields DEF Q!Space, Q!Written, buffer_write_ptr
<1>3. buffer_write_ptr(b) \in Nat
  BY Fields DEF buffer_write_ptr
<1>4. CASE buffer_can_write(b)
  <2>1. Len(<<c>>) <= buffer_write_ptr(b)
    BY <1>1, <1>3, <1>4 DEF buffer_can_write
  <2>2. buffer_write(b, c) = buffer_write_adv(Put(b, <<c>>), Len(<<c>>))
    BY <1>1, <1>4 DEF buffer_write
  <2>3. Q!buffer_write(Queue(b), <<c>>) = Q!buffer_write_adv(Queue(b), <<c>>)
    BY <1>2, <2>1 DEF Q!buffer_write, Q!buffer_write_adv, Q!Stored
  <2> QED
    BY <1>1, <2>1, <2>2, <2>3, WriteAppends
<1>5. CASE ~buffer_can_write(b)
  <2>1. buffer_write_ptr(b) = 0
    BY <1>3, <1>5 DEF buffer_can_write
  <2>2. Q!Stored(Queue(b), <<c>>) = <<>>
    BY <1>1, <1>2, <2>1, SubSeqEmpty DEF Q!Stored
  <2>3. Queue(b).bytes \o <<>> = Queue(b).bytes
    BY QueueBytes, ConcatEmptySeq
  <2>4. Q!buffer_write(Queue(b), <<c>>) = Queue(b)
    BY <2>2, <2>3, QueueBytes DEF Q!buffer_write
  <2> QED
    BY <1>5, <2>4 DEF buffer_write
<1> QED
  BY <1>4, <1>5

(* Compacting moves the bytes to the start of the array and loses none     *)
(* (buffer.c:92-105).                                                      *)
THEOREM CompactKeepsBytes ==
    ASSUME NEW b, BufferOK(b)
    PROVE  /\ BufferOK(buffer_compact(b))
           /\ Queue(buffer_compact(b)) = [bytes |-> Queue(b).bytes, read |-> 0]
<1>1. CASE b.read = 0
  BY <1>1, QueueBytes DEF buffer_compact
<1>2. CASE b.read # 0 /\ b.read = b.write
  <2>1. buffer_compact(b) = buffer_reset(b)
    BY <1>2 DEF buffer_compact
  <2> DEFINE c == buffer_reset(b)
  <2>2. c = [data |-> b.data, limit |-> b.limit, read |-> 0, write |-> 0]
    <3> DEFINE u == [b EXCEPT !.read = 0]
    <3>1. u = [data |-> b.data, limit |-> b.limit, read |-> 0, write |-> b.write]
      BY Fields
    <3>2. c = [u EXCEPT !.write = 0]
      BY DEF buffer_reset
    <3> HIDE DEF u, c
    <3>3. /\ u = [data |-> u.data, limit |-> u.limit, read |-> u.read, write |-> u.write]
          /\ u.data = b.data /\ u.limit = b.limit /\ u.read = 0
      BY <3>1
    <3>4. [u EXCEPT !.write = 0] = [data |-> u.data, limit |-> u.limit, read |-> u.read, write |-> 0]
      BY <3>3
    <3> QED
      BY <3>2, <3>3, <3>4
  <2> HIDE DEF c
  <2>3. BufferOK(c) /\ c.read = 0 /\ c.write = 0
    BY <2>2, Fields DEF BufferOK, IsBuffer
  <2>4. Queue(b).bytes \in Seq(Byte) /\ Len(Queue(b).bytes) = 0
    BY <1>2, QueueBytes, Fields
  <2>5. Queue(c) = [bytes |-> Queue(b).bytes, read |-> 0]
    BY <2>3, <2>4, SameQueue
  <2> QED
    BY <2>1, <2>3, <2>5 DEF c
<1>3. CASE b.read # 0 /\ b.read # b.write
  <2> DEFINE n == buffer_read_ptr(b)
             d == [i \in DOMAIN b.data |-> IF i < n THEN b.data[b.read + i] ELSE b.data[i]]
             c == buffer_compact(b)
  <2>1. n = b.write - b.read /\ n \in Nat
    BY Fields DEF buffer_read_ptr
  <2>2. c = [data |-> d, limit |-> b.limit, read |-> 0, write |-> n]
    <3> DEFINE u == [b EXCEPT !.data = d]
               v == [u EXCEPT !.read = 0]
    <3>1. c = [v EXCEPT !.write = n]
      BY <1>3 DEF buffer_compact
    <3> HIDE DEF d, n
    <3>2. u = [data |-> d, limit |-> b.limit, read |-> b.read, write |-> b.write]
      BY Fields
    <3> HIDE DEF u
    <3>3. /\ u = [data |-> u.data, limit |-> u.limit, read |-> u.read, write |-> u.write]
          /\ u.data = d /\ u.limit = b.limit
      BY <3>2
    <3>4. v = [data |-> u.data, limit |-> u.limit, read |-> 0, write |-> u.write]
      BY <3>3
    <3> HIDE DEF v, c
    <3>5. /\ v = [data |-> v.data, limit |-> v.limit, read |-> v.read, write |-> v.write]
          /\ v.data = d /\ v.limit = b.limit /\ v.read = 0
      BY <3>3, <3>4
    <3>6. [v EXCEPT !.write = n] = [data |-> v.data, limit |-> v.limit, read |-> v.read, write |-> n]
      BY <3>5
    <3> QED
      BY <3>1, <3>5, <3>6
  <2>3. DOMAIN b.data = 0 .. b.limit - 1
    BY Fields
  <2>4. \A i \in 0 .. b.limit - 1 : d[i] = IF i < n THEN b.data[b.read + i] ELSE b.data[i]
    BY <2>3
  <2>5. d \in [0 .. b.limit - 1 -> Byte]
    <3>1. ASSUME NEW i \in 0 .. b.limit - 1  PROVE d[i] \in Byte
      <4>1. i < n => b.read + i \in 0 .. b.limit - 1
        BY <2>1, Fields
      <4> QED
        BY <2>4, <4>1, Fields
    <3> QED
      BY <2>3, <3>1
  <2> HIDE DEF c, d, n
  <2>6. BufferOK(c) /\ c.read = 0 /\ c.write = n /\ c.data = d
    BY <2>1, <2>2, <2>5, Fields DEF BufferOK, IsBuffer
  <2>7. ASSUME NEW i \in 1 .. c.write - c.read
        PROVE  c.data[c.read + i - 1] = Queue(b).bytes[i]
    <3>1. i \in 1 .. n /\ c.read + i - 1 = i - 1 /\ i - 1 \in 0 .. b.limit - 1 /\ i - 1 < n
      BY <2>1, <2>6, Fields
    <3>2. d[i - 1] = b.data[b.read + (i - 1)]
      BY <2>4, <3>1
    <3>3. b.read + (i - 1) = b.read + i - 1
      BY <3>1, Fields
    <3>4. Queue(b).bytes[i] = b.data[b.read + i - 1]
      BY <2>1, <3>1, QueueBytes
    <3> QED
      BY <2>6, <3>1, <3>2, <3>3, <3>4
  <2>8. Queue(b).bytes \in Seq(Byte) /\ Len(Queue(b).bytes) = c.write - c.read
    BY <2>1, <2>6, QueueBytes
  <2>9. Queue(c) = [bytes |-> Queue(b).bytes, read |-> 0]
    BY <2>6, <2>7, <2>8, SameQueue
  <2> QED
    BY <2>6, <2>9 DEF c
<1> QED
  BY <1>1, <1>2, <1>3

(* n of the bytes there are have been read (buffer.c:59-70). *)
THEOREM ReadDrops ==
    ASSUME NEW b, BufferOK(b), NEW n \in 0 .. buffer_read_ptr(b)
    PROVE  /\ BufferOK(buffer_read_adv(b, n))
           /\ Queue(buffer_read_adv(b, n)) = Q!buffer_read_adv(Queue(b), n)
<1> DEFINE c == [b EXCEPT !.read = @ + n]
           rest == SubSeq(Queue(b).bytes, n + 1, Len(Queue(b).bytes))
<1>1. n \in Nat /\ n <= b.write - b.read /\ n # -1
  BY Fields DEF buffer_read_ptr
<1>2. c = [data |-> b.data, limit |-> b.limit, read |-> b.read + n, write |-> b.write]
  BY Fields
<1>3. buffer_read_adv(b, n) = IF c.read = c.write THEN buffer_compact(c) ELSE c
  BY <1>1 DEF buffer_read_adv
<1> HIDE DEF c
<1>4. BufferOK(c) /\ c.read = b.read + n /\ c.write = b.write /\ c.data = b.data
  BY <1>1, <1>2, Fields DEF BufferOK, IsBuffer
<1>5. Len(Queue(b).bytes) = b.write - b.read /\ b.write - b.read \in Nat
  BY QueueBytes, Fields
<1>6. /\ rest \in Seq(Byte)
      /\ Len(rest) = (b.write - b.read) - n
      /\ \A i \in 1 .. (b.write - b.read) - n : rest[i] = Queue(b).bytes[n + i]
  <2>1. \A i \in n + 1 .. Len(Queue(b).bytes) : Queue(b).bytes[i] \in Byte
    <3>1. \A i \in n + 1 .. Len(Queue(b).bytes) : i \in 1 .. Len(Queue(b).bytes)
      BY <1>1, <1>5
    <3> QED
      BY <3>1, QueueBytes, ElementOfSeq
  <2>2. /\ rest \in Seq(Byte)
        /\ Len(rest) = IF n + 1 <= Len(Queue(b).bytes) THEN Len(Queue(b).bytes) - (n + 1) + 1 ELSE 0
        /\ \A i \in 1 .. Len(Queue(b).bytes) - (n + 1) + 1 : rest[i] = Queue(b).bytes[(n + 1) + i - 1]
    BY <1>1, <1>5, <2>1, SubSeqProperties
  <2> HIDE DEF rest
  <2>3. Len(rest) = (b.write - b.read) - n
    BY <1>1, <1>5, <2>2
  <2>4. ASSUME NEW i \in 1 .. (b.write - b.read) - n  PROVE rest[i] = Queue(b).bytes[n + i]
    <3>1. i \in 1 .. Len(Queue(b).bytes) - (n + 1) + 1 /\ (n + 1) + i - 1 = n + i
      BY <1>1, <1>5
    <3> QED
      BY <2>2, <3>1
  <2> QED
    BY <2>2, <2>3, <2>4
<1>7. Queue(c) = [bytes |-> rest, read |-> b.read + n]
  <2>1. ASSUME NEW i \in 1 .. c.write - c.read  PROVE c.data[c.read + i - 1] = rest[i]
    <3>1. i \in 1 .. (b.write - b.read) - n /\ n + i \in 1 .. b.write - b.read
          /\ b.read + (n + i) - 1 = c.read + i - 1
      BY <1>1, <1>4, Fields
    <3>2. rest[i] = b.data[b.read + (n + i) - 1]
      BY <1>6, <3>1, QueueBytes
    <3> QED
      BY <1>4, <3>1, <3>2
  <2>2. Len(rest) = c.write - c.read
    BY <1>1, <1>4, <1>6, Fields
  <2> HIDE DEF rest
  <2> QED
    BY <1>4, <1>6, <2>1, <2>2, SameQueue
<1>8. c.read = c.write <=> n = Len(Queue(b).bytes)
  BY <1>1, <1>4, <1>5, Fields
<1>9. Queue(b).read = b.read /\ Queue(c).bytes = rest
  BY <1>7, QueueBytes
<1>10. CASE c.read = c.write
  <2>1. BufferOK(buffer_compact(c)) /\ Queue(buffer_compact(c)) = [bytes |-> rest, read |-> 0]
    BY <1>4, <1>9, CompactKeepsBytes
  <2> QED
    BY <1>3, <1>8, <1>10, <2>1 DEF Q!buffer_read_adv
<1>11. CASE c.read # c.write
  BY <1>3, <1>4, <1>7, <1>8, <1>9, <1>11 DEF Q!buffer_read_adv
<1> QED
  BY <1>10, <1>11

(* The byte at the read pointer, and it is taken out; a zero if there is   *)
(* none (buffer.c:72-82).                                                  *)
THEOREM ReadByte ==
    ASSUME NEW b, BufferOK(b)
    PROVE  LET r == buffer_read(b)
           IN  IF Queue(b).bytes = <<>> THEN r = [byte |-> 0, b |-> b]
               ELSE /\ r.byte = Head(Queue(b).bytes)
                    /\ BufferOK(r.b)
                    /\ Queue(r.b) = Q!buffer_read_adv(Queue(b), 1)
<1>1. Queue(b).bytes \in Seq(Byte) /\ Len(Queue(b).bytes) = b.write - b.read
  BY QueueBytes
<1>2. CASE buffer_can_read(b)
  <2>1. 1 \in 0 .. buffer_read_ptr(b) /\ 1 \in 1 .. b.write - b.read
    BY <1>2, Fields DEF buffer_can_read, buffer_read_ptr
  <2>2. Queue(b).bytes # <<>>
    BY <1>1, <2>1, EmptySeq
  <2>3. Head(Queue(b).bytes) = Queue(b).bytes[1]
    OBVIOUS
  <2>4. Queue(b).bytes[1] = b.data[b.read]
    <3>1. b.read + 1 - 1 = b.read
      BY Fields
    <3> QED
      BY <2>1, <3>1, QueueBytes
  <2> QED
    BY <1>2, <2>1, <2>2, <2>3, <2>4, ReadDrops DEF buffer_read
<1>3. CASE ~buffer_can_read(b)
  <2>1. b.write - b.read = 0
    BY <1>3, Fields DEF buffer_can_read, buffer_read_ptr
  <2>2. Queue(b).bytes = <<>>
    BY <1>1, <2>1, EmptySeq
  <2> QED
    BY <1>3, <2>2 DEF buffer_read
<1> QED
  BY <1>2, <1>3

(* buffer_can_read and buffer_can_write say of the pointers what they say  *)
(* of the queue (buffer.c:27-42).                                          *)
THEOREM CanReadAndWrite ==
    ASSUME NEW b, BufferOK(b)
    PROVE  /\ buffer_can_read(b) <=> Q!buffer_can_read(Queue(b))
           /\ buffer_can_write(b) <=> Q!buffer_can_write(Queue(b))
<1>1. Queue(b).bytes \in Seq(Byte) /\ Len(Queue(b).bytes) = b.write - b.read /\ Queue(b).read = b.read
  BY QueueBytes
<1>2. b.limit = BUFFER_SIZE
  BY DEF BufferOK, IsBuffer
<1>3. Queue(b).bytes = <<>> <=> b.write - b.read = 0
  BY <1>1, EmptySeq, Fields
<1> QED
  BY <1>1, <1>2, <1>3, Fields DEF buffer_can_read, buffer_can_write, buffer_read_ptr,
     buffer_write_ptr, Q!buffer_can_read, Q!buffer_can_write, Q!Written
=============================================================================
