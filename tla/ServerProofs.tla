---------------------------- MODULE ServerProofs ----------------------------
(***************************************************************************)
(* Proofs about Server, for any number of peers and descriptors: the table *)
(* of the selector agrees with the connections, and every descriptor of    *)
(* the process is accounted for.                                           *)
(***************************************************************************)
EXTENDS Server, FiniteSetTheorems, FunctionTheorems, WellFoundedInduction, TLAPS

-----------------------------------------------------------------------------
(* -- The selector -- *)

(* A nonempty set of numbers up to N has a greatest element: what the loop *)
(* of items_max_fd finds.                                                  *)
LEMMA Greatest ==
    ASSUME NEW N \in Nat, NEW S \in SUBSET (0 .. N), S # {}
    PROVE  \E m \in S : \A i \in S : i <= m
<1> DEFINE R == OpToRel(<, Nat)
           T == {N - i : i \in S}
<1>1. T \in SUBSET Nat /\ T # {}
  <2>1. \A i \in S : N - i \in Nat
    OBVIOUS
  <2>2. PICK i \in S : TRUE
    OBVIOUS
  <2>3. N - i \in T
    OBVIOUS
  <2> QED
    BY <2>1, <2>3
<1>2. \E t \in T : \A u \in T : ~(<<u, t>> \in R)
  <2>1. IsWellFoundedOn(R, Nat)
    BY NatLessThanWellFounded
  <2> HIDE DEF R, T
  <2> QED
    BY <2>1, <1>1, WFMin
<1>3. PICK t \in T : \A u \in T : ~(u < t)
  BY <1>1, <1>2 DEF OpToRel
<1>4. PICK m \in S : t = N - m
  BY <1>3
<1>5. \A i \in S : ~(N - i < N - m)
  BY <1>3, <1>4
<1> QED
  BY <1>5

(* selector_new(SELECTOR_SIZE) has one item more than pselect can handle   *)
(* descriptors (selector.c:174-190).                                       *)
LEMMA Capacity == next_capacity(FD_SETSIZE) = FD_SETSIZE + 1
<1>1. 2 ^ Bits(FD_SETSIZE) \in Nat /\ 2 ^ Bits(FD_SETSIZE) >= FD_SETSIZE
  BY SelectorAssumption
<1> DEFINE b == 2 ^ Bits(FD_SETSIZE)
<1>2. next_capacity(FD_SETSIZE) = 1 + IF b > FD_SETSIZE THEN FD_SETSIZE ELSE b
  BY DEF next_capacity
<1> HIDE DEF b
<1>3. b \in Nat /\ b >= FD_SETSIZE /\ FD_SETSIZE \in Nat
  BY <1>1, SelectorAssumption DEF b
<1> QED
  BY <1>2, <1>3

THEOREM NewConsistent ==
    /\ Consistent(selector_new(FD_SETSIZE))
    /\ Used(selector_new(FD_SETSIZE)) = {}
<1> DEFINE s == selector_new(FD_SETSIZE)
<1>1. s = [fds |-> [i \in 0 .. FD_SETSIZE |-> Unused], fd_size |-> FD_SETSIZE + 1,
           max_fd |-> 0, master_r |-> {}, master_w |-> {}]
  BY Capacity, SelectorAssumption DEF selector_new, Table
<1>2. Unused \in Item /\ Unused.handler = NULL
  BY DEF Unused, Item, OP_NOOP
<1> HIDE DEF s
<1>3. Used(s) = {}
  BY <1>1, <1>2 DEF Used, ITEM_USED
<1>4. s.fds \in [0 .. s.fd_size - 1 -> Item]
  BY <1>1, <1>2, SelectorAssumption
<1>5. Consistent(s)
  <2>1. s \in [fds : [0 .. s.fd_size - 1 -> Item], fd_size : Nat, max_fd : Nat,
               master_r : SUBSET Nat, master_w : SUBSET Nat]
    BY <1>1, <1>4, SelectorAssumption
  <2>2. s.fd_size > FD_SETSIZE /\ s.max_fd = 0
    BY <1>1, SelectorAssumption
  <2>3. s.master_r = {} /\ s.master_w = {}
    BY <1>1
  <2>4. s.master_r = {fd \in Used(s) : "r" \in s.fds[fd].interest}
    BY <1>3, <2>3
  <2>5. s.master_w = {fd \in Used(s) : "w" \in s.fds[fd].interest}
    BY <1>3, <2>3
  <2> QED
    BY <1>3, <2>1, <2>2, <2>4, <2>5 DEF Consistent, IsTable, MaxIsGreatest, SetsAgree
<1> QED
  BY <1>3, <1>5 DEF s

-----------------------------------------------------------------------------
(* One item is changed and the sets brought up to date: the common part of *)
(* the three operations (selector.c:226-240).                              *)
LEMMA UpdateSets ==
    ASSUME NEW s, Consistent(s), NEW fd \in 0 .. FD_SETSIZE - 1,
           NEW t, IsTable(t), DOMAIN t.fds = DOMAIN s.fds,
           \A f \in DOMAIN s.fds \ {fd} : t.fds[f] = s.fds[f],
           ITEM_USED(t, fd) \/ t.fds[fd].interest = OP_NOOP,
           t.master_r = s.master_r, t.master_w = s.master_w,
           NEW r, r = items_update_fdset_for_fd(t, fd)
    PROVE  /\ IsTable(r) /\ SetsAgree(r)
           /\ Used(r) = Used(t)
           /\ r.fds = t.fds /\ r.fd_size = t.fd_size /\ r.max_fd = t.max_fd
<1> DEFINE R == (t.master_r \ {fd}) \cup {f \in {fd} : "r" \in t.fds[fd].interest}
           W == (t.master_w \ {fd}) \cup {f \in {fd} : "w" \in t.fds[fd].interest}
<1>1. t = [fds |-> t.fds, fd_size |-> t.fd_size, max_fd |-> t.max_fd,
           master_r |-> t.master_r, master_w |-> t.master_w]
  BY DEF IsTable
<1>2. r = [fds |-> t.fds, fd_size |-> t.fd_size, max_fd |-> t.max_fd,
           master_r |-> R, master_w |-> W]
  BY <1>1 DEF items_update_fdset_for_fd
<1>3. /\ t.fds \in [0 .. t.fd_size - 1 -> Item] /\ t.fd_size \in Nat /\ t.max_fd \in Nat
      /\ t.master_r \in SUBSET Nat /\ t.master_w \in SUBSET Nat /\ t.fd_size > FD_SETSIZE
  BY DEF IsTable
<1>4. R \in SUBSET Nat /\ W \in SUBSET Nat
  BY <1>3, SelectorAssumption
<1>5. fd \in DOMAIN t.fds
  BY <1>3, SelectorAssumption
<1>6. Used(r) = Used(t)
  BY <1>2 DEF Used, ITEM_USED
<1>7. \A f \in DOMAIN s.fds \ {fd} : f \in Used(t) <=> f \in Used(s)
  BY DEF Used, ITEM_USED
<1>8. /\ s.master_r = {f \in Used(s) : "r" \in s.fds[f].interest}
      /\ s.master_w = {f \in Used(s) : "w" \in s.fds[f].interest}
  BY DEF Consistent, SetsAgree
<1>9. R = {f \in Used(t) : "r" \in t.fds[f].interest}
  BY <1>5, <1>7, <1>8 DEF Used, ITEM_USED, OP_NOOP
<1>10. W = {f \in Used(t) : "w" \in t.fds[f].interest}
  BY <1>5, <1>7, <1>8 DEF Used, ITEM_USED, OP_NOOP
<1>11. SetsAgree(r)
  <2>1. r.fds = t.fds /\ r.master_r = R /\ r.master_w = W
    BY <1>2
  <2> HIDE DEF R, W
  <2> QED
    BY <1>6, <1>9, <1>10, <2>1 DEF SetsAgree
<1>12. IsTable(r)
  BY <1>2, <1>3, <1>4 DEF IsTable
<1> QED
  BY <1>2, <1>6, <1>11, <1>12

(* What becomes of s when fd is to be registered with item: fd is in use   *)
(* after it with what was passed, and nothing else changes; or the table   *)
(* is as it was.                                                           *)
Registered(s, fd, item, r) ==
    /\ Consistent(r.s)
    /\ \/ /\ r.status = "SUCCESS" /\ fd < FD_SETSIZE /\ fd \notin Used(s)
          /\ Used(r.s) = Used(s) \cup {fd}
          /\ r.s.fds = [s.fds EXCEPT ![fd] = item]
       \/ r.status = "IARGS" /\ fd >= FD_SETSIZE /\ r.s = s
       \/ r.status = "FDINUSE" /\ fd < FD_SETSIZE /\ fd \in Used(s) /\ r.s = s

(* Registering a descriptor of the process, whichever it is, never writes  *)
(* past the table, and leaves it consistent (selector.c:337-378).          *)
THEOREM RegisterConsistent ==
    ASSUME NEW s, Consistent(s), NEW fd \in Nat, NEW h \in Handler,
           NEW interest \in SUBSET {"r", "w"}, NEW d \in Data \cup {NULL},
           NEW r, r = selector_register(s, fd, h, interest, d)
    PROVE  Registered(s, fd, [handler |-> h, interest |-> interest, data |-> d], r)
<1> DEFINE item == [handler |-> h, interest |-> interest, data |-> d]
           t == [s EXCEPT !.fds[fd] = item, !.max_fd = IF fd > @ THEN fd ELSE @]
<1>1. CASE fd >= FD_SETSIZE
  <2>1. r.s = s /\ r.status = "IARGS"
    BY <1>1 DEF selector_register, INVALID_FD
  <2> QED
    BY <1>1, <2>1 DEF Registered
<1>2. CASE fd < FD_SETSIZE
  <2>1. /\ s.fds \in [0 .. s.fd_size - 1 -> Item] /\ s.fd_size \in Nat /\ s.max_fd \in Nat
        /\ s.fd_size > FD_SETSIZE /\ DOMAIN s.fds = 0 .. s.fd_size - 1
    BY DEF Consistent, IsTable
  <2>2. fd \in DOMAIN s.fds /\ ~(fd > s.fd_size) /\ ~INVALID_FD(fd)
    BY <1>2, <2>1, SelectorAssumption DEF INVALID_FD
  <2>3. CASE ITEM_USED(s, fd)
    <3>1. r.s = s /\ r.status = "FDINUSE" /\ fd \in Used(s)
      BY <2>2, <2>3 DEF selector_register, Used
    <3> QED
      BY <1>2, <3>1 DEF Registered
  <2>4. CASE ~ITEM_USED(s, fd)
    <3>1. r = [status |-> "SUCCESS", s |-> items_update_fdset_for_fd(t, fd)]
      BY <2>2, <2>4 DEF selector_register
    <3>2. s = [fds |-> s.fds, fd_size |-> s.fd_size, max_fd |-> s.max_fd,
               master_r |-> s.master_r, master_w |-> s.master_w]
      BY DEF Consistent, IsTable
    <3>3. t = [fds |-> [s.fds EXCEPT ![fd] = item], fd_size |-> s.fd_size,
               max_fd |-> IF fd > s.max_fd THEN fd ELSE s.max_fd,
               master_r |-> s.master_r, master_w |-> s.master_w]
      <4>1. t = [s EXCEPT !.fds = [s.fds EXCEPT ![fd] = item],
                          !.max_fd = IF fd > s.max_fd THEN fd ELSE s.max_fd]
        BY <3>2, Zenon
      <4> DEFINE f == [s.fds EXCEPT ![fd] = item]
                 n == IF fd > s.max_fd THEN fd ELSE s.max_fd
                 u == [s EXCEPT !.fds = f]
      <4>2. t = [u EXCEPT !.max_fd = n]
        BY <4>1
      <4> HIDE DEF f, n, item, t
      <4>3. u = [fds |-> f, fd_size |-> s.fd_size, max_fd |-> s.max_fd,
                 master_r |-> s.master_r, master_w |-> s.master_w]
        BY <3>2
      <4> HIDE DEF u
      <4>4. /\ u = [fds |-> u.fds, fd_size |-> u.fd_size, max_fd |-> u.max_fd,
                    master_r |-> u.master_r, master_w |-> u.master_w]
            /\ u.fds = f /\ u.fd_size = s.fd_size
            /\ u.master_r = s.master_r /\ u.master_w = s.master_w
        BY <4>3
      <4>5. [u EXCEPT !.max_fd = n] =
               [fds |-> u.fds, fd_size |-> u.fd_size, max_fd |-> n,
                master_r |-> u.master_r, master_w |-> u.master_w]
        BY <4>4
      <4> QED
        BY <4>2, <4>4, <4>5 DEF f, n
    <3> DEFINE m == IF fd > s.max_fd THEN fd ELSE s.max_fd
    <3>4. m \in Nat /\ s.master_r \in SUBSET Nat /\ s.master_w \in SUBSET Nat
      BY <2>1 DEF Consistent, IsTable
    <3>5. item \in Item /\ item.handler # NULL
      BY SelectorAssumption DEF Item
    <3>6. t.fds \in [0 .. s.fd_size - 1 -> Item] /\ t.fds[fd] = item /\ DOMAIN t.fds = DOMAIN s.fds
      BY <2>1, <2>2, <3>3, <3>5
    <3> HIDE DEF item
    <3>7. IsTable(t)
      BY <2>1, <3>3, <3>4, <3>6 DEF IsTable
    <3>8. \A f \in DOMAIN s.fds \ {fd} : t.fds[f] = s.fds[f]
      BY <2>1, <3>3
    <3>9. ITEM_USED(t, fd) /\ t.master_r = s.master_r /\ t.master_w = s.master_w /\ t.max_fd = m
      BY <3>3, <3>5, <3>6 DEF ITEM_USED
    <3> HIDE DEF t
    <3>10. fd \in 0 .. FD_SETSIZE - 1
      BY <1>2, SelectorAssumption
    <3>11. /\ IsTable(r.s) /\ SetsAgree(r.s)
           /\ Used(r.s) = Used(t)
           /\ r.s.fds = t.fds /\ r.s.fd_size = t.fd_size /\ r.s.max_fd = t.max_fd
      BY <3>1, <3>6, <3>7, <3>8, <3>9, <3>10, UpdateSets
    <3>12. Used(t) = Used(s) \cup {fd}
      BY <2>2, <3>6, <3>8, <3>9 DEF Used, ITEM_USED
    <3>13. /\ \A f \in Used(s) : f < FD_SETSIZE /\ f <= s.max_fd /\ f \in Nat
           /\ s.max_fd = 0 \/ s.max_fd \in Used(s)
      BY <2>1 DEF Consistent, MaxIsGreatest, Used
    <3>14. MaxIsGreatest(r.s)
      BY <1>2, <2>1, <3>9, <3>11, <3>12, <3>13 DEF MaxIsGreatest
    <3>15. fd \notin Used(s)
      BY <2>4 DEF Used
    <3> QED
      <4>1. Consistent(r.s)
        BY <3>11, <3>14 DEF Consistent
      <4>2. r.s.fds = [s.fds EXCEPT ![fd] = item]
        BY <3>3, <3>11
      <4>3. r.status = "SUCCESS"
        BY <3>1
      <4> QED
        BY <1>2, <3>11, <3>12, <3>15, <4>1, <4>2, <4>3 DEF item, Registered
  <2> QED
    BY <2>3, <2>4
<1> QED
  BY <1>1, <1>2, SelectorAssumption

(* The interest of a descriptor in use is replaced, and nothing else       *)
(* (selector.c:416-433).                                                   *)
THEOREM SetInterestConsistent ==
    ASSUME NEW s, Consistent(s), NEW fd \in Used(s), NEW interest \in SUBSET {"r", "w"},
           NEW r, r = selector_set_interest(s, fd, interest)
    PROVE  /\ Consistent(r)
           /\ Used(r) = Used(s)
           /\ r.fds = [s.fds EXCEPT ![fd].interest = interest]
<1> DEFINE item == [s.fds[fd] EXCEPT !.interest = interest]
           t == [s EXCEPT !.fds[fd].interest = interest]
<1>1. /\ s.fds \in [0 .. s.fd_size - 1 -> Item] /\ s.fd_size \in Nat /\ s.max_fd \in Nat
      /\ s.fd_size > FD_SETSIZE /\ DOMAIN s.fds = 0 .. s.fd_size - 1
      /\ s.master_r \in SUBSET Nat /\ s.master_w \in SUBSET Nat
  BY DEF Consistent, IsTable
<1>2. fd \in DOMAIN s.fds /\ s.fds[fd].handler # NULL /\ fd \in 0 .. FD_SETSIZE - 1
  BY <1>1, SelectorAssumption DEF Used, ITEM_USED, Consistent, MaxIsGreatest
<1>3. s = [fds |-> s.fds, fd_size |-> s.fd_size, max_fd |-> s.max_fd,
           master_r |-> s.master_r, master_w |-> s.master_w]
  BY DEF Consistent, IsTable
<1>4. item \in Item /\ item.handler = s.fds[fd].handler
  BY <1>1, <1>2 DEF Item
<1>5. t = [fds |-> [s.fds EXCEPT ![fd] = item], fd_size |-> s.fd_size, max_fd |-> s.max_fd,
           master_r |-> s.master_r, master_w |-> s.master_w]
  <2>1. t = [s EXCEPT !.fds = [s.fds EXCEPT ![fd] = item]]
    BY Zenon
  <2> HIDE DEF item
  <2> QED
    BY <1>3, <2>1
<1> HIDE DEF item
<1>6. t.fds \in [0 .. s.fd_size - 1 -> Item] /\ t.fds[fd] = item /\ DOMAIN t.fds = DOMAIN s.fds
  BY <1>1, <1>2, <1>4, <1>5
<1>7. IsTable(t)
  BY <1>1, <1>5, <1>6 DEF IsTable
<1>8. \A f \in DOMAIN s.fds \ {fd} : t.fds[f] = s.fds[f]
  BY <1>1, <1>5
<1>9. ITEM_USED(t, fd) /\ t.master_r = s.master_r /\ t.master_w = s.master_w
  BY <1>2, <1>4, <1>5, <1>6 DEF ITEM_USED
<1>10. r = items_update_fdset_for_fd(t, fd)
  BY DEF selector_set_interest
<1>11. t.max_fd = s.max_fd /\ t.fds = [s.fds EXCEPT ![fd].interest = interest]
  BY <1>1, <1>2, <1>5 DEF item
<1> HIDE DEF t
<1>12. /\ IsTable(r) /\ SetsAgree(r)
       /\ Used(r) = Used(t)
       /\ r.fds = t.fds /\ r.fd_size = t.fd_size /\ r.max_fd = t.max_fd
  BY <1>2, <1>6, <1>7, <1>8, <1>9, <1>10, UpdateSets
<1>13. Used(t) = Used(s)
  BY <1>2, <1>6, <1>8, <1>9 DEF Used, ITEM_USED
<1>14. MaxIsGreatest(r)
  BY <1>11, <1>12, <1>13 DEF Consistent, MaxIsGreatest
<1> QED
  BY <1>11, <1>12, <1>13, <1>14 DEF Consistent

(* A descriptor that is unregistered is free again, whatever it was, and   *)
(* the highest one in use is found again (selector.c:380-414).             *)
THEOREM UnregisterConsistent ==
    ASSUME NEW s, Consistent(s), NEW fd \in Used(s),
           NEW r, r = selector_unregister_fd(s, fd)
    PROVE  /\ Consistent(r)
           /\ Used(r) = Used(s) \ {fd}
           /\ r.fds = [s.fds EXCEPT ![fd] = Unused]
<1> DEFINE t == [s EXCEPT !.fds[fd] = Unused]
           u == items_update_fdset_for_fd(t, fd)
<1>1. /\ s.fds \in [0 .. s.fd_size - 1 -> Item] /\ s.fd_size \in Nat /\ s.max_fd \in Nat
      /\ s.fd_size > FD_SETSIZE /\ DOMAIN s.fds = 0 .. s.fd_size - 1
      /\ s.master_r \in SUBSET Nat /\ s.master_w \in SUBSET Nat
  BY DEF Consistent, IsTable
<1>2. fd \in DOMAIN s.fds /\ fd \in 0 .. FD_SETSIZE - 1
  BY <1>1, SelectorAssumption DEF Used, ITEM_USED, Consistent, MaxIsGreatest
<1>3. s = [fds |-> s.fds, fd_size |-> s.fd_size, max_fd |-> s.max_fd,
           master_r |-> s.master_r, master_w |-> s.master_w]
  BY DEF Consistent, IsTable
<1>4. Unused \in Item /\ Unused.handler = NULL /\ Unused.interest = OP_NOOP
  BY DEF Item, Unused, OP_NOOP
<1>5. t = [fds |-> [s.fds EXCEPT ![fd] = Unused], fd_size |-> s.fd_size, max_fd |-> s.max_fd,
           master_r |-> s.master_r, master_w |-> s.master_w]
  <2>1. t = [s EXCEPT !.fds = [s.fds EXCEPT ![fd] = Unused]]
    BY Zenon
  <2> QED
    BY <1>3, <2>1
<1>6. t.fds \in [0 .. s.fd_size - 1 -> Item] /\ t.fds[fd] = Unused /\ DOMAIN t.fds = DOMAIN s.fds
  BY <1>1, <1>2, <1>4, <1>5
<1>7. IsTable(t)
  BY <1>1, <1>5, <1>6 DEF IsTable
<1>8. \A f \in DOMAIN s.fds \ {fd} : t.fds[f] = s.fds[f]
  BY <1>1, <1>5
<1>9. t.fds[fd].interest = OP_NOOP /\ t.master_r = s.master_r /\ t.master_w = s.master_w
  BY <1>4, <1>5, <1>6
<1>10. t.max_fd = s.max_fd /\ t.fds = [s.fds EXCEPT ![fd] = Unused]
  BY <1>5
<1>11. r = [u EXCEPT !.max_fd = items_max_fd(u)]
  BY DEF selector_unregister_fd
<1>12. Used(t) = Used(s) \ {fd}
  BY <1>2, <1>4, <1>6, <1>8 DEF Used, ITEM_USED
<1> HIDE DEF t
<1>13. /\ IsTable(u) /\ SetsAgree(u)
       /\ Used(u) = Used(t)
       /\ u.fds = t.fds /\ u.fd_size = t.fd_size /\ u.max_fd = t.max_fd
  BY <1>2, <1>6, <1>7, <1>8, <1>9, UpdateSets
<1> HIDE DEF u
<1>14. \A f \in Used(u) : f \in 0 .. s.max_fd /\ f < FD_SETSIZE
  BY <1>1, <1>12, <1>13 DEF Consistent, MaxIsGreatest, Used
<1>15. /\ items_max_fd(u) \in 0 .. s.max_fd
       /\ items_max_fd(u) = 0 \/ items_max_fd(u) \in Used(u)
       /\ \A f \in Used(u) : f <= s.max_fd => f <= items_max_fd(u)
  <2> DEFINE Q(m) == /\ m = 0 \/ m \in Used(u)
                     /\ \A f \in Used(u) : f <= u.max_fd => f <= m
  <2>1. \E m \in 0 .. u.max_fd : Q(m)
    <3>1. CASE Used(u) = {}
      BY <1>1, <1>10, <1>13, <3>1
    <3>2. CASE Used(u) # {}
      <4>1. Used(u) \in SUBSET (0 .. s.max_fd)
        BY <1>14
      <4>2. PICK m \in Used(u) : \A i \in Used(u) : i <= m
        BY <1>1, <3>2, <4>1, Greatest
      <4> QED
        BY <1>10, <1>13, <4>1, <4>2
    <3> QED
      BY <3>1, <3>2
  <2>2. items_max_fd(u) = CHOOSE m \in 0 .. u.max_fd : Q(m)
    BY DEF items_max_fd
  <2>3. items_max_fd(u) \in 0 .. u.max_fd /\ Q(items_max_fd(u))
    <3> HIDE DEF Q
    <3> QED
      BY <2>1, <2>2
  <2> QED
    BY <1>10, <1>13, <2>3
<1>16. r = [fds |-> u.fds, fd_size |-> u.fd_size, max_fd |-> items_max_fd(u),
            master_r |-> u.master_r, master_w |-> u.master_w]
  BY <1>11, <1>13 DEF IsTable
<1>17. IsTable(r)
  BY <1>1, <1>13, <1>15, <1>16 DEF IsTable
<1>18. Used(r) = Used(u)
  BY <1>16 DEF Used, ITEM_USED
<1>19. SetsAgree(r)
  <2>1. r.fds = u.fds /\ r.master_r = u.master_r /\ r.master_w = u.master_w
    BY <1>16
  <2> QED
    BY <1>13, <1>18, <2>1 DEF SetsAgree
<1>20. MaxIsGreatest(r)
  BY <1>14, <1>15, <1>16, <1>18 DEF MaxIsGreatest
<1> QED
  BY <1>10, <1>12, <1>13, <1>16, <1>17, <1>18, <1>19, <1>20 DEF Consistent

-----------------------------------------------------------------------------
(* -- The server -- *)

(* What holds of one connection: it has a descriptor the selector takes;   *)
(* it has a mail file open only while it is sending one that has not ended *)
(* (pop3.c:147-150, pop3file.c:134-141), and its buffer is full only then; *)
(* and it has something to send while it answers a command.                *)
ClientOK(k) ==
    /\ k \in Client
    /\ k.stm = "NONE" => k = NoClient
    /\ k.stm # "NONE" => k.fd \in 2 .. FD_SETSIZE - 1
    /\ k.file # NULL => k.stm = "WRITE_FILE" /\ ~k.fileDoneReading /\ k.file > 1
    /\ k.full => k.stm = "WRITE_FILE" /\ k.out /\ ~k.fileDoneReading
    /\ k.stm = "READ" => ~k.out
    /\ k.stm = "WRITE" => k.out

Clients == conn \in [Peer -> Client] /\ \A p \in Peer : ClientOK(conn[p])

(* No descriptor is used twice. *)
Distinct ==
    /\ \A p, q \in Peer : p # q /\ conn[p].fd # NULL => conn[p].fd # conn[q].fd
    /\ \A p, q \in Peer : p # q /\ conn[p].file # NULL => conn[p].file # conn[q].file
    /\ \A p, q \in Peer : conn[p].file # NULL => conn[p].file # conn[q].fd

OpenIs ==
    /\ open \subseteq 0 .. OPEN_MAX - 1
    /\ open = {server, managerSocket} \cup {conn[p].fd : p \in Connected}
              \cup {conn[p].file : p \in Opened}

Sockets ==
    /\ selector.fds[server] = [handler |-> "passive", interest |-> OP_READ, data |-> NULL]
    /\ selector.fds[managerSocket] =
          [handler |-> "manager", interest |-> OP_READ, data |-> NULL]

Metrics == [hist : Nat, conc : Nat, bytes : 0 .. Width - 1]
Metered == metrics \in Metrics /\ metrics.conc = Cardinality(Connected)

(* What the handlers keep. *)
Books == TableAgrees /\ Sockets /\ Clients /\ Distinct /\ OpenIs /\ Metered

(* Who waits has no connection and waits once; the listening socket is     *)
(* only reported while somebody does.                                      *)
Queued ==
    /\ \A i \in DOMAIN backlog : conn[backlog[i]].stm = "NONE"
    /\ \A i, j \in DOMAIN backlog : backlog[i] = backlog[j] => i = j
    /\ server \in slave_r => backlog # <<>>

ServerInv == TypeOK /\ Books /\ Queued

(* The sets for pselect are as they were, but for one descriptor.          *)
Frame(fd) ==
    /\ \A f \in selector.master_r \ {fd} : f \in selector'.master_r
    /\ \A f \in selector.master_w \ {fd} : f \in selector'.master_w

-----------------------------------------------------------------------------
LEMMA ConnectedFinite == IsFiniteSet(Connected) /\ Cardinality(Connected) \in Nat
<1>1. Connected \in SUBSET Peer
  BY DEF Connected
<1> QED
  BY <1>1, ServerAssumption, FS_Subset, FS_CardinalityType

(* The item of a connection, and what its descriptor is not. *)
LEMMA ItemOf ==
    ASSUME Books, NEW p \in Connected
    PROVE  /\ p \in Peer /\ conn[p] \in Client /\ ClientOK(conn[p])
           /\ conn[p].fd \in 2 .. FD_SETSIZE - 1
           /\ conn[p].fd \in Used(selector) /\ conn[p].fd \in open
           /\ selector.fds[conn[p].fd] = [handler |-> "pop3", data |-> p,
                 interest |-> IF conn[p].stm = "READ" THEN OP_READ ELSE OP_WRITE]
           /\ \A q \in Peer \ {p} : conn[q].fd # conn[p].fd
<1>1. p \in Peer /\ conn[p].stm # "NONE"
  BY DEF Connected
<1>2. conn[p] \in Client /\ ClientOK(conn[p]) /\ conn[p].fd \in 2 .. FD_SETSIZE - 1
  BY <1>1 DEF Books, Clients, ClientOK
<1>3. conn[p].fd # NULL
  BY <1>2, ServerAssumption, SelectorAssumption
<1>4. \A q \in Peer \ {p} : conn[q].fd # conn[p].fd
  BY <1>1, <1>3 DEF Books, Distinct
<1>5. conn[p].fd \in Used(selector) /\ conn[p].fd \in open
  BY DEF Books, TableAgrees, OpenIs
<1> QED
  BY <1>1, <1>2, <1>4, <1>5 DEF Books, TableAgrees

(* The items of the other descriptors stay, and so do the sets.            *)
LEMMA FrameFromItems ==
    ASSUME NEW fd, Consistent(selector), Consistent(selector'),
           Used(selector) \ {fd} \subseteq Used(selector'),
           \A f \in Used(selector) \ {fd} : selector'.fds[f] = selector.fds[f]
    PROVE  Frame(fd)
BY DEF Frame, Consistent, SetsAgree

-----------------------------------------------------------------------------
(* A connection is closed (pop3.c:397-410). *)
LEMMA Closing ==
    ASSUME Books, NEW p \in Connected, conn[p].file = NULL,
           NEW m \in Metrics, m.conc = metrics.conc, closeConnection(p, m)
    PROVE  Books' /\ Frame(conn[p].fd) /\ Connected' = Connected \ {p}
<1> DEFINE fd == conn[p].fd
<1>1. /\ p \in Peer /\ ClientOK(conn[p]) /\ fd \in 2 .. FD_SETSIZE - 1
      /\ fd \in Used(selector) /\ fd \in open
      /\ \A q \in Peer \ {p} : conn[q].fd # fd
  BY ItemOf
<1>2. /\ Consistent(selector')
      /\ Used(selector') = Used(selector) \ {fd}
      /\ selector'.fds = [selector.fds EXCEPT ![fd] = Unused]
  <2>1. Consistent(selector) /\ selector' = selector_unregister_fd(selector, fd)
    BY DEF Books, TableAgrees, closeConnection
  <2> HIDE DEF fd
  <2> QED
    BY <1>1, <2>1, UnregisterConsistent
<1>3. \A f \in Used(selector) \ {fd} : selector'.fds[f] = selector.fds[f]
  BY <1>2 DEF Used
<1>4. conn \in [Peer -> Client] /\ conn' = [conn EXCEPT ![p] = NoClient]
  BY DEF Books, Clients, closeConnection
<1>5. conn'[p] = NoClient /\ \A q \in Peer \ {p} : conn'[q] = conn[q]
  BY <1>1, <1>4
<1>6. NoClient.stm = "NONE" /\ NoClient.fd = NULL /\ NoClient.file = NULL /\ NoClient \in Client
  BY DEF NoClient, Client
<1>7. Connected' = Connected \ {p} /\ Opened' = Opened
  BY <1>1, <1>5, <1>6 DEF Connected, Opened
<1>8. Frame(fd)
  BY <1>2, <1>3, FrameFromItems DEF Books, TableAgrees
<1>9. TableAgrees'
  <2>1. Used(selector') = {server, managerSocket} \cup {conn'[q].fd : q \in Connected'}
    BY <1>1, <1>2, <1>5, <1>7 DEF Books, TableAgrees, server, managerSocket, Connected
  <2>2. ASSUME NEW q \in Connected'
        PROVE  selector'.fds[conn'[q].fd] = [handler |-> "pop3", data |-> q,
                 interest |-> IF conn'[q].stm = "READ" THEN OP_READ ELSE OP_WRITE]
    <3>1. q \in Connected /\ conn'[q] = conn[q] /\ conn[q].fd \in Used(selector) \ {fd}
      BY <1>1, <1>5, <1>7, ItemOf DEF Connected
    <3> QED
      BY <1>3, <3>1 DEF Books, TableAgrees
  <2> QED
    BY <1>2, <2>1, <2>2 DEF TableAgrees
<1>10. Sockets'
  <2>1. server \in Used(selector) \ {fd} /\ managerSocket \in Used(selector) \ {fd}
    BY <1>1 DEF Books, TableAgrees, server, managerSocket
  <2> QED
    BY <1>3, <2>1 DEF Books, Sockets
<1>11. Clients'
  <2>1. ClientOK(NoClient)
    BY <1>6 DEF ClientOK, NoClient
  <2>2. conn' \in [Peer -> Client]
    BY <1>4, <1>6
  <2> QED
    BY <1>5, <2>1, <2>2 DEF Books, Clients
<1>12. Distinct'
  BY <1>5, <1>6 DEF Books, Distinct
<1>13. OpenIs'
  <2>1. open' = open \ {fd}
    BY DEF closeConnection
  <2>2. \A q \in Opened : conn[q].file # fd
    BY <1>1 DEF Books, Distinct, Opened
  <2>3. \A q \in Opened : conn'[q] = conn[q]
    BY <1>5 DEF Opened
  <2>4. {conn'[q].file : q \in Opened'} = {conn[q].file : q \in Opened}
    BY <1>7, <2>3
  <2>5. {conn'[q].fd : q \in Connected'} = {conn[q].fd : q \in Connected} \ {fd}
    BY <1>1, <1>5, <1>7 DEF Connected
  <2>6. server # fd /\ managerSocket # fd
    BY <1>1 DEF server, managerSocket
  <2> QED
    BY <2>1, <2>2, <2>4, <2>5, <2>6 DEF Books, OpenIs
<1>14. Metered'
  <2>1. Cardinality(Connected') = Cardinality(Connected) - 1 /\ Cardinality(Connected') \in Nat
    <3>1. IsFiniteSet(Connected) /\ IsFiniteSet(Connected \ {p})
      BY ConnectedFinite, FS_RemoveElement
    <3> QED
      BY <1>7, <3>1, FS_RemoveElement, FS_CardinalityType
  <2>2. metrics' = [m EXCEPT !.conc = m.conc - 1]
    BY DEF closeConnection
  <2> QED
    BY <2>1, <2>2 DEF Books, Metered, Metrics
<1> QED
  BY <1>7, <1>8, <1>9, <1>10, <1>11, <1>12, <1>13, <1>14 DEF Books

(* The connection changes, its descriptor and state stay; it may have      *)
(* opened a mail file, or closed the one it had.                           *)
LEMMA SameConnection ==
    ASSUME Books, NEW p \in Connected, NEW k, ClientOK(k),
           k.fd = conn[p].fd, k.stm = conn[p].stm,
           selector' = selector, conn' = [conn EXCEPT ![p] = k],
           metrics' \in Metrics, metrics'.conc = metrics.conc,
           \/ k.file = conn[p].file /\ open' = open
           \/ k.file = NULL /\ open' = open \ {conn[p].file}
           \/ conn[p].file = NULL /\ k.file \in Free /\ open' = open \cup {k.file}
    PROVE  Books' /\ Frame(conn[p].fd) /\ Connected' = Connected
<1>1. /\ p \in Peer /\ ClientOK(conn[p]) /\ conn[p].fd \in open /\ conn[p].stm # "NONE"
      /\ conn[p].fd \in 2 .. FD_SETSIZE - 1
  BY ItemOf DEF Connected
<1>2. conn' \in [Peer -> Client] /\ conn'[p] = k /\ \A q \in Peer \ {p} : conn'[q] = conn[q]
  BY <1>1 DEF Books, Clients, ClientOK
<1>3. \A q \in Peer : conn'[q].fd = conn[q].fd /\ conn'[q].stm = conn[q].stm
  BY <1>1, <1>2
<1>4. Connected' = Connected
  BY <1>3 DEF Connected
<1>5. TableAgrees'
  <2>1. {conn'[q].fd : q \in Connected} = {conn[q].fd : q \in Connected}
    BY <1>3 DEF Connected
  <2>2. ASSUME NEW q \in Connected
        PROVE  selector.fds[conn'[q].fd] = [handler |-> "pop3", data |-> q,
                 interest |-> IF conn'[q].stm = "READ" THEN OP_READ ELSE OP_WRITE]
    BY <1>3 DEF Books, TableAgrees, Connected
  <2> QED
    BY <1>4, <2>1, <2>2 DEF Books, TableAgrees
<1>6. Clients' /\ Sockets'
  BY <1>2 DEF Books, Clients, Sockets
<1>7. \A q \in Peer : conn[q].file # NULL => conn[q].file \in open
  BY DEF Books, OpenIs, Opened
<1>8. \A q \in Peer : conn[q].fd # NULL => conn[q].fd \in open
  <2>1. \A q \in Peer : conn[q].fd # NULL => q \in Connected
    BY DEF Books, Clients, ClientOK, NoClient, Connected
  <2> QED
    BY <2>1, ItemOf
<1>9. Distinct'
  <2>1. k.file = conn[p].file \/ k.file = NULL \/ (k.file \notin open /\ k.file \in Nat)
    BY DEF Free
  <2>2. \A q \in Peer \ {p} : k.file # NULL => k.file # conn[q].file
    BY <1>1, <1>7, <2>1, ServerAssumption DEF Books, Distinct
  <2>3. \A q \in Peer : k.file # NULL => k.file # conn[q].fd
    BY <1>1, <1>8, <2>1, ServerAssumption DEF Books, Distinct
  <2>4. \A q \in Peer \ {p} : conn[q].file # NULL => conn[q].file # k.file
    BY <1>1, <1>7, <2>1, ServerAssumption DEF Books, Distinct
  <2> QED
    BY <1>2, <1>3, <2>2, <2>3, <2>4 DEF Books, Distinct
<1>10. OpenIs'
  <2>1. {conn'[q].fd : q \in Connected'} = {conn[q].fd : q \in Connected}
    BY <1>3, <1>4 DEF Connected
  <2> DEFINE Files == {conn[q].file : q \in Opened}
  <2>2. CASE k.file = conn[p].file /\ open' = open
    <3>1. \A q \in Peer : conn'[q].file = conn[q].file
      BY <1>2, <2>2
    <3>2. Opened' = Opened
      BY <3>1 DEF Opened
    <3>3. {conn'[q].file : q \in Opened'} = Files
      BY <3>1, <3>2 DEF Opened
    <3> QED
      BY <2>1, <2>2, <3>3 DEF Books, OpenIs
  <2>3. CASE k.file = NULL /\ open' = open \ {conn[p].file}
    <3>1. Opened' = Opened \ {p}
      BY <1>2, <2>3 DEF Opened
    <3>2. {conn'[q].file : q \in Opened'} = Files \ {conn[p].file}
      BY <1>1, <1>2, <3>1 DEF Opened, Books, Distinct
    <3>3. \A q \in Connected : conn[q].fd # conn[p].file
      <4>1. ASSUME NEW q \in Connected
            PROVE  conn[q].fd # NULL
        <5>1. conn[q].fd \in 2 .. FD_SETSIZE - 1
          BY ItemOf
        <5> QED
          BY <5>1, ServerAssumption, SelectorAssumption
      <4> QED
        BY <1>1, <4>1 DEF Books, Distinct, Connected
    <3>4. conn[p].file \notin {server, managerSocket}
      BY <1>1, ServerAssumption DEF ClientOK, server, managerSocket
    <3> QED
      BY <2>1, <2>3, <3>2, <3>3, <3>4 DEF Books, OpenIs
  <2>4. CASE conn[p].file = NULL /\ k.file \in Free /\ open' = open \cup {k.file}
    <3>1. k.file # NULL /\ k.file \in 0 .. OPEN_MAX - 1
      BY <2>4, ServerAssumption DEF Free
    <3>2. Opened' = Opened \cup {p}
      BY <1>1, <1>2, <3>1 DEF Opened
    <3>3. {conn'[q].file : q \in Opened'} = Files \cup {k.file}
      BY <1>1, <1>2, <2>4, <3>1, <3>2 DEF Opened
    <3> QED
      BY <2>1, <2>4, <3>1, <3>3 DEF Books, OpenIs
  <2> QED
    BY <2>2, <2>3, <2>4
<1>11. Metered' /\ Frame(conn[p].fd)
  BY <1>4 DEF Books, Metered, Frame
<1> QED
  BY <1>4, <1>5, <1>6, <1>9, <1>10, <1>11 DEF Books

(* The connection turns to reading or to answering, and so does the        *)
(* interest of its descriptor.                                             *)
LEMMA Turning ==
    ASSUME Books, NEW p \in Connected, conn[p].file = NULL, ~conn[p].full,
           NEW stm \in {"READ", "WRITE", "WRITE_FILE"}, NEW interest,
           interest = IF stm = "READ" THEN OP_READ ELSE OP_WRITE,
           Turn(p, stm, interest),
           open' = open, metrics' \in Metrics, metrics'.conc = metrics.conc
    PROVE  Books' /\ Frame(conn[p].fd) /\ Connected' = Connected
<1> DEFINE fd == conn[p].fd
           k == [conn[p] EXCEPT !.stm = stm, !.out = stm # "READ", !.fileDoneReading = FALSE]
<1>1. /\ p \in Peer /\ conn[p] \in Client /\ ClientOK(conn[p]) /\ fd \in 2 .. FD_SETSIZE - 1
      /\ fd \in Used(selector) /\ conn[p].stm # "NONE"
      /\ \A q \in Peer \ {p} : conn[q].fd # fd
      /\ selector.fds[fd] = [handler |-> "pop3", data |-> p,
                 interest |-> IF conn[p].stm = "READ" THEN OP_READ ELSE OP_WRITE]
  BY ItemOf DEF Connected
<1>2. /\ Consistent(selector')
      /\ Used(selector') = Used(selector)
      /\ selector'.fds = [selector.fds EXCEPT ![fd].interest = interest]
  <2>1. Consistent(selector) /\ selector' = selector_set_interest(selector, fd, interest)
    BY DEF Books, TableAgrees, Turn
  <2>2. interest \in SUBSET {"r", "w"}
    BY DEF OP_READ, OP_WRITE
  <2> HIDE DEF fd
  <2> QED
    BY <1>1, <2>1, <2>2, SetInterestConsistent
<1>3. /\ \A f \in Used(selector) \ {fd} : selector'.fds[f] = selector.fds[f]
      /\ selector'.fds[fd] = [handler |-> "pop3", data |-> p, interest |-> interest]
  BY <1>1, <1>2 DEF Used
<1>4. k = [fd |-> fd, stm |-> stm, out |-> stm # "READ", full |-> conn[p].full,
           file |-> conn[p].file, fileDoneReading |-> FALSE]
  <2> DEFINE a == [conn[p] EXCEPT !.stm = stm]
             b == [a EXCEPT !.out = stm # "READ"]
  <2>1. a = [fd |-> fd, stm |-> stm, out |-> conn[p].out, full |-> conn[p].full,
             file |-> conn[p].file, fileDoneReading |-> conn[p].fileDoneReading]
    BY <1>1 DEF Client
  <2>2. k = [b EXCEPT !.fileDoneReading = FALSE]
    BY Zenon
  <2> HIDE DEF a, k
  <2>3. b = [fd |-> fd, stm |-> stm, out |-> stm # "READ", full |-> conn[p].full,
             file |-> conn[p].file, fileDoneReading |-> conn[p].fileDoneReading]
    BY <2>1
  <2> HIDE DEF b
  <2> QED
    BY <2>2, <2>3
<1>5. conn' = [conn EXCEPT ![p] = k]
  BY DEF Turn
<1> HIDE DEF k
<1>6. /\ k \in Client /\ k.fd = fd /\ k.stm = stm /\ k.file = NULL /\ ~k.full
      /\ k.stm # "NONE" /\ (k.out <=> stm # "READ")
  BY <1>1, <1>4 DEF Client
<1>7. conn' \in [Peer -> Client] /\ conn'[p] = k /\ \A q \in Peer \ {p} : conn'[q] = conn[q]
  BY <1>1, <1>5, <1>6 DEF Books, Clients
<1>8. /\ \A q \in Peer : conn'[q].fd = conn[q].fd /\ conn'[q].file = conn[q].file
      /\ \A q \in Peer : conn'[q].stm # "NONE" <=> conn[q].stm # "NONE"
  BY <1>1, <1>6, <1>7
<1>9. Connected' = Connected /\ Opened' = Opened
  BY <1>8 DEF Connected, Opened
<1>10. TableAgrees'
  <2>1. {conn'[q].fd : q \in Connected} = {conn[q].fd : q \in Connected}
    BY <1>8 DEF Connected
  <2>2. ASSUME NEW q \in Connected
        PROVE  selector'.fds[conn'[q].fd] = [handler |-> "pop3", data |-> q,
                 interest |-> IF conn'[q].stm = "READ" THEN OP_READ ELSE OP_WRITE]
    <3>1. CASE q = p
      BY <1>3, <1>6, <1>7, <3>1
    <3>2. CASE q # p
      <4>1. conn'[q] = conn[q] /\ conn[q].fd \in Used(selector) \ {fd}
        BY <1>1, <1>7, <3>2, ItemOf DEF Connected
      <4> QED
        BY <1>3, <4>1 DEF Books, TableAgrees
    <3> QED
      BY <3>1, <3>2
  <2> QED
    BY <1>2, <1>9, <2>1, <2>2 DEF Books, TableAgrees
<1>11. Sockets'
  <2>1. server \in Used(selector) \ {fd} /\ managerSocket \in Used(selector) \ {fd}
    BY <1>1 DEF Books, TableAgrees, server, managerSocket
  <2> QED
    BY <1>3, <2>1 DEF Books, Sockets
<1>12. Clients'
  <2>1. ClientOK(k)
    BY <1>1, <1>6 DEF ClientOK
  <2> QED
    BY <1>7, <2>1 DEF Books, Clients
<1>13. Distinct'
  BY <1>8 DEF Books, Distinct
<1>14. OpenIs'
  <2>1. {conn'[q].fd : q \in Connected} = {conn[q].fd : q \in Connected}
    BY <1>8 DEF Connected
  <2>2. {conn'[q].file : q \in Opened} = {conn[q].file : q \in Opened}
    BY <1>8 DEF Opened
  <2> QED
    BY <1>9, <2>1, <2>2 DEF Books, OpenIs
<1>15. Metered'
  BY <1>9 DEF Books, Metered
<1>16. Frame(fd)
  BY <1>2, <1>3, FrameFromItems DEF Books, TableAgrees
<1> QED
  BY <1>9, <1>10, <1>11, <1>12, <1>13, <1>14, <1>15, <1>16 DEF Books

(* Every descriptor of a connection, and every mail file, is open.         *)
LEMMA AllOpen ==
    Books => \A q \in Peer : /\ conn[q].fd # NULL => conn[q].fd \in open
                             /\ conn[q].file # NULL => conn[q].file \in open
<1> SUFFICES ASSUME Books
             PROVE  \A q \in Peer : /\ conn[q].fd # NULL => conn[q].fd \in open
                                    /\ conn[q].file # NULL => conn[q].file \in open
  OBVIOUS
<1>1. \A q \in Peer : conn[q].fd # NULL => q \in Connected
  BY DEF Books, Clients, ClientOK, NoClient, Connected
<1>2. \A q \in Peer : conn[q].fd # NULL => conn[q].fd \in open
  BY <1>1, ItemOf
<1> QED
  BY <1>2 DEF Books, OpenIs, Opened

(* What a registration for a peer may do. *)
LEMMA RegisterPeer ==
    ASSUME Books, NEW fd \in Nat, NEW p \in Peer,
           NEW r, r = selector_register(selector, fd, "pop3", OP_WRITE, p)
    PROVE  /\ Consistent(r.s)
           /\ r.status \in {"SUCCESS", "IARGS", "FDINUSE"}
           /\ r.status # "SUCCESS" => r.s = selector
           /\ r.status = "SUCCESS" =>
                /\ fd < FD_SETSIZE /\ fd \notin Used(selector)
                /\ Used(r.s) = Used(selector) \cup {fd}
                /\ r.s.fds = [selector.fds EXCEPT ![fd] =
                      [handler |-> "pop3", interest |-> OP_WRITE, data |-> p]]
<1>1. Consistent(selector) /\ OP_WRITE \in SUBSET {"r", "w"} /\ p \in Data \cup {NULL}
  BY ServerAssumption DEF Books, TableAgrees, OP_WRITE
<1>2. "pop3" \in Handler
  BY ServerAssumption
<1>3. Registered(selector, fd, [handler |-> "pop3", interest |-> OP_WRITE, data |-> p], r)
  BY <1>1, <1>2, RegisterConsistent
<1> QED
  BY <1>3 DEF Registered

(* A connection is accepted and registered (main.c:67-138).                *)
LEMMA Accepting ==
    ASSUME Books, NEW p \in Peer, conn[p].stm = "NONE", NEW fd \in Free,
           NEW r, r = selector_register(selector, fd, "pop3", OP_WRITE, p),
           r.status = "SUCCESS", selector' = r.s,
           open' = open \cup {fd}, conn' = [conn EXCEPT ![p] = NewClient(fd)],
           metrics' = [metrics EXCEPT !.hist = @ + 1, !.conc = @ + 1]
    PROVE  Books' /\ Frame(fd) /\ Connected' = Connected \cup {p}
<1> DEFINE item == [handler |-> "pop3", interest |-> OP_WRITE, data |-> p]
           k == NewClient(fd)
<1>1. fd \in Nat /\ fd \notin open /\ fd \in 0 .. OPEN_MAX - 1 /\ fd # NULL
  BY ServerAssumption DEF Free
<1>2. /\ Consistent(selector') /\ fd < FD_SETSIZE /\ fd \notin Used(selector)
      /\ Used(selector') = Used(selector) \cup {fd}
      /\ selector'.fds = [selector.fds EXCEPT ![fd] = item]
  <2>1. fd \in Nat
    BY <1>1
  <2> QED
    BY <2>1, RegisterPeer DEF item
<1>3. /\ \A f \in Used(selector) : selector'.fds[f] = selector.fds[f]
      /\ selector'.fds[fd] = item
  BY <1>2 DEF Used
<1>4. fd # server /\ fd # managerSocket /\ fd > 1 /\ fd \in 2 .. FD_SETSIZE - 1
  BY <1>1, <1>2, SelectorAssumption DEF Books, OpenIs, server, managerSocket
<1>5. k = [fd |-> fd, stm |-> "WRITE", out |-> TRUE, full |-> FALSE,
           file |-> NULL, fileDoneReading |-> FALSE]
  BY DEF NewClient
<1> HIDE DEF k
<1>6. /\ k \in Client /\ k.fd = fd /\ k.stm = "WRITE" /\ k.file = NULL /\ ~k.full /\ k.out
  BY <1>4, <1>5 DEF Client
<1>7. conn' \in [Peer -> Client] /\ conn'[p] = k /\ \A q \in Peer \ {p} : conn'[q] = conn[q]
  BY <1>6 DEF Books, Clients, k
<1>8. conn[p].fd = NULL /\ conn[p].file = NULL
  BY DEF Books, Clients, ClientOK, NoClient
<1>9. Connected' = Connected \cup {p} /\ Opened' = Opened /\ p \notin Connected
  BY <1>6, <1>7, <1>8 DEF Connected, Opened
<1>10. TableAgrees'
  <2>1. {conn'[q].fd : q \in Connected'} = {conn[q].fd : q \in Connected} \cup {fd}
    BY <1>6, <1>7, <1>9 DEF Connected
  <2>2. ASSUME NEW q \in Connected'
        PROVE  selector'.fds[conn'[q].fd] = [handler |-> "pop3", data |-> q,
                 interest |-> IF conn'[q].stm = "READ" THEN OP_READ ELSE OP_WRITE]
    <3>1. CASE q = p
      BY <1>3, <1>6, <1>7, <3>1
    <3>2. CASE q # p
      <4>1. q \in Connected /\ conn'[q] = conn[q] /\ conn[q].fd \in Used(selector)
        BY <1>7, <1>9, <3>2, ItemOf DEF Connected
      <4> QED
        BY <1>3, <4>1 DEF Books, TableAgrees
    <3> QED
      BY <3>1, <3>2
  <2>3. Used(selector') = {server, managerSocket} \cup {conn'[q].fd : q \in Connected'}
    BY <1>2, <2>1 DEF Books, TableAgrees
  <2> QED
    BY <1>2, <2>2, <2>3 DEF TableAgrees
<1>11. Sockets'
  <2>1. server \in Used(selector) /\ managerSocket \in Used(selector)
    BY DEF Books, TableAgrees
  <2> QED
    BY <1>3, <2>1 DEF Books, Sockets
<1>12. Clients'
  <2>1. ClientOK(k)
    BY <1>4, <1>6 DEF ClientOK
  <2> QED
    BY <1>7, <2>1 DEF Books, Clients
<1>13. Distinct'
  <2>1. \A q \in Peer : conn[q].fd # fd /\ conn[q].file # fd
    BY <1>1, AllOpen
  <2> QED
    BY <1>6, <1>7, <1>8, <2>1 DEF Books, Distinct
<1>14. OpenIs'
  <2>1. {conn'[q].fd : q \in Connected'} = {conn[q].fd : q \in Connected} \cup {fd}
    BY <1>6, <1>7, <1>9 DEF Connected
  <2>2. {conn'[q].file : q \in Opened'} = {conn[q].file : q \in Opened}
    BY <1>7, <1>8, <1>9 DEF Opened
  <2> QED
    BY <1>1, <2>1, <2>2 DEF Books, OpenIs
<1>15. Metered'
  <2>1. Cardinality(Connected') = Cardinality(Connected) + 1
    BY <1>9, ConnectedFinite, FS_AddElement
  <2> DEFINE a == [metrics EXCEPT !.hist = metrics.hist + 1]
  <2>2. metrics' = [a EXCEPT !.conc = metrics.conc + 1]
    BY Zenon
  <2>3. a \in Metrics /\ a.conc = metrics.conc
    BY DEF Books, Metered, Metrics
  <2> HIDE DEF a
  <2>4. metrics' \in Metrics /\ metrics'.conc = metrics.conc + 1
    BY <2>2, <2>3 DEF Metrics, Books, Metered
  <2> QED
    BY <2>1, <2>4 DEF Books, Metered
<1>16. Frame(fd)
  BY <1>2, <1>3, FrameFromItems DEF Books, TableAgrees
<1> QED
  BY <1>9, <1>10, <1>11, <1>12, <1>13, <1>14, <1>15, <1>16 DEF Books

-----------------------------------------------------------------------------
(* The handlers. *)

(* The tables, connections and descriptors stay as they are. *)
LEMMA SameBooks ==
    ASSUME Books, UNCHANGED <<selector, open, conn>>,
           metrics' \in Metrics, metrics'.conc = metrics.conc
    PROVE  Books' /\ Connected' = Connected /\ \A fd : Frame(fd)
<1>1. Connected' = Connected /\ Opened' = Opened
  BY DEF Connected, Opened
<1>2. TableAgrees' /\ Sockets' /\ Clients' /\ Distinct' /\ OpenIs'
  BY <1>1 DEF Books, TableAgrees, Sockets, Clients, Distinct, OpenIs
<1>3. Metered'
  BY <1>1 DEF Books, Metered
<1> QED
  BY <1>1, <1>2, <1>3 DEF Books, Frame

LEMMA SendCounted ==
    ASSUME Books, NEW ok \in BOOLEAN
    PROVE  metrics_send_bytes(ok) \in Metrics /\ metrics_send_bytes(ok).conc = metrics.conc
<1> DEFINE b == (metrics.bytes + (IF ok THEN 1 ELSE Width - 1)) % Width
<1>1. metrics \in Metrics
  BY DEF Books, Metered
<1>2. b \in 0 .. Width - 1
  BY <1>1, ServerAssumption DEF Metrics
<1>3. metrics_send_bytes(ok) = [metrics EXCEPT !.bytes = b]
  BY DEF metrics_send_bytes
<1> HIDE DEF b
<1> QED
  BY <1>1, <1>2, <1>3 DEF Metrics

Wires == [Peer -> [state : {"none", "up", "eof", "reset", "dead"}, input : BOOLEAN]]

(* What a handler of the connection of p leaves behind. *)
Kept(p) ==
    /\ Books' /\ Frame(conn[p].fd)
    /\ Connected' \subseteq Connected
    /\ running' \in {"up", "aborted"}
    /\ wire' \in Wires

LEMMA WireChanges ==
    ASSUME wire \in Wires, NEW p \in Peer
    PROVE  /\ [wire EXCEPT ![p] = NoWire] \in Wires
           /\ [wire EXCEPT ![p].input = FALSE] \in Wires
           /\ [wire EXCEPT ![p].input = TRUE] \in Wires
           /\ \A s \in {"eof", "dead"} : [wire EXCEPT ![p].state = s] \in Wires
           /\ \A s \in {"up", "reset"} :
                 [wire EXCEPT ![p] = [state |-> s, input |-> FALSE]] \in Wires
BY DEF Wires, NoWire

(* The descriptor that is visited is that of the connection it was         *)
(* registered for (selector.c:459-482).                                    *)
LEMMA Visited ==
    ASSUME Books, NEW fd \in selector.master_r \cup selector.master_w,
           selector.fds[fd].handler = "pop3",
           NEW p, p = selector.fds[fd].data
    PROVE  /\ p \in Connected /\ conn[p].fd = fd
           /\ "r" \in selector.fds[fd].interest => conn[p].stm = "READ"
           /\ "w" \in selector.fds[fd].interest => conn[p].stm # "READ"
<1>1. fd \in Used(selector)
  BY DEF Books, TableAgrees, Consistent, SetsAgree
<1>2. fd # server /\ fd # managerSocket
  BY DEF Books, Sockets
<1>3. PICK q \in Connected : conn[q].fd = fd
  BY <1>1, <1>2 DEF Books, TableAgrees
<1>4. selector.fds[fd] = [handler |-> "pop3", data |-> q,
          interest |-> IF conn[q].stm = "READ" THEN OP_READ ELSE OP_WRITE]
  BY <1>3 DEF Books, TableAgrees
<1> QED
  BY <1>3, <1>4 DEF OP_READ, OP_WRITE

(* Only the listening socket has the handlers of a passive one. *)
LEMMA Listening ==
    ASSUME Books, NEW fd \in selector.master_r \cup selector.master_w,
           selector.fds[fd].handler = "passive"
    PROVE  fd = server
<1>1. fd \in Used(selector)
  BY DEF Books, TableAgrees, Consistent, SetsAgree
<1>2. fd # managerSocket
  BY DEF Books, Sockets
<1>3. ASSUME NEW q \in Connected
      PROVE  conn[q].fd # fd
  <2>1. selector.fds[conn[q].fd] = [handler |-> "pop3", data |-> q,
           interest |-> IF conn[q].stm = "READ" THEN OP_READ ELSE OP_WRITE]
    BY DEF Books, TableAgrees
  <2> QED
    BY <2>1
<1> QED
  BY <1>1, <1>2, <1>3 DEF Books, TableAgrees

(* A read event (pop3.c:36-84). *)
LEMMA Reading ==
    ASSUME Books, NEW p \in Connected, conn[p].stm = "READ",
           running = "up", wire \in Wires, pop3Read(p)
    PROVE  Kept(p)
<1>1. p \in Peer /\ conn[p].file = NULL /\ ~conn[p].full
  BY ItemOf DEF ClientOK
<1>2. running' = "up" /\ metrics \in Metrics
  BY DEF pop3Read, Books, Metered
<1>3. CASE wire' = [wire EXCEPT ![p].state = "dead"] /\ UNCHANGED <<selector, open, conn, metrics>>
  BY <1>1, <1>2, <1>3, SameBooks, WireChanges DEF Kept
<1>4. CASE closeConnection(p, metrics)
  <2>1. Books' /\ Frame(conn[p].fd) /\ Connected' = Connected \ {p}
    BY <1>1, <1>2, <1>4, Closing
  <2>2. wire' \in Wires
    BY <1>1, <1>4, WireChanges DEF closeConnection
  <2> QED
    BY <1>2, <2>1, <2>2 DEF Kept
<1>5. CASE wire' = [wire EXCEPT ![p].input = FALSE] /\ UNCHANGED <<selector, conn, open, metrics>>
  BY <1>1, <1>2, <1>5, SameBooks, WireChanges DEF Kept
<1>6. ASSUME NEW stm \in {"WRITE", "WRITE_FILE"}, Turn(p, stm, OP_WRITE),
             wire' = [wire EXCEPT ![p].input = FALSE], UNCHANGED <<open, metrics>>
      PROVE  Kept(p)
  <2>1. Books' /\ Frame(conn[p].fd) /\ Connected' = Connected
    <3>1. stm \in {"READ", "WRITE", "WRITE_FILE"} /\ stm # "READ"
      OBVIOUS
    <3>2. OP_WRITE = IF stm = "READ" THEN OP_READ ELSE OP_WRITE
      BY <3>1
    <3> QED
      BY <1>1, <1>2, <1>6, <3>1, <3>2, Turning
  <2>2. wire' \in Wires
    BY <1>1, <1>6, WireChanges
  <2> QED
    BY <1>2, <2>1, <2>2 DEF Kept
<1> QED
  BY <1>3, <1>4, <1>5, <1>6 DEF pop3Read

(* A write event of a connection that is not sending a mail                *)
(* (pop3.c:86-128).                                                        *)
LEMMA Writing ==
    ASSUME Books, NEW p \in Connected, conn[p].stm = "WRITE",
           running = "up", wire \in Wires, WriteCommand(p)
    PROVE  Kept(p)
<1>1. p \in Peer /\ conn[p].file = NULL /\ ~conn[p].full
  BY ItemOf DEF ClientOK
<1> DEFINE m == metrics_send_bytes(TRUE)
<1>2. running' = "up" /\ m \in Metrics /\ m.conc = metrics.conc
  BY SendCounted DEF WriteCommand
<1> HIDE DEF m
<1>3. CASE metrics' = m /\ UNCHANGED <<selector, open, conn, wire>>
  BY <1>2, <1>3, SameBooks DEF Kept
<1>4. CASE metrics' = m /\ Turn(p, "READ", OP_READ) /\ UNCHANGED <<open, wire>>
  <2>1. Books' /\ Frame(conn[p].fd) /\ Connected' = Connected
    BY <1>1, <1>2, <1>4, Turning
  <2> QED
    BY <1>2, <1>4, <2>1 DEF Kept
<1>5. CASE closeConnection(p, m)
  <2>1. Books' /\ Frame(conn[p].fd) /\ Connected' = Connected \ {p}
    BY <1>1, <1>2, <1>5, Closing
  <2>2. wire' \in Wires
    BY <1>1, <1>5, WireChanges DEF closeConnection
  <2> QED
    BY <1>2, <2>1, <2>2 DEF Kept
<1> QED
  BY <1>3, <1>4, <1>5 DEF WriteCommand, Counted, m

(* The changes of a connection that is sending a mail: its end, the next   *)
(* block, and what was sent.                                               *)
Ended(c, file, read, out) == [c EXCEPT !.file = file, !.fileDoneReading = read, !.out = out]
Overrun(c, file)          == [c EXCEPT !.file = file]
Block(c, file, out, full) == [c EXCEPT !.file = file, !.out = out, !.full = full]
AllSent(c, out, full)     == [c EXCEPT !.out = out, !.full = full]

Fields(fd, stm, out, full, file, read) ==
    [fd |-> fd, stm |-> stm, out |-> out, full |-> full, file |-> file,
     fileDoneReading |-> read]

LEMMA FieldsChange ==
    ASSUME NEW fd, NEW stm, NEW out, NEW full, NEW file, NEW read,
           NEW o, NEW b, NEW f, NEW r,
           NEW c, c = Fields(fd, stm, out, full, file, read)
    PROVE  /\ Ended(c, f, r, o) = Fields(fd, stm, o, full, f, r)
           /\ Overrun(c, f) = Fields(fd, stm, out, full, f, read)
           /\ Block(c, f, o, b) = Fields(fd, stm, o, b, f, read)
           /\ AllSent(c, o, b) = Fields(fd, stm, o, b, file, read)
<1>1. Ended(c, f, r, o) = Fields(fd, stm, o, full, f, r)
  <2> DEFINE u == [c EXCEPT !.file = f]
             v == [u EXCEPT !.fileDoneReading = r]
  <2>1. Ended(c, f, r, o) = [v EXCEPT !.out = o]
    BY Zenon DEF Ended
  <2>2. u = Fields(fd, stm, out, full, f, read)
    BY DEF Fields
  <2> HIDE DEF u
  <2>3. v = Fields(fd, stm, out, full, f, r)
    BY <2>2 DEF Fields
  <2> HIDE DEF v
  <2> QED
    BY <2>1, <2>3 DEF Fields
<1>2. Overrun(c, f) = Fields(fd, stm, out, full, f, read)
  BY DEF Fields, Overrun
<1>3. Block(c, f, o, b) = Fields(fd, stm, o, b, f, read)
  <2> DEFINE u == [c EXCEPT !.file = f]
             v == [u EXCEPT !.out = o]
  <2>1. Block(c, f, o, b) = [v EXCEPT !.full = b]
    BY Zenon DEF Block
  <2>2. u = Fields(fd, stm, out, full, f, read)
    BY DEF Fields
  <2> HIDE DEF u
  <2>3. v = Fields(fd, stm, o, full, f, read)
    BY <2>2 DEF Fields
  <2> HIDE DEF v
  <2> QED
    BY <2>1, <2>3 DEF Fields
<1>4. AllSent(c, o, b) = Fields(fd, stm, o, b, file, read)
  <2> DEFINE u == [c EXCEPT !.out = o]
  <2>1. AllSent(c, o, b) = [u EXCEPT !.full = b]
    BY Zenon DEF AllSent
  <2>2. u = Fields(fd, stm, o, full, file, read)
    BY DEF Fields
  <2> HIDE DEF u
  <2> QED
    BY <2>1, <2>2 DEF Fields
<1> QED
  BY <1>1, <1>2, <1>3, <1>4

LEMMA Changes ==
    ASSUME NEW c \in Client, NEW o, NEW b, NEW f, NEW r
    PROVE  /\ Ended(c, f, r, o) = Fields(c.fd, c.stm, o, c.full, f, r)
           /\ Overrun(c, f) = Fields(c.fd, c.stm, c.out, c.full, f, c.fileDoneReading)
           /\ Block(c, f, o, b) = Fields(c.fd, c.stm, o, b, f, c.fileDoneReading)
           /\ AllSent(c, o, b) = Fields(c.fd, c.stm, o, b, c.file, c.fileDoneReading)
<1>1. c = Fields(c.fd, c.stm, c.out, c.full, c.file, c.fileDoneReading)
  BY DEF Client, Fields
<1> QED
  BY <1>1, FieldsChange

(* The next block of a mail file, or its end (pop3.c:130-190,              *)
(* pop3file.c:110-149).                                                    *)
LEMMA ReadingFile ==
    ASSUME Books, NEW p \in Connected, conn[p].stm = "WRITE_FILE",
           ~conn[p].fileDoneReading, running = "up", wire \in Wires,
           metrics' \in Metrics, metrics'.conc = metrics.conc, pop3ReadFile(p)
    PROVE  Kept(p)
<1>1. p \in Peer /\ conn[p] \in Client /\ ClientOK(conn[p])
  BY ItemOf
<1>2. selector' = selector /\ wire' \in Wires
  BY DEF pop3ReadFile
<1>3. ASSUME NEW k, ClientOK(k), k.fd = conn[p].fd, k.stm = conn[p].stm,
             conn' = [conn EXCEPT ![p] = k], running' \in {"up", "aborted"},
             \/ k.file = conn[p].file /\ open' = open
             \/ k.file = NULL /\ open' = open \ {conn[p].file}
             \/ conn[p].file = NULL /\ k.file \in Free /\ open' = open \cup {k.file}
      PROVE  Kept(p)
  <2>1. Books' /\ Frame(conn[p].fd) /\ Connected' = Connected
    BY <1>2, <1>3, SameConnection
  <2> QED
    BY <1>2, <1>3, <2>1 DEF Kept
<1>4. CASE EndOfFile(p) /\ ~conn[p].full
  <2> DEFINE k == Ended(conn[p], NULL, TRUE, TRUE)
  <2>1. conn' = [conn EXCEPT ![p] = k]
    BY <1>4 DEF EndOfFile, Ended
  <2>2. k = Fields(conn[p].fd, conn[p].stm, TRUE, conn[p].full, NULL, TRUE)
    <3>1. \A o, r : Ended(conn[p], NULL, r, o)
                       = Fields(conn[p].fd, conn[p].stm, o, conn[p].full, NULL, r)
      BY <1>1, Changes
    <3> QED
      BY <3>1
  <2> HIDE DEF k
  <2>3. k \in Client
    BY <1>1, <2>2 DEF Client, Fields
  <2>4. ClientOK(k)
    BY <1>1, <1>4, <2>2, <2>3 DEF ClientOK, Fields
  <2>5. running' \in {"up", "aborted"} /\ open' = open \ {conn[p].file}
    BY <1>4 DEF EndOfFile
  <2>6. k.fd = conn[p].fd /\ k.stm = conn[p].stm /\ k.file = NULL
    BY <2>2 DEF Fields
  <2> QED
    BY <1>3, <2>1, <2>4, <2>5, <2>6
<1>5. CASE EndOfFile(p) /\ conn[p].full
  <2> DEFINE k == Overrun(conn[p], NULL)
  <2>1. conn' = [conn EXCEPT ![p] = k]
    BY <1>5 DEF EndOfFile, Overrun
  <2>2. k = Fields(conn[p].fd, conn[p].stm, conn[p].out, conn[p].full, NULL,
                   conn[p].fileDoneReading)
    BY <1>1, Changes
  <2> HIDE DEF k
  <2>3. k \in Client
    BY <1>1, <2>2 DEF Client, Fields
  <2>4. ClientOK(k)
    <3>1. conn[p].out /\ ~conn[p].fileDoneReading
      BY <1>1, <1>5 DEF ClientOK
    <3>2. k.out = conn[p].out /\ k.fileDoneReading = conn[p].fileDoneReading
      BY <2>2, Zenon DEF Fields
    <3>3. k.fd = conn[p].fd /\ k.stm = conn[p].stm /\ k.file = NULL
      BY <2>2 DEF Fields
    <3>4. k.out /\ ~k.fileDoneReading
      BY <3>1, <3>2, Zenon
    <3> QED
      BY <1>1, <2>3, <3>3, <3>4 DEF ClientOK
  <2>5. running' \in {"up", "aborted"} /\ open' = open \ {conn[p].file}
    BY <1>5 DEF EndOfFile
  <2>6. k.fd = conn[p].fd /\ k.stm = conn[p].stm /\ k.file = NULL
    BY <2>2 DEF Fields
  <2> QED
    BY <1>3, <2>1, <2>4, <2>5, <2>6
<1>6. ASSUME NEW fd \in Free \cup {conn[p].file}, NEW full \in BOOLEAN,
             IF conn[p].file = NULL THEN Lowest(fd) ELSE fd = conn[p].file,
             conn[p].full => full, open' = open \cup {fd},
             conn' = [conn EXCEPT ![p].file = fd, ![p].out = TRUE, ![p].full = full],
             running' = running
      PROVE  Kept(p)
  <2> DEFINE k == Block(conn[p], fd, TRUE, full)
  <2>1. conn' = [conn EXCEPT ![p] = k]
    BY <1>6 DEF Block
  <2>2. k = Fields(conn[p].fd, conn[p].stm, TRUE, full, fd, conn[p].fileDoneReading)
    <3>1. \A o : Block(conn[p], fd, o, full)
                    = Fields(conn[p].fd, conn[p].stm, o, full, fd, conn[p].fileDoneReading)
      BY <1>1, Changes
    <3> QED
      BY <3>1
  <2>3. fd \in 0 .. OPEN_MAX - 1 /\ fd > 1
    <3>1. CASE conn[p].file = NULL
      <4>1. fd \in 0 .. OPEN_MAX - 1 /\ fd \notin open
        BY <1>6, <3>1 DEF Lowest, Free
      <4>2. 0 \in open /\ 1 \in open
        BY DEF Books, OpenIs, server, managerSocket
      <4> QED
        BY <4>1, <4>2, ServerAssumption
    <3>2. CASE conn[p].file # NULL
      BY <1>1, <1>6, <3>2 DEF ClientOK, Client
    <3> QED
      BY <3>1, <3>2
  <2> HIDE DEF k
  <2>4. k \in Client
    BY <1>1, <2>2, <2>3 DEF Client, Fields
  <2>5. ClientOK(k)
    BY <1>1, <1>6, <2>2, <2>3, <2>4 DEF ClientOK, Fields
  <2>6. \/ fd = conn[p].file /\ open' = open
        \/ conn[p].file = NULL /\ fd \in Free /\ open' = open \cup {fd}
    <3>1. CASE conn[p].file = NULL
      BY <1>6, <3>1 DEF Lowest
    <3>2. CASE conn[p].file # NULL
      BY <1>1, <1>6, <3>2, AllOpen
    <3> QED
      BY <3>1, <3>2
  <2>7. k.fd = conn[p].fd /\ k.stm = conn[p].stm /\ k.file = fd
    BY <2>2 DEF Fields
  <2> QED
    BY <1>3, <1>6, <2>1, <2>5, <2>6, <2>7
<1> QED
  BY <1>4, <1>5, <1>6 DEF pop3ReadFile

(* A write event of a connection that is sending a mail (pop3.c:192-230). *)
LEMMA WritingFile ==
    ASSUME Books, NEW p \in Connected, conn[p].stm = "WRITE_FILE",
           running = "up", wire \in Wires, pop3WriteFile(p)
    PROVE  Kept(p)
<1>1. p \in Peer /\ conn[p] \in Client /\ ClientOK(conn[p])
  BY ItemOf
<1>2. metrics \in Metrics
  BY DEF Books, Metered
<1>3. ASSUME conn[p].full, NEW ok \in BOOLEAN, Counted(ok), pop3ReadFile(p)
      PROVE  Kept(p)
  <2>1. metrics' \in Metrics /\ metrics'.conc = metrics.conc
    BY <1>3, SendCounted DEF Counted
  <2>2. ~conn[p].fileDoneReading
    BY <1>1, <1>3 DEF ClientOK
  <2> QED
    BY <1>3, <2>1, <2>2, ReadingFile
<1>4. CASE /\ Counted(TRUE)
           /\ conn' = [conn EXCEPT ![p].out = FALSE, ![p].full = FALSE]
           /\ UNCHANGED <<selector, running, open, wire>>
  <2> DEFINE k == AllSent(conn[p], FALSE, FALSE)
  <2>1. conn' = [conn EXCEPT ![p] = k]
    BY <1>4 DEF AllSent
  <2>2. k = Fields(conn[p].fd, conn[p].stm, FALSE, FALSE, conn[p].file,
                   conn[p].fileDoneReading)
    BY <1>1, Changes
  <2> HIDE DEF k
  <2>3. k \in Client
    BY <1>1, <2>2 DEF Client, Fields
  <2>4. ClientOK(k)
    BY <1>1, <2>2, <2>3 DEF ClientOK, Fields
  <2>5. k.fd = conn[p].fd /\ k.stm = conn[p].stm /\ k.file = conn[p].file
    BY <2>2 DEF Fields
  <2>6. metrics' \in Metrics /\ metrics'.conc = metrics.conc
    BY <1>4, SendCounted DEF Counted
  <2>7. Books' /\ Frame(conn[p].fd) /\ Connected' = Connected
    BY <1>4, <2>1, <2>4, <2>5, <2>6, SameConnection
  <2> QED
    BY <1>4, <2>7 DEF Kept
<1>5. CASE Counted(TRUE) /\ conn' = conn /\ UNCHANGED <<selector, running, open, wire>>
  <2>1. metrics' \in Metrics /\ metrics'.conc = metrics.conc
    BY <1>5, SendCounted DEF Counted
  <2> QED
    BY <1>5, <2>1, SameBooks DEF Kept
<1>6. CASE ~conn[p].fileDoneReading /\ pop3ReadFile(p) /\ UNCHANGED metrics
  BY <1>2, <1>6, ReadingFile
<1>7. CASE /\ ~conn[p].out /\ conn[p].fileDoneReading /\ Turn(p, "READ", OP_READ)
           /\ UNCHANGED <<running, open, metrics, wire>>
  <2>1. conn[p].file = NULL /\ ~conn[p].full
    BY <1>1, <1>7 DEF ClientOK
  <2>2. Books' /\ Frame(conn[p].fd) /\ Connected' = Connected
    BY <1>2, <1>7, <2>1, Turning
  <2> QED
    BY <1>7, <2>2 DEF Kept
<1> QED
  BY <1>3, <1>4, <1>5, <1>6, <1>7 DEF pop3WriteFile

LEMMA WriteEvent ==
    ASSUME Books, NEW p \in Connected, conn[p].stm # "READ",
           running = "up", wire \in Wires, pop3Write(p)
    PROVE  Kept(p)
<1>1. CASE SendFails(p)
  <2>1. metrics' \in Metrics /\ metrics'.conc = metrics.conc
    BY <1>1, SendCounted DEF SendFails, Counted
  <2> QED
    BY <1>1, <2>1, SameBooks DEF Kept, SendFails
<1> QED
  BY <1>1, Writing, WritingFile DEF pop3Write

(* The listening socket is ready (main.c:67-138). *)
LEMMA AcceptEvent ==
    ASSUME Books, Queued, backlog \in Seq(Peer), backlog # <<>>,
           running = "up", wire \in Wires, pop3_handle_connection
    PROVE  /\ Books' /\ running' = "up" /\ wire' \in Wires
           /\ \A fd \in selector.master_r : fd \in selector'.master_r
           /\ \A fd \in selector.master_w : fd \in selector'.master_w
           /\ \/ backlog' = backlog /\ Connected' = Connected
              \/ /\ backlog' = Tail(backlog)
                 /\ Connected' \subseteq Connected \cup {Head(backlog)}
<1> DEFINE p == Head(backlog)
<1>1. p \in Peer /\ conn[p].stm = "NONE"
  <2>1. 1 \in DOMAIN backlog /\ p = backlog[1] /\ p \in Peer
    OBVIOUS
  <2> QED
    BY <2>1 DEF Queued
<1>2. metrics \in Metrics
  BY DEF Books, Metered
<1>3. CASE UNCHANGED <<selector, running, open, conn, metrics, wire, backlog>>
  BY <1>2, <1>3, SameBooks
<1>4. CASE /\ backlog' = Tail(backlog) /\ wire' = [wire EXCEPT ![p] = NoWire]
           /\ UNCHANGED <<selector, running, open, conn, metrics>>
  <2>1. Books' /\ Connected' = Connected
    BY <1>2, <1>4, SameBooks
  <2>2. wire' \in Wires
    BY <1>1, <1>4, WireChanges
  <2> QED
    BY <1>4, <2>1, <2>2
<1>5. ASSUME NEW fd \in Free, backlog' = Tail(backlog),
             NEW r, r = selector_register(selector, fd, "pop3", OP_WRITE, p),
             selector' = r.s, r.status = "SUCCESS",
             open' = open \cup {fd}, conn' = [conn EXCEPT ![p] = NewClient(fd)],
             metrics' = [metrics EXCEPT !.hist = @ + 1, !.conc = @ + 1],
             UNCHANGED <<running, wire>>
      PROVE  /\ Books' /\ running' = "up" /\ wire' \in Wires
             /\ \A f \in selector.master_r : f \in selector'.master_r
             /\ \A f \in selector.master_w : f \in selector'.master_w
             /\ Connected' \subseteq Connected \cup {p}
  <2> HIDE DEF p
  <2>1. Books' /\ Frame(fd) /\ Connected' = Connected \cup {p}
    BY <1>1, <1>5, Accepting
  <2>2. fd \in Nat
    BY ServerAssumption DEF Free
  <2>3. fd \notin Used(selector)
    BY <1>1, <1>5, <2>2, RegisterPeer
  <2>4. fd \notin selector.master_r /\ fd \notin selector.master_w
    BY <2>3 DEF Books, TableAgrees, Consistent, SetsAgree
  <2> QED
    BY <1>5, <2>1, <2>4 DEF Frame
<1>6. ASSUME NEW fd \in Free,
             NEW r, r = selector_register(selector, fd, "pop3", OP_WRITE, p)
      PROVE  /\ r.status \in {"SUCCESS", "IARGS", "FDINUSE"}
             /\ r.status # "SUCCESS" => r.s = selector
  <2>1. fd \in Nat
    BY ServerAssumption DEF Free
  <2> HIDE DEF p
  <2> QED
    BY <1>1, <1>6, <2>1, RegisterPeer
<1> HIDE DEF p
<1>7. CASE /\ backlog' = Tail(backlog)
           /\ \E fd \in Free :
                 LET r == selector_register(selector, fd, "pop3", OP_WRITE, p)
                 IN  /\ selector' = r.s
                     /\ \/ /\ r.status = "SUCCESS"
                           /\ open' = open \cup {fd}
                           /\ conn' = [conn EXCEPT ![p] = NewClient(fd)]
                           /\ metrics' = [metrics EXCEPT !.hist = @ + 1, !.conc = @ + 1]
                           /\ UNCHANGED <<running, wire>>
                        \/ r.status = "PAST_THE_TABLE"
                        \/ /\ r.status \in {"IARGS", "FDINUSE"}
                           /\ wire' = [wire EXCEPT ![p] = NoWire]
                           /\ UNCHANGED <<running, open, conn, metrics>>
  <2>1. PICK fd \in Free :
           LET r == selector_register(selector, fd, "pop3", OP_WRITE, p)
           IN  /\ selector' = r.s
               /\ \/ /\ r.status = "SUCCESS"
                     /\ open' = open \cup {fd}
                     /\ conn' = [conn EXCEPT ![p] = NewClient(fd)]
                     /\ metrics' = [metrics EXCEPT !.hist = @ + 1, !.conc = @ + 1]
                     /\ UNCHANGED <<running, wire>>
                  \/ r.status = "PAST_THE_TABLE"
                  \/ /\ r.status \in {"IARGS", "FDINUSE"}
                     /\ wire' = [wire EXCEPT ![p] = NoWire]
                     /\ UNCHANGED <<running, open, conn, metrics>>
    BY <1>7
  <2> DEFINE r == selector_register(selector, fd, "pop3", OP_WRITE, p)
  <2>2. r.status # "PAST_THE_TABLE" /\ (r.status # "SUCCESS" => r.s = selector)
    BY <1>6
  <2>3. CASE r.status = "SUCCESS"
    <3>1. /\ selector' = r.s /\ open' = open \cup {fd}
          /\ conn' = [conn EXCEPT ![p] = NewClient(fd)]
          /\ metrics' = [metrics EXCEPT !.hist = @ + 1, !.conc = @ + 1]
          /\ UNCHANGED <<running, wire>>
      BY <2>1, <2>3
    <3> QED
      BY <1>5, <1>7, <2>3, <3>1 DEF p
  <2>4. CASE r.status # "SUCCESS"
    <3>1. UNCHANGED <<selector, running, open, conn, metrics>>
          /\ wire' = [wire EXCEPT ![p] = NoWire]
      BY <2>1, <2>2, <2>4
    <3> QED
      BY <1>4, <1>7, <3>1
  <2> QED
    BY <2>3, <2>4
<1> QED
  BY <1>3, <1>4, <1>7 DEF pop3_handle_connection, p

-----------------------------------------------------------------------------
(* The invariant. *)

(* The server starts with its two sockets registered (main.c:176-239). *)
LEMMA Start == Init => ServerInv
<1> SUFFICES ASSUME Init
             PROVE  ServerInv
  OBVIOUS
<1> DEFINE s0 == selector_new(SELECTOR_SIZE)
           r1 == selector_register(s0, server, "passive", OP_READ, NULL)
           r2 == selector_register(r1.s, managerSocket, "manager", OP_READ, NULL)
           item1 == [handler |-> "passive", interest |-> OP_READ, data |-> NULL]
           item2 == [handler |-> "manager", interest |-> OP_READ, data |-> NULL]
<1>1. selector = r2.s
  BY DEF Init, Passive
<1>2. Consistent(s0) /\ Used(s0) = {}
  BY NewConsistent DEF SELECTOR_SIZE
<1>3. /\ server \in Nat /\ managerSocket \in Nat /\ server # managerSocket
      /\ OP_READ \in SUBSET {"r", "w"} /\ NULL \in Data \cup {NULL}
      /\ "passive" \in Handler /\ "manager" \in Handler
      /\ server < FD_SETSIZE /\ managerSocket < FD_SETSIZE
  BY ServerAssumption, SelectorAssumption DEF server, managerSocket, OP_READ
<1>4. Registered(s0, server, item1, r1)
  <2> HIDE DEF s0
  <2> QED
    BY <1>2, <1>3, RegisterConsistent
<1> HIDE DEF s0, item1
<1>5. /\ Consistent(r1.s) /\ Used(r1.s) = {server}
      /\ r1.s.fds = [s0.fds EXCEPT ![server] = item1]
  BY <1>2, <1>3, <1>4, SelectorAssumption DEF Registered
<1> HIDE DEF r1
<1>6. Registered(r1.s, managerSocket, item2, r2)
  BY <1>3, <1>5, RegisterConsistent
<1> HIDE DEF item2
<1>7. /\ Consistent(r2.s) /\ Used(r2.s) = {server, managerSocket}
      /\ r2.s.fds = [r1.s.fds EXCEPT ![managerSocket] = item2]
  BY <1>3, <1>5, <1>6, SelectorAssumption DEF Registered
<1> HIDE DEF r2
<1>8. selector.fds[server] = item1 /\ selector.fds[managerSocket] = item2
  <2>1. server \in DOMAIN r1.s.fds /\ managerSocket \in DOMAIN r2.s.fds
    BY <1>5, <1>7 DEF Used
  <2>2. DOMAIN r1.s.fds = DOMAIN s0.fds /\ DOMAIN r2.s.fds = DOMAIN r1.s.fds
    BY <1>5, <1>7
  <2> QED
    BY <1>1, <1>3, <1>5, <1>7, <2>1, <2>2
<1>9. /\ NoClient \in Client /\ NoClient.stm = "NONE" /\ NoClient.fd = NULL
      /\ NoClient.file = NULL /\ ~NoClient.full
  BY DEF NoClient, Client
<1>10. \A p \in Peer : conn[p] = NoClient
  BY DEF Init
<1>11. Connected = {} /\ Opened = {}
  BY <1>9, <1>10 DEF Connected, Opened
<1>12. TableAgrees
  BY <1>1, <1>7, <1>11 DEF TableAgrees
<1>13. Sockets
  BY <1>8 DEF Sockets, item1, item2
<1>14. Clients
  <2>1. conn \in [Peer -> Client]
    BY <1>9 DEF Init
  <2> QED
    BY <1>9, <1>10, <2>1 DEF Clients, ClientOK
<1>15. Distinct
  BY <1>9, <1>10 DEF Distinct
<1>16. OpenIs
  BY <1>11, ServerAssumption DEF OpenIs, Init, server, managerSocket
<1>17. Metered
  BY <1>11, FS_EmptySet, ServerAssumption DEF Metered, Metrics, Init
<1>18. Books
  BY <1>12, <1>13, <1>14, <1>15, <1>16, <1>17 DEF Books
<1>19. wire \in Wires
  BY DEF Init, Wires, NoWire
<1>20. TypeOK
  <2>1. /\ slave_r = {} /\ slave_w = {} /\ running = "up" /\ done = FALSE
        /\ backlog = <<>> /\ datagram = "none"
    BY DEF Init
  <2>2. <<>> \in Seq(Peer)
    OBVIOUS
  <2> QED
    BY <1>14, <1>16, <1>17, <1>19, <2>1, <2>2
    DEF TypeOK, Clients, OpenIs, Metered, Metrics, Wires
<1>21. Queued
  BY DEF Queued, Init
<1> QED
  BY <1>18, <1>20, <1>21 DEF ServerInv

(* A descriptor has been visited, and whoever waits still does. *)
LEMMA AfterVisit ==
    ASSUME ServerInv, NEW fd, slave_r' = slave_r \ {fd}, slave_w' = slave_w \ {fd},
           Books', Frame(fd), Connected' \subseteq Connected,
           running' \in {"up", "ended", "aborted"}, wire' \in Wires, done' \in BOOLEAN,
           backlog' = backlog, datagram' \in {"none", "STOP", "other"}
    PROVE  ServerInv'
<1>1. slave_r' \subseteq selector'.master_r /\ slave_w' \subseteq selector'.master_w
  BY DEF ServerInv, TypeOK, Frame
<1>2. TypeOK'
  BY <1>1 DEF ServerInv, TypeOK, Books, Clients, OpenIs, Metered, Metrics, Wires
<1>3. Queued'
  <2>1. ASSUME NEW i \in DOMAIN backlog
        PROVE  conn'[backlog[i]].stm = "NONE"
    <3>1. backlog[i] \in Peer /\ backlog[i] \notin Connected
      BY DEF ServerInv, TypeOK, Queued, Connected
    <3> QED
      BY <3>1 DEF Connected
  <2> QED
    BY <2>1 DEF ServerInv, Queued
<1> QED
  BY <1>2, <1>3 DEF ServerInv

(* The head of the queue has been accepted or refused, or all wait on. *)
LEMMA AfterAccept ==
    ASSUME ServerInv, slave_r' = slave_r \ {server}, slave_w' = slave_w \ {server},
           Books', running' = "up", wire' \in Wires, done' = done, datagram' = datagram,
           \A fd \in selector.master_r : fd \in selector'.master_r,
           \A fd \in selector.master_w : fd \in selector'.master_w,
           backlog # <<>>,
           \/ backlog' = backlog /\ Connected' = Connected
           \/ /\ backlog' = Tail(backlog)
              /\ Connected' \subseteq Connected \cup {Head(backlog)}
    PROVE  ServerInv'
<1>1. slave_r' \subseteq selector'.master_r /\ slave_w' \subseteq selector'.master_w
  BY DEF ServerInv, TypeOK
<1>2. backlog \in Seq(Peer) /\ backlog' \in Seq(Peer)
  BY DEF ServerInv, TypeOK
<1>3. TypeOK'
  BY <1>1, <1>2 DEF ServerInv, TypeOK, Books, Clients, OpenIs, Metered, Metrics, Wires
<1>4. \A i \in DOMAIN backlog : backlog[i] \in Peer /\ backlog[i] \notin Connected
  BY <1>2 DEF ServerInv, Queued, Connected
<1>5. \A i, j \in DOMAIN backlog : backlog[i] = backlog[j] => i = j
  BY DEF ServerInv, Queued
<1>6. CASE backlog' = backlog /\ Connected' = Connected
  <2>1. \A i \in DOMAIN backlog' : conn'[backlog'[i]].stm = "NONE"
    BY <1>4, <1>6 DEF Connected
  <2> QED
    BY <1>3, <1>5, <1>6, <2>1 DEF ServerInv, Queued
<1>7. CASE /\ backlog' = Tail(backlog)
           /\ Connected' \subseteq Connected \cup {Head(backlog)}
  <2>1. \A i \in DOMAIN backlog' : i + 1 \in DOMAIN backlog /\ backlog'[i] = backlog[i + 1]
    BY <1>2, <1>7
  <2>2. 1 \in DOMAIN backlog /\ Head(backlog) = backlog[1]
    BY <1>2
  <2>3. DOMAIN backlog' \subseteq Nat \ {0}
    BY <1>2
  <2>4. \A i \in DOMAIN backlog' : conn'[backlog'[i]].stm = "NONE"
    BY <1>4, <1>5, <1>7, <2>1, <2>2, <2>3 DEF Connected
  <2>5. \A i, j \in DOMAIN backlog' : backlog'[i] = backlog'[j] => i = j
    BY <1>5, <2>1, <2>3
  <2> QED
    BY <1>3, <2>4, <2>5 DEF ServerInv, Queued
<1> QED
  BY <1>6, <1>7

(* A descriptor of the round, and what its handler does (selector.c:440-486). *)
LEMMA Visiting ==
    ASSUME ServerInv, handle_iteration
    PROVE  ServerInv'
<1>1. PICK fd \in Round :
         /\ slave_r' = slave_r \ {fd} /\ slave_w' = slave_w \ {fd}
         /\ \/ fd \in slave_r /\ "r" \in selector.fds[fd].interest /\ handle_read(fd)
            \/ fd \in slave_w /\ "w" \in selector.fds[fd].interest /\ handle_write(fd)
            \/ UNCHANGED <<selector, running, done, open, conn, metrics, wire, backlog, datagram>>
  BY DEF handle_iteration
<1>2. running = "up" /\ Books /\ Queued /\ TypeOK
  BY DEF handle_iteration, ServerInv
<1>3. /\ wire \in Wires /\ backlog \in Seq(Peer) /\ done \in BOOLEAN
      /\ datagram \in {"none", "STOP", "other"} /\ metrics \in Metrics
  BY <1>2 DEF TypeOK, Wires, Metrics
<1>4. fd \in selector.master_r \cup selector.master_w
  BY <1>2 DEF TypeOK, Round
<1>5. CASE UNCHANGED <<selector, running, done, open, conn, metrics, wire, backlog, datagram>>
  <2>1. Books' /\ Frame(fd) /\ Connected' = Connected
    BY <1>2, <1>3, <1>5, SameBooks
  <2> QED
    BY <1>1, <1>2, <1>3, <1>5, <2>1, AfterVisit
<1>6. CASE selector.fds[fd].handler = "passive" /\ fd \in slave_r /\ pop3_handle_connection
  <2>1. fd = server
    BY <1>2, <1>4, <1>6, Listening
  <2>2. backlog # <<>>
    BY <1>2, <1>6, <2>1 DEF Queued
  <2>3. done' = done /\ datagram' = datagram
    BY <1>6 DEF pop3_handle_connection
  <2> QED
    BY <1>1, <1>2, <1>3, <1>6, <2>1, <2>2, <2>3, AcceptEvent, AfterAccept
<1>7. CASE manager_handle_connection
  <2>1. /\ UNCHANGED <<selector, running, open, conn, metrics, wire, backlog>>
        /\ datagram' = "none" /\ done' \in BOOLEAN
    BY <1>3, <1>7 DEF manager_handle_connection
  <2>2. Books' /\ Frame(fd) /\ Connected' = Connected
    BY <1>2, <1>3, <2>1, SameBooks
  <2> QED
    BY <1>1, <1>2, <1>3, <2>1, <2>2, AfterVisit
<1> DEFINE p == selector.fds[fd].data
<1>8. ASSUME p \in Connected, conn[p].fd = fd, Kept(p), UNCHANGED <<done, backlog, datagram>>
      PROVE  ServerInv'
  BY <1>1, <1>3, <1>8, AfterVisit DEF Kept
<1>9. CASE /\ selector.fds[fd].handler = "pop3" /\ "r" \in selector.fds[fd].interest
           /\ pop3Read(p)
  <2>1. p \in Connected /\ conn[p].fd = fd /\ conn[p].stm = "READ"
    BY <1>2, <1>4, <1>9, Visited
  <2>2. UNCHANGED <<done, backlog, datagram>>
    BY <1>9 DEF pop3Read
  <2> HIDE DEF p
  <2>3. Kept(p)
    BY <1>2, <1>3, <1>9, <2>1, Reading
  <2> QED
    BY <1>8, <2>1, <2>2, <2>3
<1>10. CASE /\ selector.fds[fd].handler = "pop3" /\ "w" \in selector.fds[fd].interest
            /\ pop3Write(p)
  <2>1. p \in Connected /\ conn[p].fd = fd /\ conn[p].stm # "READ"
    BY <1>2, <1>4, <1>10, Visited
  <2>2. UNCHANGED <<done, backlog, datagram>>
    BY <1>10 DEF pop3Write
  <2> HIDE DEF p
  <2>3. Kept(p)
    BY <1>2, <1>3, <1>10, <2>1, WriteEvent
  <2> QED
    BY <1>8, <2>1, <2>2, <2>3
<1> QED
  BY <1>1, <1>5, <1>6, <1>7, <1>9, <1>10 DEF handle_read, handle_write

(* What the peers and the manager do touches no table of the server. *)
LEMMA WorldSteps ==
    ASSUME ServerInv, World
    PROVE  ServerInv'
<1>1. Books /\ Queued /\ TypeOK /\ wire \in Wires /\ backlog \in Seq(Peer)
  BY DEF ServerInv, TypeOK, Wires
<1>2. UNCHANGED loopVars
  BY DEF World, Connect, PeerSends, PeerShutdown, PeerReset, ManagerSends
<1>3. Books' /\ Connected' = Connected
  BY <1>1, <1>2, SameBooks DEF loopVars, Books, Metered
<1>4. ASSUME wire' \in Wires, backlog' = backlog, datagram' \in {"none", "STOP", "other"}
      PROVE  ServerInv'
  <2>1. TypeOK'
    BY <1>1, <1>2, <1>4 DEF TypeOK, loopVars, Wires
  <2>2. Queued'
    BY <1>1, <1>2, <1>4 DEF Queued, loopVars
  <2> QED
    BY <1>3, <2>1, <2>2 DEF ServerInv
<1>5. CASE ManagerSends
  BY <1>1, <1>4, <1>5 DEF ManagerSends
<1>6. ASSUME NEW p \in Peer, PeerSends(p) \/ PeerShutdown(p) \/ PeerReset(p)
      PROVE  ServerInv'
  <2>1. wire' \in Wires
    BY <1>1, <1>6, WireChanges DEF PeerSends, PeerShutdown, PeerReset
  <2>2. backlog' = backlog /\ datagram' \in {"none", "STOP", "other"}
    BY <1>1, <1>6 DEF PeerSends, PeerShutdown, PeerReset, TypeOK
  <2> QED
    BY <1>4, <2>1, <2>2
<1>7. ASSUME NEW p \in Peer, Connect(p)
      PROVE  ServerInv'
  <2>1. wire' \in Wires
    BY <1>1, <1>7, WireChanges DEF Connect
  <2>2. /\ backlog' = Append(backlog, p) /\ datagram' = datagram /\ conn[p].stm = "NONE"
        /\ \A i \in DOMAIN backlog : backlog[i] # p
    BY <1>7 DEF Connect, Waiting
  <2>3. backlog' \in Seq(Peer) /\ backlog' # <<>>
    BY <1>1, <2>2
  <2>4. TypeOK'
    BY <1>1, <1>2, <2>1, <2>2, <2>3 DEF TypeOK, loopVars, Wires
  <2>5. Queued'
    <3>1. \A i \in DOMAIN backlog' : \/ i \in DOMAIN backlog /\ backlog'[i] = backlog[i]
                                     \/ i = Len(backlog) + 1 /\ backlog'[i] = p
      BY <1>1, <2>2
    <3>2. conn' = conn
      BY <1>2 DEF loopVars
    <3>3. \A i \in DOMAIN backlog' : conn'[backlog'[i]].stm = "NONE"
      BY <1>1, <2>2, <3>1, <3>2 DEF Queued
    <3>4. \A i, j \in DOMAIN backlog' : backlog'[i] = backlog'[j] => i = j
      BY <1>1, <2>2, <3>1 DEF Queued
    <3> QED
      BY <2>3, <3>3, <3>4 DEF Queued
  <2> QED
    BY <1>3, <2>4, <2>5 DEF ServerInv
<1> QED
  BY <1>5, <1>6, <1>7 DEF World

(* Every step keeps the invariant. *)
LEMMA ServerStep == ServerInv /\ [Next]_vars => ServerInv'
<1> SUFFICES ASSUME ServerInv, [Next]_vars
             PROVE  ServerInv'
  OBVIOUS
<1>1. Books /\ Queued /\ TypeOK /\ metrics \in Metrics
  BY DEF ServerInv, Books, Metered
<1>2. CASE selector_select
  <2>1. UNCHANGED <<selector, running, done, open, conn, metrics, wire, backlog, datagram>>
    BY <1>2 DEF selector_select
  <2>2. Books'
    BY <1>1, <2>1, SameBooks
  <2>3. slave_r' \subseteq selector.master_r /\ slave_w' \subseteq selector.master_w
    BY <1>2 DEF selector_select
  <2>4. TypeOK'
    BY <1>1, <2>1, <2>3 DEF TypeOK
  <2>5. server \in slave_r' => backlog # <<>>
    <3>1. ASSUME NEW p \in Connected
          PROVE  conn[p].fd # server
      <4>1. conn[p].fd \in 2 .. FD_SETSIZE - 1
        BY <1>1, ItemOf
      <4> QED
        BY <4>1, SelectorAssumption DEF server
    <3> QED
      BY <1>2, <3>1 DEF selector_select, Readable, server, managerSocket
  <2>6. Queued'
    BY <1>1, <2>1, <2>5 DEF Queued
  <2> QED
    BY <2>2, <2>4, <2>6 DEF ServerInv
<1>3. CASE handle_iteration
  BY <1>3, Visiting
<1>4. CASE main_finally
  <2>1. /\ UNCHANGED <<selector, slave_r, slave_w, done, open, conn, metrics, wire, backlog,
                       datagram>>
        /\ running' = "ended"
    BY <1>4 DEF main_finally
  <2>2. Books'
    BY <1>1, <2>1, SameBooks
  <2>3. TypeOK' /\ Queued'
    BY <1>1, <2>1 DEF TypeOK, Queued
  <2> QED
    BY <2>2, <2>3 DEF ServerInv
<1>5. CASE World
  BY <1>5, WorldSteps
<1>6. CASE UNCHANGED vars
  <2>1. Books'
    BY <1>1, <1>6, SameBooks DEF vars, loopVars
  <2>2. TypeOK' /\ Queued'
    BY <1>1, <1>6 DEF TypeOK, Queued, vars, loopVars
  <2> QED
    BY <2>1, <2>2 DEF ServerInv
<1> QED
  BY <1>2, <1>3, <1>4, <1>5, <1>6 DEF Next, Loop

THEOREM ServerInvariant == Spec => []ServerInv
BY Start, ServerStep, PTL DEF Spec

(* No registration ever writes past the table, and every variable keeps    *)
(* its type.                                                               *)
THEOREM ServerTypes == Spec => []TypeOK
<1>1. ServerInv => TypeOK
  BY DEF ServerInv
<1> QED
  BY <1>1, ServerInvariant, PTL

(* The table of the selector agrees with the connections, whatever the     *)
(* order of events.                                                        *)
THEOREM TableCorrect == Spec => []TableAgrees
<1>1. ServerInv => TableAgrees
  BY DEF ServerInv, Books
<1> QED
  BY <1>1, ServerInvariant, PTL

(* What the invariant says of the descriptors, counted. *)
LEMMA Counting == Books => DescriptorsAccounted
<1> SUFFICES ASSUME Books
             PROVE  DescriptorsAccounted
  OBVIOUS
<1> DEFINE A == {conn[p].fd : p \in Connected}
           B == {conn[p].file : p \in Opened}
           f == [p \in Connected |-> conn[p].fd]
           g == [p \in Opened |-> conn[p].file]
<1>1. IsFiniteSet(Connected) /\ IsFiniteSet(Opened)
  <2>1. Connected \in SUBSET Peer /\ Opened \in SUBSET Peer
    BY DEF Connected, Opened
  <2> QED
    BY <2>1, ServerAssumption, FS_Subset
<1>2. \A p \in Connected : conn[p].fd \in 2 .. FD_SETSIZE - 1
  BY ItemOf
<1>3. f \in Bijection(Connected, A)
  <2>1. \A p, q \in Connected : conn[p].fd = conn[q].fd => p = q
    BY ItemOf DEF Connected
  <2>2. f \in [Connected -> A] /\ \A y \in A : \E p \in Connected : f[p] = y
    OBVIOUS
  <2> QED
    BY <2>1, <2>2, Fun_IsBij
<1>4. g \in Bijection(Opened, B)
  <2>1. \A p, q \in Opened : conn[p].file = conn[q].file => p = q
    BY DEF Books, Distinct, Opened
  <2>2. g \in [Opened -> B] /\ \A y \in B : \E p \in Opened : g[p] = y
    OBVIOUS
  <2> QED
    BY <2>1, <2>2, Fun_IsBij
<1>5. /\ IsFiniteSet(A) /\ Cardinality(A) = Cardinality(Connected)
      /\ IsFiniteSet(B) /\ Cardinality(B) = Cardinality(Opened)
  <2> HIDE DEF A, B, f, g
  <2> QED
    BY <1>1, <1>3, <1>4, FS_Bijection DEF ExistsBijection
<1>6. A \cap B = {}
  BY DEF Books, Distinct, Connected, Opened
<1>7. server \notin A \cup B /\ managerSocket \notin A \cup B /\ server # managerSocket
  <2>1. \A p \in Opened : conn[p].file > 1
    BY DEF Books, Clients, ClientOK, Opened
  <2> QED
    BY <1>2, <2>1, SelectorAssumption DEF server, managerSocket
<1>8. open = (A \cup B) \cup {server, managerSocket}
  BY DEF Books, OpenIs
<1> HIDE DEF A, B
<1>9. /\ IsFiniteSet(A \cup B)
      /\ Cardinality(A \cup B) = Cardinality(Connected) + Cardinality(Opened)
      /\ Cardinality(A \cup B) \in Nat
  <2>1. Cardinality(A \cap B) = 0
    BY <1>6, FS_EmptySet
  <2>2. IsFiniteSet(A \cup B) /\ Cardinality(A \cup B) = Cardinality(A) + Cardinality(B) - 0
    BY <1>5, <2>1, FS_Union
  <2>3. Cardinality(A) \in Nat /\ Cardinality(B) \in Nat
    BY <1>5, FS_CardinalityType
  <2> QED
    BY <1>5, <2>2, <2>3
<1>10. Cardinality(open) = 2 + Cardinality(Connected) + Cardinality(Opened)
  <2> DEFINE C == (A \cup B) \cup {server}
  <2>1. IsFiniteSet(C) /\ Cardinality(C) = Cardinality(A \cup B) + 1
    BY <1>7, <1>9, FS_AddElement
  <2>2. managerSocket \notin C /\ open = C \cup {managerSocket}
    BY <1>7, <1>8
  <2> HIDE DEF C
  <2>3. Cardinality(open) = Cardinality(C) + 1
    BY <2>1, <2>2, FS_AddElement
  <2>4. Cardinality(Connected) \in Nat /\ Cardinality(Opened) \in Nat
    BY <1>1, FS_CardinalityType
  <2> QED
    BY <1>9, <2>1, <2>3, <2>4
<1>11. Opened \subseteq {p \in Connected : conn[p].stm = "WRITE_FILE"}
  BY DEF Books, Clients, ClientOK, Opened, Connected
<1>12. metrics.conc = Cardinality(Connected)
  BY DEF Books, Metered
<1> QED
  BY <1>10, <1>11, <1>12 DEF DescriptorsAccounted, Books, OpenIs

(* No descriptor is lost or shared, whatever fails: those of the process   *)
(* are the two sockets, one for each connection, and one for each mail     *)
(* being sent; and the counter of connections is right.                    *)
THEOREM DescriptorsCorrect == Spec => []DescriptorsAccounted
<1>1. ServerInv => DescriptorsAccounted
  BY Counting DEF ServerInv
<1> QED
  BY <1>1, ServerInvariant, PTL

-----------------------------------------------------------------------------
(* What a step may do to a connection. *)

(* The handler of p leaves the other connections alone, and its own if the *)
(* peer is gone while there is something to send that does not fill the    *)
(* buffer.                                                                 *)
Serves(p) ==
    /\ \A q \in Peer \ {p} : conn'[q] = conn[q]
    /\ conn[p].out /\ ~conn[p].full /\ Gone(p) => conn'[p] = conn[p]

LEMMA ReadServes ==
    ASSUME Books, NEW p \in Connected, conn[p].stm = "READ", pop3Read(p)
    PROVE  Serves(p)
<1>1. p \in Peer /\ ~conn[p].out /\ conn \in [Peer -> Client]
  BY ItemOf DEF ClientOK, Books, Clients
<1>2. \A q \in Peer \ {p} : conn'[q] = conn[q]
  BY <1>1 DEF pop3Read, closeConnection, Turn
<1> QED
  BY <1>1, <1>2 DEF Serves

LEMMA FileServes ==
    ASSUME Books, NEW p \in Connected, pop3ReadFile(p)
    PROVE  \A q \in Peer \ {p} : conn'[q] = conn[q]
<1>1. p \in Peer /\ conn \in [Peer -> Client]
  BY ItemOf DEF Books, Clients
<1> QED
  BY <1>1 DEF pop3ReadFile, EndOfFile

LEMMA WriteServes ==
    ASSUME Books, NEW p \in Connected, conn[p].stm # "READ", pop3Write(p)
    PROVE  Serves(p)
<1>1. p \in Peer /\ conn \in [Peer -> Client] /\ ClientOK(conn[p])
  BY ItemOf DEF Books, Clients
<1>2. CASE conn[p].out /\ SendFails(p)
  BY <1>2 DEF SendFails, Serves
<1>3. CASE conn[p].stm = "WRITE" /\ WriteCommand(p)
  <2>1. conn[p].out /\ ~Gone(p)
    BY <1>1, <1>3 DEF ClientOK, WriteCommand
  <2>2. \A q \in Peer \ {p} : conn'[q] = conn[q]
    BY <1>1, <1>3 DEF WriteCommand, closeConnection, Turn
  <2> QED
    BY <2>1, <2>2 DEF Serves
<1>4. CASE pop3WriteFile(p)
  <2>1. CASE conn[p].out /\ conn[p].full /\ pop3ReadFile(p)
    BY <2>1, FileServes DEF Serves
  <2>2. CASE /\ conn[p].out /\ ~Gone(p)
             /\ conn' \in {[conn EXCEPT ![p].out = FALSE, ![p].full = FALSE], conn}
    BY <1>1, <2>2 DEF Serves
  <2>3. CASE ~conn[p].out /\ pop3ReadFile(p)
    BY <2>3, FileServes DEF Serves
  <2>4. CASE ~conn[p].out /\ Turn(p, "READ", OP_READ)
    BY <1>1, <2>4 DEF Serves, Turn
  <2> QED
    BY <1>4, <2>1, <2>2, <2>3, <2>4 DEF pop3WriteFile
<1> QED
  BY <1>2, <1>3, <1>4 DEF pop3Write

(* Of all the steps only a handler of a connection changes a connection    *)
(* there was.                                                              *)
LEMMA StepServes ==
    ASSUME ServerInv, [Next]_vars
    PROVE  \/ \A p \in Connected : conn'[p] = conn[p]
           \/ \E p \in Connected : Serves(p)
<1>1. Books /\ Queued /\ TypeOK /\ conn \in [Peer -> Client]
  BY DEF ServerInv, Books, Clients
<1>2. CASE handle_iteration
  <2>1. PICK fd \in Round :
           \/ fd \in slave_r /\ "r" \in selector.fds[fd].interest /\ handle_read(fd)
           \/ fd \in slave_w /\ "w" \in selector.fds[fd].interest /\ handle_write(fd)
           \/ UNCHANGED conn
    BY <1>2 DEF handle_iteration
  <2>2. fd \in selector.master_r \cup selector.master_w
    BY <1>1 DEF TypeOK, Round
  <2> DEFINE p == selector.fds[fd].data
  <2>3. CASE selector.fds[fd].handler = "pop3" /\ pop3Read(p) /\ "r" \in selector.fds[fd].interest
    <3>1. p \in Connected /\ conn[p].stm = "READ"
      BY <1>1, <2>2, <2>3, Visited
    <3> HIDE DEF p
    <3> QED
      BY <1>1, <2>3, <3>1, ReadServes
  <2>4. CASE selector.fds[fd].handler = "pop3" /\ pop3Write(p) /\ "w" \in selector.fds[fd].interest
    <3>1. p \in Connected /\ conn[p].stm # "READ"
      BY <1>1, <2>2, <2>4, Visited
    <3> HIDE DEF p
    <3> QED
      BY <1>1, <2>4, <3>1, WriteServes
  <2>5. CASE selector.fds[fd].handler = "passive" /\ fd \in slave_r /\ pop3_handle_connection
    <3>1. fd = server
      BY <1>1, <2>2, <2>5, Listening
    <3>2. backlog # <<>> /\ backlog \in Seq(Peer)
      BY <1>1, <2>5, <3>1 DEF Queued, TypeOK
    <3>3. Head(backlog) \in Peer /\ Head(backlog) \notin Connected
      <4>1. 1 \in DOMAIN backlog /\ Head(backlog) = backlog[1]
        BY <3>2
      <4> QED
        BY <1>1, <3>2, <4>1 DEF Queued, Connected
    <3>4. \/ conn' = conn
          \/ \E f \in Free : conn' = [conn EXCEPT ![Head(backlog)] = NewClient(f)]
      BY <2>5 DEF pop3_handle_connection
    <3> QED
      BY <1>1, <3>3, <3>4 DEF Connected
  <2>6. CASE manager_handle_connection \/ UNCHANGED conn
    BY <2>6 DEF manager_handle_connection
  <2> QED
    BY <2>1, <2>3, <2>4, <2>5, <2>6 DEF handle_read, handle_write
<1>3. CASE selector_select \/ main_finally \/ World \/ UNCHANGED vars
  <2>1. UNCHANGED conn
    BY <1>3 DEF selector_select, main_finally, World, Connect, PeerSends, PeerShutdown,
                PeerReset, ManagerSends, vars, loopVars
  <2> QED
    BY <2>1
<1> QED
  BY <1>2, <1>3 DEF Next, Loop

(* A connection whose peer is gone while there is something to send is     *)
(* never closed, nor changed, unless a mail has filled its buffer.         *)
THEOREM DeadWriterCorrect == Spec => DeadWriterStays
<1>1. ServerInv /\ [Next]_vars =>
         [\A p \in Connected : conn[p].out /\ ~conn[p].full /\ Gone(p) => conn'[p] = conn[p]]_vars
  <2> SUFFICES ASSUME ServerInv, [Next]_vars, NEW p \in Connected,
                      conn[p].out, ~conn[p].full, Gone(p)
               PROVE  conn'[p] = conn[p]
    OBVIOUS
  <2>1. p \in Peer
    BY DEF Connected
  <2> QED
    BY <2>1, StepServes DEF Serves
<1> QED
  BY <1>1, ServerInvariant, PTL DEF Spec, DeadWriterStays
=============================================================================
