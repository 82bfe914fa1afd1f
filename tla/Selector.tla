------------------------------ MODULE Selector ------------------------------
(***************************************************************************)
(* The table of descriptors of selector.c, as operators on its structure:  *)
(* one item for every descriptor, the highest one in use, and the two sets *)
(* handed to pselect, which every change of an item keeps up to date.      *)
(*                                                                         *)
(* The jobs of other threads (selector_notify_block) are left out: nothing *)
(* in the program starts one.                                              *)
(***************************************************************************)
EXTENDS Naturals

CONSTANTS
    FD_SETSIZE,     \* descriptors pselect can handle (ITEMS_MAX_SIZE)
    Handler,        \* the tables of handlers
    Data,           \* what is passed to them
    NULL

OP_NOOP  == {}
OP_READ  == {"r"}
OP_WRITE == {"w"}

(* The size items grow to: a power of two above n, with a limit, and one   *)
(* more.                                                                   *)
Bits(n) == CHOOSE b \in 0 .. n : 2 ^ b > n /\ (b > 0 => 2 ^ (b - 1) <= n)
next_capacity(n) == 1 + IF 2 ^ Bits(n) > FD_SETSIZE THEN FD_SETSIZE ELSE 2 ^ Bits(n)

ASSUME SelectorAssumption ==
    /\ FD_SETSIZE \in Nat \ {0}
    /\ NULL \notin Handler
    /\ 2 ^ Bits(FD_SETSIZE) \in Nat
    /\ 2 ^ Bits(FD_SETSIZE) >= FD_SETSIZE     \* asserted at selector.c:183

Item   == [handler : Handler \cup {NULL}, interest : SUBSET {"r", "w"},
           data : Data \cup {NULL}]
Unused == [handler |-> NULL, interest |-> OP_NOOP, data |-> NULL]

ITEM_USED(s, fd) == s.fds[fd].handler # NULL
INVALID_FD(fd)   == fd >= FD_SETSIZE

Used(s) == {fd \in DOMAIN s.fds : ITEM_USED(s, fd)}

-----------------------------------------------------------------------------
(* The greatest descriptor of an item in use among those up to max_fd.     *)
items_max_fd(s) ==
    CHOOSE m \in 0 .. s.max_fd :
       /\ m = 0 \/ m \in Used(s)
       /\ \A fd \in Used(s) : fd <= s.max_fd => fd <= m

items_update_fdset_for_fd(s, fd) ==
    [s EXCEPT !.master_r = (@ \ {fd}) \cup {f \in {fd} : "r" \in s.fds[fd].interest},
              !.master_w = (@ \ {fd}) \cup {f \in {fd} : "w" \in s.fds[fd].interest}]

Table(n) == [fds |-> [i \in 0 .. n - 1 |-> Unused], fd_size |-> n, max_fd |-> 0,
             master_r |-> {}, master_w |-> {}]

selector_new_lazy(n) == Table(next_capacity(1))     \* mutant: grown on demand
selector_new(n) == Table(next_capacity(n))

(* A table that is too small is allocated again, with new items unused.    *)
ensure_capacity(s, n) ==
    IF n < s.fd_size THEN s
    ELSE [s EXCEPT !.fd_size = next_capacity(n),
                   !.fds = [i \in 0 .. next_capacity(n) - 1 |->
                               IF i < s.fd_size THEN s.fds[i] ELSE Unused]]

(* What becomes of the table, and why it may stay as it was.  A descriptor *)
(* equal to fd_size passes the comparison at selector.c:351 and is an item *)
(* past the end of the table.                                              *)
selector_register(s, fd, h, interest, data) ==
    LET t     == IF fd > s.fd_size THEN ensure_capacity(s, fd) ELSE s
        added == [t EXCEPT !.fds[fd] = [handler |-> h, interest |-> interest, data |-> data],
                           !.max_fd = IF fd > @ THEN fd ELSE @]
    IN  IF INVALID_FD(fd) THEN [status |-> "IARGS", s |-> s]
        ELSE IF fd \notin DOMAIN t.fds THEN [status |-> "PAST_THE_TABLE", s |-> t]
        ELSE IF ITEM_USED(t, fd) THEN [status |-> "FDINUSE", s |-> t]
        ELSE [status |-> "SUCCESS", s |-> items_update_fdset_for_fd(added, fd)]

selector_unregister_fd_keepSet(s, fd) ==   \* mutant: the sets are not updated
    LET t == [s EXCEPT !.fds[fd] = Unused]
    IN  [t EXCEPT !.max_fd = items_max_fd(t)]

(* Of a descriptor in use, which is the only one the program asks for. *)
selector_unregister_fd(s, fd) ==
    LET t == items_update_fdset_for_fd([s EXCEPT !.fds[fd] = Unused], fd)
    IN  [t EXCEPT !.max_fd = items_max_fd(t)]

selector_set_interest(s, fd, interest) ==
    items_update_fdset_for_fd([s EXCEPT !.fds[fd].interest = interest], fd)

-----------------------------------------------------------------------------
(* What holds of a table between two operations: the items are as many as  *)
(* fd_size says and more than any descriptor pselect takes, max_fd is the  *)
(* greatest in use, and the sets for pselect say what the items say.       *)
IsTable(s) ==
    /\ s \in [fds : [0 .. s.fd_size - 1 -> Item], fd_size : Nat, max_fd : Nat,
              master_r : SUBSET Nat, master_w : SUBSET Nat]
    /\ s.fd_size > FD_SETSIZE

MaxIsGreatest(s) ==
    /\ \A fd \in Used(s) : fd < FD_SETSIZE /\ fd <= s.max_fd
    /\ s.max_fd = 0 \/ s.max_fd \in Used(s)

SetsAgree(s) ==
    /\ s.master_r = {fd \in Used(s) : "r" \in s.fds[fd].interest}
    /\ s.master_w = {fd \in Used(s) : "w" \in s.fds[fd].interest}

Consistent(s) == IsTable(s) /\ MaxIsGreatest(s) /\ SetsAgree(s)
=============================================================================
