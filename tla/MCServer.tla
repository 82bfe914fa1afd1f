------------------------------ MODULE MCServer ------------------------------
(***************************************************************************)
(* A small instance of Server: the process may have one descriptor more    *)
(* than pselect can handle, and two peers with a mail file open need more  *)
(* than either.                                                            *)
(***************************************************************************)
EXTENDS Server

CONSTANTS p1, p2

Peers    == {p1, p2}
Handlers == {"passive", "manager", "pop3"}
=============================================================================
