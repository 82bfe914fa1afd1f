--------------------------- MODULE MCMailTransfer ---------------------------
(***************************************************************************)
(* Small instances of MailTransfer.  With a buffer of six bytes a block    *)
(* has five: every mail of one block, and mails of two blocks with any     *)
(* four bytes around the end of the first.                                 *)
(***************************************************************************)
EXTENDS MailTransfer

Beginnings == {<<"x", "x", "x">>, <<"LF", "x", "x">>, <<"NUL", "x", "x">>}
Mails == BoundedSeq(Byte, BLOCK)
         \cup {b \o s : b \in Beginnings, s \in BoundedSeq(Byte, 4)}

(* Text files as an editor writes them: lines that end in LF. *)
TextFiles == {s \in BoundedSeq({"x", "LF"}, BLOCK + 1) : s # <<>> => s[Len(s)] = "LF"}
=============================================================================
