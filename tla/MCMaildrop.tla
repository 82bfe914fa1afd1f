----------------------------- MODULE MCMaildrop -----------------------------
(***************************************************************************)
(* Small instances of Maildrop: up to two clients, up to two users of whom *)
(* one may have no directory, and mail files of different sizes or of the  *)
(* same.  Two marked messages are enough for the shrinking loop of         *)
(* handleQuitAuth to remove one and miss the other; it takes three for it  *)
(* to remove one, fail on the next, and leave a third that is not marked.  *)
(***************************************************************************)
EXTENDS Maildrop

CONSTANTS c1, c2, u1, u2, m1, m2, m3

TwoSymmetries == Permutations({c1, c2}) \cup Permutations({m1, m2, m3})
MCClient  == {c1, c2}
OneClient == {c1}
MCUser    == {u1, u2}
OneUser   == {u1}
MCHasDir  == {u1}
MCMsg    == {m1, m2, m3}
TwoMsg   == {m1, m2}
Weight   == (m1 :> 1) @@ (m2 :> 2) @@ (m3 :> 4)

(* What the last command answered is never read again: states that differ  *)
(* only in it have the same future.  The properties of a step see it still.*)
WithoutReply == <<client, dir>>

CountOctets == [S \in SUBSET Msg |-> Cardinality(S)]
MCOctets == [S \in SUBSET Msg |-> MapThenSumSet(LAMBDA m : Weight[m], S)]
=============================================================================
