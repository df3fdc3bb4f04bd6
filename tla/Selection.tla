----------------------------- MODULE Selection ------------------------------
(***************************************************************************)
(* What SelectSeq of the standard module returns.  The provers have no     *)
(* definition of that operator; they have one of FlattenSeq.               *)
(***************************************************************************)
EXTENDS Sequences, SequencesExt

(* The elements of s that pass a test, in their order.                     *)
Selected(s, Test(_)) ==
  FlattenSeq([i \in DOMAIN s |-> IF Test(s[i]) THEN <<s[i]>> ELSE <<>>])
=============================================================================
