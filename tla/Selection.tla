------------------------------ MODULE Selection ------------------------------
(***************************************************************************)
(* The loops of this code that walk a list and keep some of its elements,  *)
(* in their order.  SelectSeq would say the same of a set that is given by *)
(* a test; a fold can be reasoned about.                                   *)
(***************************************************************************)
EXTENDS SequencesExt

Only(s, T) == FoldLeft(LAMBDA kept, x : IF x \in T THEN Append(kept, x) ELSE kept, << >>, s)
=============================================================================
