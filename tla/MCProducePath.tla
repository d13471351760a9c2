--------------------------- MODULE MCProducePath ---------------------------
(***************************************************************************)
(* ProducePath for TLC: requests of up to two rows, made of one to write,  *)
(* one of another bucket to delete, and one that does not convert.         *)
(***************************************************************************)
EXTENDS ProducePath, TLC

CONSTANTS s1, s2

TwoSends == {s1, s2}

Row(b, c, d) == [bucket |-> b, converts |-> c, delete |-> d]

SomeRows == {Row(1, TRUE, FALSE), Row(2, TRUE, TRUE), Row(1, FALSE, FALSE)}

SendSymmetry == Permutations(TwoSends)
=============================================================================
