----------------------------- MODULE MCKeyWalk -----------------------------
(***************************************************************************)
(* A small instance of KeyWalk for TLC.                                    *)
(***************************************************************************)
EXTENDS KeyWalk, TLC

\* From 1 the batches are 1..3 and 4..6, from 3 they are 3..5 and 6..8: key 3 ends
\* a batch in a short group or begins one, 6 ends or begins the second batch, and 2
\* is funded in both forms.
FundedKeys == {<<2, "comp">>, <<2, "uncomp">>, <<3, "comp">>, <<6, "uncomp">>}

Symmetry == Permutations(Workers)

=============================================================================
