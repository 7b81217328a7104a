-------------------------------- MODULE Sums --------------------------------
(***************************************************************************)
(* The sum of the values of a function over a finite set of arguments: the *)
(* one form in which the models add up bytes and log-odds, so that what is *)
(* proved about it (module SumsProof) can be cited for all of them.        *)
(***************************************************************************)
EXTENDS Integers, Functions

SumOn(f, S) == FoldFunctionOnSet(+, 0, f, S)
=============================================================================
