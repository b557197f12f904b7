-------------------------------- MODULE Sums --------------------------------
(***************************************************************************)
(* The sum of what a function maps the elements of a finite set to.        *)
(***************************************************************************)
EXTENDS FiniteSetsExt

Sum(f, S) == MapThenSumSet(LAMBDA x : f[x], S)
=============================================================================
