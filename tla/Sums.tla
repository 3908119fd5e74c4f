--------------------------------- MODULE Sums ---------------------------------
(***************************************************************************)
(* The sum of the values of a function.                                    *)
(***************************************************************************)
EXTENDS FiniteSetsExt

Total(f) == MapThenSumSet(LAMBDA i : f[i], DOMAIN f)

==============================================================================
