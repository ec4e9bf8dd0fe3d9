---------------------------- MODULE SatCounter ----------------------------
(* The saturating counters and the directions of utils.h.                  *)
EXTENDS Integers

\* 1 << n, for the masks and the shifts
Pow2[n \in Nat] == IF n = 0 THEN 1 ELSE 2 * Pow2[n - 1]

TAKEN == TRUE
NOT_TAKEN == FALSE

SatIncrement(x, max) == IF x < max THEN x + 1 ELSE x

SatDecrement(x) == IF x > 0 THEN x - 1 ELSE x

\* The step every predictor makes: towards the direction the branch took
Train(x, dir, max) == IF dir = TAKEN THEN SatIncrement(x, max) ELSE SatDecrement(x)
=============================================================================
