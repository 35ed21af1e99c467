------------------------------ MODULE MCEffects -------------------------------
(***************************************************************************)
(* An instance of Effects for TLC.                                         *)
(***************************************************************************)
EXTENDS Effects

\* exp(3 - k/10) and exp(-k/50) for the k that are the last two digits of a
\* number in SomeRand; the fastest stars and drops, the slowest, and one between.
SomeRand == {9000, 923, 999}
StarSpeeds ==
  [k \in 0 .. 99 |-> IF k = 0 THEN 20000 ELSE IF k = 23 THEN 2005 ELSE 1]
DropSpeeds ==
  [k \in 0 .. 99 |-> IF k = 0 THEN 1000 ELSE IF k = 23 THEN 631 ELSE 138]

\* One strip for each case of the default scenario.
SomeStrips == {0, 1, 2, 24, 25, 30, 40}
=============================================================================
