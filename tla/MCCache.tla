------------------------------ MODULE MCCache -------------------------------
(* TLC instance of Cache.                                                  *)
EXTENDS Cache

CONSTANTS k1, k2, v

MCKeys == {k1, k2}
MCValues == {v}

\* Below, at and between whole seconds of two ticks.
MCDurations == {-3, -1, 0, 1, 2, 3}
=============================================================================
