------------------------------ MODULE MCTimerUse ------------------------------
EXTENDS TimerUse, TLC

CONSTANTS a, b, e

MCIds == {a, b, e}
MCHighByteIds == {e}
Symmetry == Permutations({a, b})
=============================================================================
