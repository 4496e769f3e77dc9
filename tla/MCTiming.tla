------------------------------ MODULE MCTiming ------------------------------
EXTENDS Timing, TLC

\* Rates and hours are only compared; the runs with a liveness property do
\* without.
Symmetry == Permutations(Rates) \cup Permutations(Windows)
=============================================================================
