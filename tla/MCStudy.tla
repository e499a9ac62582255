------------------------------- MODULE MCStudy -------------------------------
EXTENDS Study, TLC

Symmetry == Permutations(Call)
=============================================================================
