------------------------------- MODULE MCPool -------------------------------
EXTENDS Pool, TLC

\* Borrowers and connections are interchangeable (safety runs only).
Symm == Permutations(Borrowers) \cup Permutations(Conns)
=============================================================================
