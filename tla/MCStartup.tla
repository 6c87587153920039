------------------------------ MODULE MCStartup ------------------------------
\* Startup for TLC: the PUTs are alike, and so are the containers.
EXTENDS Startup, TLC

Symmetry == Permutations(Writer) \cup Permutations(Seeder)
=============================================================================
