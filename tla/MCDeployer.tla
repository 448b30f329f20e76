----------------------------- MODULE MCDeployer -----------------------------
EXTENDS Deployer, TLC

CONSTANTS m1, m2, s1, s2, p1, p2, i1, i2

Symmetry == Permutations(Mongods) \cup Permutations(Sets)
            \cup Permutations(Pushes) \cup Permutations(Initiations)
=============================================================================
