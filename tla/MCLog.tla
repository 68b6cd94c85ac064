-------------------------------- MODULE MCLog --------------------------------
EXTENDS Log, TLC
CONSTANTS o1, o2, o3, b1, b2, b3
MCOp == {o1, o2, o3}
MCBlock == {b1, b2, b3}
Symmetry == Permutations(Op) \cup Permutations(Block)
===============================================================================
