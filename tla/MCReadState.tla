----------------------------- MODULE MCReadState -----------------------------
EXTENDS ReadState, TLC

Symmetry == Permutations(Calls) \cup Permutations(Members \ {Author})
===============================================================================
