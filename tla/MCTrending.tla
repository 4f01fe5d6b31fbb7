----------------------------- MODULE MCTrending -----------------------------
EXTENDS Trending, TLC

Symmetry == Permutations(Markets) \union Permutations(Users)
=============================================================================
