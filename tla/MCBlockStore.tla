---------------------------- MODULE MCBlockStore ----------------------------
(* Small instances of BlockStore for TLC.                                  *)
EXTENDS BlockStore, TLC

CONSTANTS h1, h2, h3

Digests == {h1, h2, h3}
Symmetry == Permutations(Digests)
=============================================================================
