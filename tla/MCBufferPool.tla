---------------------------- MODULE MCBufferPool ----------------------------
(* BufferPool for TLC. *)
EXTENDS BufferPool, TLC

CONSTANT MaxUsage   \* usage counts

Bounds == \A f \in Frames : buffer_descriptors_layer[f].usage <= MaxUsage

\* Holders and inodes are names, and nothing depends on which is which.
Symmetry == Permutations(Holders) \union Permutations(Inodes)
=============================================================================
