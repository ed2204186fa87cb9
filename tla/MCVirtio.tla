----------------------------- MODULE MCVirtio -----------------------------
(* Small instances of Virtio. *)
EXTENDS Virtio, TLC

Symmetric == Permutations(Proc) \cup Permutations(Block) \cup Permutations(Val)
=============================================================================
