-------------------------- MODULE MCSharedMemLife ---------------------------
(* SharedMemLife for TLC: the owners are alike.                            *)
EXTENDS SharedMemLife, TLC

OwnerSymmetry == Permutations(Owners)
=============================================================================
