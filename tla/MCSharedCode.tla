------------------------------ MODULE MCSharedCode ------------------------------
(* SharedCode for TLC: a script of one function and one of two that two VMs     *)
(* share, and scripts without an id; VM i has functions pi1 and pi2.            *)
EXTENDS SharedCode, TLC
CONSTANTS vm1, vm2, p11, p12, p21, p22, small, large
Owners == [p \in Proto |-> IF p \in {p11, p12} THEN vm1 ELSE vm2]
Natives == small :> 1 @@ large :> 2
Symmetric == Permutations(Module) \cup Permutations({p11, p12}) \cup Permutations({p21, p22})
=============================================================================
