------------------------------ MODULE MCVmMap ------------------------------
(* Instances of VmMap for TLC.  Blocks are interchangeable model values and *)
(* the pager may hand out any free one.                                     *)
EXTENDS VmMap, TLC

AnyFree(S) == S
LowestFree(S) == {b \in S : \A c \in S : b <= c}

BootFresh == {[p \in Page |-> ZeroPage]}
BootAny == {l \in [Page -> BlockRef] :
              \A p, q \in Page : l[p] \in Block /\ l[p] = l[q] => p = q}

AnyAccess == Thread \X Op \X Page

WritesOnly == Thread \X {"write"} \X Page

BlockSymmetry == Permutations(Block)
BlockThreadSymmetry == Permutations(Block) \cup Permutations(Thread)
=============================================================================
