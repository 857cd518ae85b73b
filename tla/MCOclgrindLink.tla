--------------------------- MODULE MCOclgrindLink ---------------------------
(***************************************************************************)
(* Small instances of OclgrindLink for TLC.                                *)
(***************************************************************************)
EXTENDS OclgrindLink, TLC

CONSTANTS w1, w2, out

MCWorkItems == {w1, w2}
MCGlobalIds == {w1, w2, out}
Twins == Permutations(MCWorkItems)

OneGroup == [wi \in MCWorkItems |-> 1]
TwoGroups == [wi \in MCWorkItems |-> wi]

=============================================================================
