------------------------- MODULE MCOclgrindSession -------------------------
(***************************************************************************)
(* Small instances of OclgrindSession for TLC.                             *)
(***************************************************************************)
EXTENDS OclgrindSession

CONSTANTS w1, w2

MCWorkItems == {w1, w2}
OneGroup == [wi \in MCWorkItems |-> 1]

=============================================================================
