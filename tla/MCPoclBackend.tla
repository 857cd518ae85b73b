---------------------------- MODULE MCPoclBackend ----------------------------
(***************************************************************************)
(* Small instances of PoclBackend for TLC.                                 *)
(***************************************************************************)
EXTENDS PoclBackend

\* Two kernels; line 3 of the first has no code, and the second is before it.
TwoKernels == <<{4, 6}, {2}>>

At(file, l) == [file |-> file, line |-> l]
MCLocations == {At("kernel", 3), At("kernel", 6), At("host", HostLine)}

=============================================================================
