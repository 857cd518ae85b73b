---------------------------- MODULE MCDAPServer ----------------------------
(***************************************************************************)
(* Small instances of DAPServer for TLC.                                   *)
(***************************************************************************)
EXTENDS DAPServer

CONSTANTS w1, w2, out_of_range

MCWorkItems == {w1, w2}
MCGlobalIds == {w1, w2, out_of_range}

\* The CPU backend shows the other stopped work-items; Oclgrind's backend
\* shows the stopped one again.
MCStops == {[stopped |-> w1, visible |-> <<w2>>], [stopped |-> w2, visible |-> <<w2>>]}

=============================================================================
