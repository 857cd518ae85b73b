-------------------------- MODULE DebuggerContract --------------------------
(***************************************************************************)
(* What a Backend (include/ocldbg/Backend.h) promises its client, with no  *)
(* second process and no messages: a target that is free (not debugged),   *)
(* halted or running, and a client that acts while it is halted.           *)
(***************************************************************************)
EXTENDS Naturals

CONSTANTS WorkItems, GlobalIds, NoWI, Lines

VARIABLES
    target,   \* "free", "halted" or "running"
    armed,    \* lines with a breakpoint
    who,      \* the work-item the client is told is stopped, or selected
    line,     \* the line of the last stop
    stepping, \* the target runs to step who
    machine   \* the state of the kernel

vars == <<target, armed, who, line, stepping, machine>>

Init ==
    /\ target = "free" /\ armed = {}
    /\ who = NoWI /\ line = 0 /\ stepping = FALSE

Attach ==
    /\ target = "free" /\ target' = "halted"
    /\ UNCHANGED <<armed, who, line, stepping, machine>>

\* Breakpoints change one line at a time, and not under a running target.
Arm ==
    /\ target # "running"
    /\ \E l \in Lines : armed' \in {armed \cup {l}, armed \ {l}}
    /\ UNCHANGED <<target, who, line, stepping, machine>>

Select ==
    /\ target = "halted" /\ who' \in GlobalIds
    /\ UNCHANGED <<target, armed, line, stepping, machine>>

Resume ==
    /\ target = "halted" /\ target' = "running"
    /\ stepping' \in BOOLEAN
    /\ UNCHANGED <<armed, who, line, machine>>

\* A halted kernel stands still.
Run ==
    /\ target # "halted" /\ machine' # machine
    /\ UNCHANGED <<target, armed, who, line, stepping>>

\* A running target halts at a breakpoint, a stepped one in who.
Halt ==
    /\ target = "running" /\ target' = "halted"
    /\ who' \in WorkItems /\ line' \in Lines
    /\ IF stepping THEN who' = who ELSE line' \in armed
    /\ stepping' = FALSE
    /\ UNCHANGED <<armed, machine>>

\* The program ends, is detached from or lost.
Leave ==
    /\ target # "free" /\ target' = "free"
    /\ stepping' = FALSE
    /\ UNCHANGED <<armed, who, line, machine>>

Next == Attach \/ Arm \/ Select \/ Resume \/ Run \/ Halt \/ Leave

Spec == Init /\ [][Next]_vars

=============================================================================
