------------------------- MODULE TransparentDebugger -------------------------
(***************************************************************************)
(* What the client of a debugger sees that has no breakpoints but the      *)
(* client's: threads that move while the target runs, and that wait from   *)
(* where they reach a site until the client has been told.  Several can    *)
(* reach one before the target halts as a whole.                           *)
(***************************************************************************)
CONSTANTS Threads, Nobody, Nowhere

VARIABLES
    target,   \* "free" (not debugged), "halted" or "running"
    sites,    \* where the client's breakpoints are
    where,    \* where each thread is, or Nowhere
    reached,  \* the threads that wait for the client to be told
    plan,     \* the thread that makes a step
    call      \* how the target was last set going: "resume" or "step"

vars == <<target, sites, where, reached, plan, call>>

Init ==
    /\ target = "free" /\ sites = {} /\ where = [t \in Threads |-> Nowhere]
    /\ reached = {} /\ plan = Nobody /\ call = "resume"

Launch ==
    /\ target = "free" /\ target' = "halted" /\ sites \subseteq sites'
    /\ UNCHANGED <<where, reached, plan, call>>

\* The places of breakpoints become known at any time.
Find ==
    /\ sites \subseteq sites'
    /\ UNCHANGED <<target, where, reached, plan, call>>

\* A breakpoint goes only while the target stands, and takes no other along.
Remove ==
    /\ target # "running" /\ \E site \in sites : sites' = sites \ {site}
    /\ UNCHANGED <<target, where, reached, plan, call>>

Resume ==
    /\ target = "halted" /\ target' = "running" /\ call' = "resume"
    /\ UNCHANGED <<sites, where, reached, plan>>

Step(t) ==
    /\ target = "halted" /\ target' = "running" /\ call' = "step" /\ plan' = t
    /\ UNCHANGED <<sites, where, reached>>

\* A thread that comes to a site or ends its step goes no further.
Arrives(t, place) ==
    /\ target = "running" /\ t \notin reached
    /\ where' = [where EXCEPT ![t] = place]
    /\ reached' = IF place # Nowhere /\ (place \in sites \/ t = plan) THEN reached \cup {t}
                                                                      ELSE reached
    /\ UNCHANGED <<target, sites, plan, call>>

Faults(t) ==
    /\ target = "running" /\ t \notin reached /\ reached' = reached \cup {t}
    /\ UNCHANGED <<target, sites, where, plan, call>>

\* The target halts if there is something to tell; or in a step, at whatever
\* ended it.
Halt ==
    /\ target = "running" /\ target' = "halted"
    /\ reached # {} \/ call = "step"
    /\ reached' = {} /\ plan' \in {plan, Nobody} /\ sites \subseteq sites'
    /\ UNCHANGED <<where, call>>

\* The program ends or is detached from.
Leave ==
    /\ target # "free" /\ target' = "free" /\ reached' = {}
    /\ UNCHANGED <<sites, where, plan, call>>

Next ==
    \/ Launch \/ Find \/ Remove \/ Resume \/ Halt \/ Leave
    \/ \E t \in Threads : Step(t) \/ Arrives(t, where'[t]) \/ Faults(t)

Spec == Init /\ [][Next]_vars

=============================================================================
