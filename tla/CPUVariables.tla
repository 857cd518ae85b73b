----------------------------- MODULE CPUVariables -----------------------------
(***************************************************************************)
(* Variables of a stopped thread (OCLVariableResolver.cpp,                 *)
(* CPULocationBackend::evaluate() of PoclCPUBackend.cpp).                  *)
(*                                                                         *)
(* Values are known by where they were read: a thread, the place it was    *)
(* at and the work-group it ran.  The DWARF is that of the first module    *)
(* somebody asked about, and is never read again; the cache keeps the last *)
(* value of every name, whichever thread and kernel it came from.          *)
(***************************************************************************)
EXTENDS Integers

CONSTANTS
    Names,      \* names of variables
    Scope,      \* Scope[m]: the variables in the DWARF of module m
    Gives,      \* Gives[p]: the variables LLDB reads at place p
    Located,    \* Located[p]: those whose location expression holds at p
    Aliased     \* Aliased[p]: those that LLDB knows at p by a name of pocl's

ASSUME ScopeAssumption == \A m \in DOMAIN Scope : Scope[m] \subseteq Names

NoModule == "none"
NoReading == [thread |-> -1, place |-> <<"none", 0>>, group |-> -1]
\* A location expression of another module says something, but nothing true.
Garbage == [NoReading EXCEPT !.group = -2]

\* The resolver takes the frame's module when nothing is loaded yet.
ensure_loaded(dwarf, place) == IF dwarf = NoModule THEN place[1] ELSE dwarf

\* resolve(): the variables of the loaded DWARF; without any, those of the frame.
\* In another module's DWARF the address means nothing: any function may match.
InScope(dwarf, place) == IF Scope[dwarf] # {} THEN Scope[dwarf] ELSE Gives[place]

\* Wrong variant: a value that was seen before is not read again.
evaluate_cached(name, dwarf, now, cache) ==
    IF cache[name] # NoReading THEN cache[name]
    ELSE IF name \in Gives[now.place] \cup Located[now.place] THEN now ELSE NoReading

\* evaluate(): what LLDB reads, or the location expression, or the cache, or a
\* variable of pocl's naming, in this order.
evaluate(name, dwarf, now, cache) ==
    CASE name \in Gives[now.place] -> now
      [] name \notin Gives[now.place] /\ name \in Located[now.place] ->
             IF dwarf = now.place[1] THEN now ELSE Garbage
      [] name \notin Gives[now.place] \cup Located[now.place] ->
             IF cache[name] # NoReading THEN cache[name]
             ELSE IF name \in Aliased[now.place] THEN now ELSE NoReading

\* What is shown at a reading's place, and what the cache has learnt then.
Shown(dwarf, now, cache) ==
    [n \in Names |-> IF n \in InScope(dwarf, now.place) THEN evaluate(n, dwarf, now, cache)
                                                        ELSE NoReading]
Learnt(dwarf, now, cache) ==
    [n \in Names |-> IF Shown(dwarf, now, cache)[n] = NoReading THEN cache[n]
                                                                ELSE Shown(dwarf, now, cache)[n]]

=============================================================================
