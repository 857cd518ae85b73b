----------------------------- MODULE ConsoleProofs -----------------------------
(***************************************************************************)
(* Proofs about the terminal client and the debugger behind it.            *)
(***************************************************************************)
EXTENDS Console, LeastElement, TLAPS

(***************************************************************************)
(* Numbers and lines                                                       *)
(***************************************************************************)

\* The first of some threads is one of them (the first stopped thread).
LEMMA FirstIsOne ==
    ASSUME NEW T, T \subseteq Nat, T # {}
    PROVE  First(T) \in T
BY LeastExists DEF First

\* The question put to a line table is the file and the line, nothing else of a
\* breakpoint (resolve_one_breakpoint()).
LEMMA SameQuestion ==
    ASSUME NEW rows, NEW one, NEW other, one.line = other.line, one.file = other.file
    PROVE  resolve_one_breakpoint(rows, one) = resolve_one_breakpoint(rows, other)
BY DEF resolve_one_breakpoint, source_to_pcs, Unresolved

\* A line of the kernel that resolves does so to an address of one of its rows.
LEMMA AnswerIsAnAddress ==
    ASSUME NEW loc, resolve_one_breakpoint(Rows["kernel"], loc).resolved
    PROVE  /\ resolve_one_breakpoint(Rows["kernel"], loc).address \in Nat \ {0}
           /\ resolve_one_breakpoint(Rows["kernel"], loc).address \in Mapped
<1> DEFINE rows == Rows["kernel"]
           pcs == source_to_pcs(rows, loc)
<1>1. pcs # {} /\ resolve_one_breakpoint(rows, loc).address = Least(pcs)
  BY DEF resolve_one_breakpoint, Unresolved
<1>2. \A a \in pcs : a \in Nat \ {0} /\ a \in Mapped
  <2>1. ASSUME NEW line, NEW file, NEW a \in find_pcs_for_line(rows, line, file)
        PROVE  a \in Nat \ {0} /\ a \in Mapped
    BY <2>1, RowAssumption DEF find_pcs_for_line, RowsOf
  <2> QED BY <2>1 DEF source_to_pcs
<1>3. Least(pcs) \in pcs
  <2>1. \E n \in pcs : \A m \in pcs : n <= m
    <3> HIDE DEF pcs
    <3> QED BY <1>1, <1>2, LeastExists
  <2> HIDE DEF pcs
  <2> QED BY <2>1 DEF Least
<1> QED BY <1>1, <1>2, <1>3

(***************************************************************************)
(* The program and the DWARF                                               *)
(***************************************************************************)

\* Workers are in the kernel only when its module is loaded, by a program that was
\* run in a target, with the trampoline set unless ocldbg missed the command.
LaunchInv ==
    /\ at = [t \in Threads |-> at[t]] /\ DOMAIN reason = Threads
    /\ \A t \in Workers : at[t][1] \in {"entry", "kernel"} => loaded
    /\ loaded => process # "none"
    /\ process # "none" => target
    /\ (process # "none" /\ "missed" \notin past) => trampoline

\* The DWARF is the kernel's, unless somebody looked at the host program first.
DwarfInv ==
    /\ dwarf \in {NoModule, "host", "kernel"}
    /\ dwarf = "host" => "peeked" \in past

\* Looking for the kernel's module finds it once it is loaded (load_kernel_dwarf()).
LEMMA LoadKernel ==
    ASSUME DwarfInv
    PROVE  /\ load_kernel_dwarf \in {NoModule, "host", "kernel"}
           /\ load_kernel_dwarf = "host" => "peeked" \in past
           /\ (target /\ loaded) => load_kernel_dwarf # NoModule
BY DEF DwarfInv, load_kernel_dwarf, NoModule

\* A look at the variables of a frame (inspect_variables()) leaves the DWARF of a
\* module, and a host's DWARF only with the look remembered.
LEMMA LookLeavesDwarf ==
    ASSUME DwarfInv, NEW cmd, HandleVars(cmd)
    PROVE  DwarfInv'
<1>1. CASE process = "stopped" /\ InFrame(Inspected) /\ InspectVariables(Reading(Inspected))
  <2> DEFINE place == Reading(Inspected).place
  <2>1. place[1] \in {"host", "kernel"}
    BY <1>1 DEF Reading, InFrame
  <2>2. dwarf' = ensure_loaded(load_kernel_dwarf, place)
        /\ past' = past \cup (IF dwarf' = "host" THEN {"peeked"} ELSE {})
    BY <1>1 DEF InspectVariables
  <2> HIDE DEF place
  <2> QED BY <2>1, <2>2, LoadKernel DEF ensure_loaded, DwarfInv
<1>2. CASE process = "stopped" /\ dwarf' = load_kernel_dwarf /\ UNCHANGED past
  BY <1>2, LoadKernel DEF DwarfInv
<1>3. CASE UNCHANGED <<dwarf, past>>
  BY <1>3 DEF DwarfInv
<1> QED BY <1>1, <1>2, <1>3 DEF HandleVars

\* Every step keeps what is known of the program and of the DWARF.
LEMMA LaunchStep ==
    ASSUME LaunchInv, DwarfInv, [Next]_vars
    PROVE  LaunchInv' /\ DwarfInv'
<1> USE DEF inputVars, bpVars, itemVars, varVars, hostVars
<1>1. CASE UNCHANGED vars
  BY <1>1 DEF vars, LaunchInv, DwarfInv
<1>2. CASE EndSession
  BY <1>2 DEF EndSession, LaunchInv, DwarfInv
<1>3. CASE IgnoreQuit
  BY <1>3 DEF IgnoreQuit, LaunchInv, DwarfInv
<1>4. ASSUME NEW cmd, HandleBreak(cmd) PROVE LaunchInv' /\ DwarfInv'
  <2>1. /\ UNCHANGED <<target, process, at, loaded, reason, past>>
        /\ dwarf' = dwarf \/ dwarf' = load_kernel_dwarf
        /\ trampoline => trampoline'
    BY <1>4 DEF HandleBreak, add_ocl_breakpoint, delete_ocl_breakpoint
  <2> QED BY <2>1, LoadKernel DEF LaunchInv, DwarfInv
<1>5. ASSUME NEW cmd, HandleSelect(cmd) PROVE LaunchInv' /\ DwarfInv'
  BY <1>5 DEF HandleSelect, LaunchInv, DwarfInv
<1>6. ASSUME NEW cmd, HandleVars(cmd) PROVE LaunchInv' /\ DwarfInv'
  <2>1. UNCHANGED <<target, process, at, loaded, reason, trampoline>> /\ past \subseteq past'
    BY <1>6 DEF HandleVars, InspectVariables
  <2>2. LaunchInv'
    BY <2>1 DEF LaunchInv
  <2> QED BY <2>2, <1>6, LookLeavesDwarf
<1>7. ASSUME NEW cmd, HandleOther(cmd) PROVE LaunchInv' /\ DwarfInv'
  BY <1>7 DEF HandleOther, LaunchInv, DwarfInv
<1>8. ASSUME NEW cmd, HandleLLDB(cmd) PROVE LaunchInv' /\ DwarfInv'
  <2>1. /\ UNCHANGED <<dwarf, at, loaded>> /\ (target => target') /\ (trampoline => trampoline')
        /\ (DOMAIN reason = Threads => DOMAIN reason' = Threads)
    BY <1>8 DEF HandleLLDB
  <2>2. CASE Goes(cmd)
    <3>1. process' = "running" /\ past' = past \cup (IF trampoline' THEN {} ELSE {"missed"})
      BY <1>8, <2>2 DEF HandleLLDB
    <3>2. target
      BY <2>2 DEF Goes, LaunchInv
    <3> QED BY <2>1, <3>1, <3>2 DEF LaunchInv, DwarfInv
  <2>3. CASE ~Goes(cmd)
    BY <1>8, <2>1, <2>3 DEF HandleLLDB, LaunchInv, DwarfInv
  <2> QED BY <2>2, <2>3
<1>9. CASE HostExits
  BY <1>9 DEF HostExits, LaunchInv, DwarfInv
<1>10. CASE Stop
  BY <1>10 DEF Stop, LaunchInv, DwarfInv
<1>11. ASSUME NEW t \in Threads, NEW place, Go(t, place), loaded => loaded',
              t \in Workers /\ place[1] \in {"entry", "kernel"} => loaded,
              dwarf' = dwarf \/ dwarf' = load_kernel_dwarf
       PROVE  LaunchInv' /\ DwarfInv'
  <2>1. /\ UNCHANGED <<target, process, trampoline, past>> /\ process = "running"
        /\ at' = [at EXCEPT ![t] = place] /\ DOMAIN reason' = DOMAIN reason
    BY <1>11 DEF Go
  <2>2. DwarfInv'
    BY <2>1, <1>11, LoadKernel DEF DwarfInv
  <2> QED BY <2>1, <2>2, <1>11 DEF LaunchInv
<1>12. main \in Threads /\ main \notin Workers /\ Workers \subseteq Threads
  BY ConsoleAssumption DEF main, Workers, Threads
<1>13. CASE NextHostLine
  BY <1>11, <1>12, <1>13 DEF NextHostLine
<1>14. CASE Enqueue
  BY <1>11, <1>12, <1>14 DEF Enqueue
<1>15. ASSUME NEW t \in Workers, TakeGroup(t) PROVE LaunchInv' /\ DwarfInv'
  BY <1>11, <1>12, <1>15 DEF TakeGroup
<1>16. ASSUME NEW t \in Workers, EnterBody(t) PROVE LaunchInv' /\ DwarfInv'
  <2>1. loaded /\ Go(t, Place("kernel")) /\ (dwarf' = dwarf \/ dwarf' = load_kernel_dwarf)
        /\ UNCHANGED loaded
    BY <1>16 DEF EnterBody, LaunchInv, Place
  <2> QED BY <2>1, <1>11, <1>12
<1>17. ASSUME NEW t \in Workers, NextLine(t) PROVE LaunchInv' /\ DwarfInv'
  <2>1. loaded /\ UNCHANGED <<dwarf, loaded>> /\ \E a : Go(t, <<"kernel", a>>)
    BY <1>17 DEF NextLine, LaunchInv
  <2> QED BY <2>1, <1>11, <1>12
<1>18. ASSUME NEW t \in Workers, LeaveKernel(t) PROVE LaunchInv' /\ DwarfInv'
  <2>1. Go(t, Place("idle")) /\ Place("idle")[1] = "idle" /\ UNCHANGED <<dwarf, loaded>>
    BY <1>18 DEF LeaveKernel, Place
  <2> QED BY <2>1, <1>11, <1>12
<1> QED
  BY <1>1, <1>2, <1>3, <1>4, <1>5, <1>6, <1>7, <1>8, <1>9, <1>10, <1>13, <1>14, <1>15, <1>16,
     <1>17, <1>18 DEF Next, Client, Program

\* Both hold from the start.
LEMMA LaunchInit ==
    Init => LaunchInv /\ DwarfInv
<1> SUFFICES ASSUME Init PROVE LaunchInv /\ DwarfInv
  OBVIOUS
<1>1. at = [t \in Threads |-> <<IF t = main THEN "start" ELSE "idle", 0>>]
  BY DEF Init, Place
<1>2. \A t \in Workers : t \in Threads /\ t # main
  BY ConsoleAssumption DEF Workers, main, Threads
<1>3. at = [t \in Threads |-> at[t]] /\ DOMAIN reason = Threads
  BY <1>1 DEF Init
<1>4. \A t \in Workers : at[t][1] = "idle"
  BY <1>1, <1>2
<1> QED BY <1>3, <1>4 DEF Init, LaunchInv, DwarfInv, NoModule

(***************************************************************************)
(* Variables                                                               *)
(***************************************************************************)

\* Nothing is shown at no place.
LEMMA NothingIsReadable ==
    ASSUME shown = NothingShown
    PROVE  ReadableIsShown
BY DEF ReadableIsShown, NothingShown, NoReading

\* What inspect_variables() shows in the kernel is read there (evaluate()).
LEMMA LookIsReadable ==
    ASSUME DwarfInv, NEW now, InspectVariables(now), now.place[1] = "kernel",
           "peeked" \notin past'
    PROVE  \A n \in Scope["kernel"] \cap (Gives[now.place] \cup Located[now.place]) :
              shown'.values[n] = shown'.now
<1>1. dwarf' = ensure_loaded(load_kernel_dwarf, now.place)
      /\ shown' = [now |-> now, values |-> Shown(dwarf', now, cache)]
      /\ past' = past \cup (IF dwarf' = "host" THEN {"peeked"} ELSE {})
  BY DEF InspectVariables
<1>2. dwarf' = "kernel"
  BY <1>1, LoadKernel DEF ensure_loaded
<1>3. SUFFICES ASSUME NEW n \in Scope["kernel"] \cap (Gives[now.place] \cup Located[now.place])
               PROVE  Shown("kernel", now, cache)[n] = now
  BY <1>1, <1>2
<1>4. n \in Names /\ n \in InScope("kernel", now.place)
  BY RowAssumption, ScopeAssumption DEF InScope
<1>5. evaluate(n, "kernel", now, cache) = now
  BY DEF evaluate
<1> QED BY <1>4, <1>5 DEF Shown

\* Every step shows what can be read.
LEMMA ShownStep ==
    ASSUME DwarfInv, ReadableIsShown, [Next]_vars
    PROVE  ReadableIsShown'
<1> USE DEF inputVars, bpVars, itemVars, varVars, hostVars
<1>1. CASE shown' = NothingShown
  BY <1>1 DEF ReadableIsShown, NothingShown, NoReading
<1>2. CASE UNCHANGED shown /\ past \subseteq past'
  BY <1>2 DEF ReadableIsShown
<1>3. ASSUME NEW cmd, HandleVars(cmd) PROVE ReadableIsShown'
  <2>1. CASE InspectVariables(Reading(Inspected))
    <3>1. shown'.now = Reading(Inspected)
      BY <2>1 DEF InspectVariables
    <3> QED BY <3>1, <2>1, LookIsReadable DEF ReadableIsShown
  <2> QED BY <2>1, <1>1, <1>3 DEF HandleVars
<1>4. ASSUME NEW cmd, HandleBreak(cmd) \/ HandleSelect(cmd) \/ HandleOther(cmd) \/ HandleLLDB(cmd)
      PROVE  shown' = NothingShown
  BY <1>4 DEF HandleBreak, HandleSelect, HandleOther, HandleLLDB
<1>5. ASSUME NEW t, NEW place, Go(t, place) PROVE UNCHANGED <<shown, past>>
  BY <1>5 DEF Go
<1>6. ASSUME Program PROVE UNCHANGED <<shown, past>>
  BY <1>5, <1>6 DEF Program, NextHostLine, Enqueue, HostExits, Stop, TakeGroup, EnterBody, NextLine,
                    LeaveKernel
<1> QED
  BY <1>1, <1>2, <1>3, <1>4, <1>6 DEF Next, Client, IgnoreQuit, EndSession, vars

\* At a place in the kernel, every variable that can be read there is shown with the
\* value it has there and then, whatever was inspected and cached before: evaluate()
\* asks LLDB and the location before the cache.
THEOREM ReadableIsShownAlways == Spec => []ReadableIsShown
<1>1. Init => LaunchInv /\ DwarfInv /\ ReadableIsShown
  BY LaunchInit, NothingIsReadable DEF Init
<1>2. LaunchInv /\ DwarfInv /\ ReadableIsShown /\ [Next]_vars
        => (LaunchInv /\ DwarfInv /\ ReadableIsShown)'
  BY LaunchStep, ShownStep
<1> QED BY <1>1, <1>2, PTL DEF Spec

(***************************************************************************)
(* Breakpoints                                                             *)
(***************************************************************************)

\* A breakpoint is put where the line asked for is, once it is resolved.
Shaped(bp) == bp = [x \in {"id", "file", "line", "asked", "resolved", "address"} |-> bp[x]]
InPlace(bp) == bp.resolved /\ bp.address = <<"kernel", Asked(bp).address>>
Truthful(bp, peeked) ==
    /\ ~bp.resolved => bp.line = bp.asked
    /\ (bp.resolved /\ IsKernelFile(bp.file) /\ ~peeked) => InPlace(bp)
Placed(bp) == (IsKernelFile(bp.file) /\ Asked(bp).resolved) => InPlace(bp)

\* Breakpoints tell the truth; while a worker is in the kernel all of them are placed.
KernelRuns == process # "exited" /\ \E t \in Workers : at[t][1] = "kernel"
BreakpointInv ==
    /\ \A bp \in bps : Shaped(bp) /\ Truthful(bp, "peeked" \in past)
    /\ (past = {} /\ KernelRuns) => \A bp \in bps : Placed(bp)

\* One breakpoint after a turn of resolve_pending_breakpoints() with the DWARF d.
LEMMA ResolvedIsTruthful ==
    ASSUME NEW bp, Shaped(bp), NEW peeked \in BOOLEAN, Truthful(bp, peeked),
           NEW d \in {NoModule, "host", "kernel"}, d = "host" => peeked, loaded => d # NoModule
    PROVE  /\ Shaped(ResolvedIn(bp, d))
           /\ Truthful(ResolvedIn(bp, d), peeked)
           /\ (~peeked /\ loaded /\ process # "exited") => Placed(ResolvedIn(bp, d))
<1> DEFINE kernel == resolve_one_breakpoint(Rows[d], bp)
           host == resolve_one_breakpoint(Rows["host"], bp)
           at_host == [bp EXCEPT !.resolved = TRUE, !.address = <<"host", host.address>>]
           at_kernel == [bp EXCEPT !.resolved = TRUE, !.address = <<"kernel", kernel.address>>,
                                   !.line = kernel.line]
<1>1. /\ Shaped(at_host) /\ at_host.resolved
      /\ at_host.file = bp.file /\ at_host.asked = bp.asked
      /\ Shaped(at_kernel) /\ at_kernel.resolved
      /\ at_kernel.file = bp.file /\ at_kernel.asked = bp.asked
      /\ at_kernel.address = <<"kernel", kernel.address>>
  <2> HIDE DEF kernel, host
  <2>1. DOMAIN bp = {"id", "file", "line", "asked", "resolved", "address"}
    BY DEF Shaped
  <2> QED BY <2>1 DEF Shaped
<1>2. ASSUME ~bp.resolved, d = "kernel" PROVE kernel = Asked(bp)
  <2>1. bp.line = bp.asked
    BY <1>2 DEF Truthful
  <2> DEFINE question == [file |-> bp.file, line |-> bp.asked]
  <2>2. question.line = bp.line /\ question.file = bp.file
    BY <2>1
  <2> QED BY <1>2, <2>2, SameQuestion DEF Asked
<1>3. CASE ~bp.resolved /\ ~IsKernelFile(bp.file) /\ host.resolved
  <2>1. ResolvedIn(bp, d) = at_host
    BY <1>3 DEF ResolvedIn
  <2> HIDE DEF kernel, host, at_host
  <2> QED BY <1>1, <1>3, <2>1 DEF Shaped, Truthful, Placed
<1>4. CASE ~bp.resolved /\ IsKernelFile(bp.file) /\ loaded /\ process # "exited"
             /\ kernel.resolved /\ kernel.address \in Mapped
  <2>1. ResolvedIn(bp, d) = at_kernel
    BY <1>4 DEF ResolvedIn
  <2>2. ~peeked => kernel = Asked(bp)
    BY <1>2, <1>4
  <2>3. Asked(at_kernel) = Asked(bp)
    <3> HIDE DEF kernel, at_kernel
    <3> QED BY <1>1 DEF Asked
  <2> HIDE DEF kernel, host, at_kernel
  <2> QED BY <1>1, <1>4, <2>1, <2>2, <2>3 DEF Shaped, Truthful, Placed, InPlace
<1>5. CASE /\ ~(~bp.resolved /\ ~IsKernelFile(bp.file) /\ host.resolved)
           /\ ~(~bp.resolved /\ IsKernelFile(bp.file) /\ loaded /\ process # "exited"
                  /\ kernel.resolved /\ kernel.address \in Mapped)
  <2>1. ResolvedIn(bp, d) = bp
    BY <1>5 DEF ResolvedIn
  <2>2. ASSUME ~peeked, loaded, process # "exited", IsKernelFile(bp.file), Asked(bp).resolved
        PROVE  bp.resolved
    <3>1. SUFFICES ASSUME ~bp.resolved PROVE FALSE
      OBVIOUS
    <3>2. d = "kernel"
      BY <2>2
    <3>3. kernel = Asked(bp)
      BY <1>2, <3>1, <3>2
    <3>4. kernel.resolved /\ kernel.address \in Mapped
      BY <2>2, <3>2, <3>3, AnswerIsAnAddress DEF Asked
    <3> HIDE DEF kernel, host
    <3> QED BY <1>5, <2>2, <3>1, <3>4
  <2> HIDE DEF kernel, host
  <2> QED BY <2>1, <2>2 DEF Truthful, Placed
<1> QED BY <1>3, <1>4, <1>5

\* All of them, where a new one is among them or not.
LEMMA PendingAreTruthful ==
    ASSUME LaunchInv, DwarfInv, NEW entries,
           \A bp \in entries : Shaped(bp) /\ Truthful(bp, "peeked" \in past),
           NEW bp \in resolve_pending(entries, load_kernel_dwarf)
    PROVE  /\ Shaped(bp) /\ Truthful(bp, "peeked" \in past)
           /\ (past = {} /\ target /\ loaded /\ process # "exited") => Placed(bp)
<1>1. CASE ~target
  BY <1>1 DEF resolve_pending
<1>2. CASE target
  <2>1. PICK old \in entries : bp = ResolvedIn(old, load_kernel_dwarf)
    BY <1>2 DEF resolve_pending
  <2> DEFINE d == load_kernel_dwarf
             peeked == "peeked" \in past
  <2>2. /\ d \in {NoModule, "host", "kernel"} /\ (d = "host" => peeked)
        /\ loaded => d # NoModule
    BY <1>2, LoadKernel
  <2>3. peeked \in BOOLEAN /\ Shaped(old) /\ Truthful(old, peeked) /\ (past = {} => ~peeked)
    OBVIOUS
  <2>4. bp = ResolvedIn(old, d)
    BY <2>1
  <2> HIDE DEF d, peeked
  <2>5. /\ Shaped(bp) /\ Truthful(bp, peeked)
        /\ (~peeked /\ loaded /\ process # "exited") => Placed(bp)
    BY <2>2, <2>3, <2>4, ResolvedIsTruthful
  <2> QED BY <2>3, <2>5 DEF peeked
<1> QED BY <1>1, <1>2

\* Breakpoints stay as they are, and no worker comes into the kernel.
LEMMA BreakpointsKept ==
    ASSUME BreakpointInv, past \subseteq past', bps' \subseteq bps, KernelRuns' => KernelRuns
    PROVE  BreakpointInv'
<1>1. \A bp \in bps : Shaped(bp) /\ Truthful(bp, "peeked" \in past')
  BY DEF BreakpointInv, Truthful
<1>2. (past' = {} /\ KernelRuns') => \A bp \in bps : Placed(bp)
  BY DEF BreakpointInv
<1> QED BY <1>1, <1>2 DEF BreakpointInv

\* Every step keeps breakpoints in place.
LEMMA BreakpointStep ==
    ASSUME LaunchInv, DwarfInv, BreakpointInv, [Next]_vars
    PROVE  BreakpointInv'
<1> USE DEF inputVars, bpVars, itemVars, varVars, hostVars
<1>1. CASE UNCHANGED <<bps, at, process>> /\ past \subseteq past'
  BY <1>1, BreakpointsKept DEF KernelRuns
<1>2. ASSUME NEW cmd, HandleSelect(cmd) \/ HandleVars(cmd) \/ HandleOther(cmd)
      PROVE  UNCHANGED <<bps, at, process>> /\ past \subseteq past'
  BY <1>2 DEF HandleSelect, HandleVars, InspectVariables, HandleOther
<1>3. ASSUME NEW cmd, HandleBreak(cmd) PROVE BreakpointInv'
  <2>1. UNCHANGED <<target, process, at, loaded, past>> /\ (KernelRuns' => KernelRuns)
    BY <1>3 DEF HandleBreak, KernelRuns
  <2>2. ASSUME NEW loc, add_ocl_breakpoint(loc) PROVE BreakpointInv'
    <3>1. Shaped(NewBreakpoint(loc)) /\ Truthful(NewBreakpoint(loc), "peeked" \in past)
      BY DEF NewBreakpoint, Shaped, Truthful
    <3>2. \A bp \in bps \cup {NewBreakpoint(loc)} : Shaped(bp) /\ Truthful(bp, "peeked" \in past)
      BY <3>1 DEF BreakpointInv
    <3>3. bps' = resolve_pending(bps \cup {NewBreakpoint(loc)}, load_kernel_dwarf)
      BY <2>2 DEF add_ocl_breakpoint
    <3>4. ASSUME NEW bp \in bps'
          PROVE  /\ Shaped(bp) /\ Truthful(bp, "peeked" \in past)
                 /\ (past = {} /\ target /\ loaded /\ process # "exited") => Placed(bp)
      BY <3>2, <3>3, PendingAreTruthful
    <3>5. KernelRuns => target /\ loaded /\ process # "exited"
      BY DEF KernelRuns, LaunchInv
    <3> QED BY <2>1, <3>4, <3>5 DEF BreakpointInv
  <2>3. CASE bps' \subseteq bps
    BY <2>1, <2>3, BreakpointsKept
  <2> QED BY <1>3, <2>2, <2>3 DEF HandleBreak, delete_ocl_breakpoint
<1>4. ASSUME NEW cmd, HandleLLDB(cmd) PROVE BreakpointInv'
  <2>1. UNCHANGED <<bps, at>> /\ past \subseteq past'
        /\ (process' = process \/ process \in {"none", "stopped"})
    BY <1>4 DEF HandleLLDB, Goes
  <2> QED BY <2>1, BreakpointsKept DEF KernelRuns
<1>5. ASSUME NEW t \in Threads, NEW place, Go(t, place), UNCHANGED bps,
             (t \in Workers /\ place[1] = "kernel") => at[t][1] = "kernel"
      PROVE  BreakpointInv'
  <2>1. /\ UNCHANGED <<process, past, bps>>
        /\ at' = [at EXCEPT ![t] = place]
    BY <1>5 DEF Go
  <2>2. KernelRuns' => KernelRuns
    BY <2>1, <1>5 DEF KernelRuns, LaunchInv
  <2> QED BY <2>1, <2>2, BreakpointsKept
<1>6. main \in Threads /\ main \notin Workers /\ Workers \subseteq Threads
  BY ConsoleAssumption DEF main, Workers, Threads
<1>7. CASE NextHostLine \/ Enqueue
  <2>1. UNCHANGED bps /\ \E place : Go(main, place)
    BY <1>7 DEF NextHostLine, Enqueue
  <2> QED BY <2>1, <1>5, <1>6
<1>8. ASSUME NEW t \in Workers, TakeGroup(t) \/ LeaveKernel(t) \/ NextLine(t)
      PROVE  BreakpointInv'
  <2>1. Place("entry")[1] = "entry" /\ Place("idle")[1] = "idle"
    BY DEF Place
  <2>2. UNCHANGED bps /\ \E place : Go(t, place) /\ (place[1] # "kernel" \/ at[t][1] = "kernel")
    <3>1. CASE TakeGroup(t) \/ LeaveKernel(t)
      BY <2>1, <3>1 DEF TakeGroup, LeaveKernel
    <3>2. CASE NextLine(t)
      <4>1. at[t][1] = "kernel" /\ UNCHANGED bps /\ \E a : Go(t, <<"kernel", a>>)
        BY <3>2 DEF NextLine
      <4> QED BY <4>1
    <3> QED BY <1>8, <3>1, <3>2
  <2> QED BY <2>2, <1>5, <1>6
<1>9. ASSUME NEW t \in Workers, EnterBody(t) PROVE BreakpointInv'
  <2>1. /\ UNCHANGED <<process, past, loaded, target>> /\ process = "running"
        /\ loaded /\ target
        /\ IF trampoline THEN bps' = resolve_pending(bps, load_kernel_dwarf) ELSE UNCHANGED bps
    BY <1>9 DEF EnterBody, Go, LaunchInv, Place
  <2>2. CASE trampoline
    <3>1. ASSUME NEW bp \in bps'
          PROVE  /\ Shaped(bp) /\ Truthful(bp, "peeked" \in past)
                 /\ (past = {} /\ target /\ loaded /\ process # "exited") => Placed(bp)
      BY <2>1, <2>2, PendingAreTruthful DEF BreakpointInv
    <3> QED BY <2>1, <3>1 DEF BreakpointInv
  <2>3. CASE ~trampoline
    <3>1. "missed" \in past
      BY <2>1, <2>3 DEF LaunchInv
    <3> QED BY <2>1, <2>3, <3>1 DEF BreakpointInv
  <2> QED BY <2>2, <2>3
<1>10. CASE HostExits
  BY <1>10, BreakpointsKept DEF HostExits, KernelRuns
<1>11. CASE Stop
  BY <1>11, BreakpointsKept DEF Stop, KernelRuns
<1>12. CASE EndSession
  BY <1>12, BreakpointsKept DEF EndSession, KernelRuns
<1> QED
  BY <1>1, <1>2, <1>3, <1>4, <1>7, <1>8, <1>9, <1>10, <1>11, <1>12
     DEF Next, Client, Program, IgnoreQuit, vars

\* Nobody passes a line of the kernel that has a breakpoint in place.
LEMMA NobodyPasses ==
    ASSUME LaunchInv, BreakpointInv, [Next]_vars, past = {}, NEW t \in Workers
    PROVE  ~ArrivesUnnoticed(t)
<1> SUFFICES ASSUME ArrivesUnnoticed(t) PROVE FALSE
  OBVIOUS
<1> USE DEF inputVars, bpVars, itemVars, varVars, hostVars
<1>1. PICK bp \in bps : Means(bp, at'[t])
  BY DEF ArrivesUnnoticed
<1>2. /\ IsKernelFile(bp.file) /\ Asked(bp).resolved
      /\ at'[t] = <<"kernel", Asked(bp).address>> /\ Asked(bp).address \in Nat \ {0}
  BY <1>1, AnswerIsAnAddress DEF Means, Asked
<1>3. at'[t] # at[t] /\ reason'[t] = "none"
  BY DEF ArrivesUnnoticed
<1>4. main \in Threads /\ main \notin Workers /\ Workers \subseteq Threads
  BY ConsoleAssumption DEF main, Workers, Threads
<1>5. ASSUME NEW u \in Threads, NEW place, Go(u, place) PROVE u = t /\ place = at'[t]
  BY <1>3, <1>4, <1>5 DEF Go, LaunchInv
<1>6. at'[t] # Place("kernel") /\ at'[t] # Place("idle") /\ at'[t] # Place("entry")
  BY <1>2 DEF Place
<1>7. NextLine(t)
  <2>1. ~UNCHANGED at
    BY <1>3
  <2>2. ~NextHostLine /\ ~Enqueue
    BY <1>4, <1>5 DEF NextHostLine, Enqueue
  <2>3. ASSUME NEW u \in Workers PROVE ~TakeGroup(u) /\ ~EnterBody(u) /\ ~LeaveKernel(u)
    BY <1>4, <1>5, <1>6 DEF TakeGroup, EnterBody, LeaveKernel
  <2>4. ASSUME NEW u \in Workers, NextLine(u) PROVE u = t
    BY <1>4, <1>5, <2>4 DEF NextLine
  <2>5. ASSUME Client \/ HostExits \/ Stop \/ UNCHANGED vars PROVE UNCHANGED at
    BY <2>5 DEF Client, HostExits, Stop, vars, EndSession, IgnoreQuit, HandleBreak, HandleSelect,
                HandleVars, HandleOther, HandleLLDB
  <2> QED BY <2>1, <2>2, <2>3, <2>4, <2>5 DEF Next, Program
<1>8. at[t][1] = "kernel" /\ Go(t, at'[t])
  BY <1>4, <1>5, <1>7 DEF NextLine
<1>9. InPlace(bp)
  <2>1. KernelRuns
    BY <1>8 DEF KernelRuns, Go
  <2> QED BY <1>2, <2>1 DEF BreakpointInv, Placed
<1>10. at'[t] \in Armed
  BY <1>2, <1>9 DEF Armed, InPlace
<1>11. ~(reason'[t] = "none")
  <2>1. reason' = [reason EXCEPT ![t] = "breakpoint"]
    BY <1>8, <1>10 DEF Go
  <2>2. t \in DOMAIN reason
    BY <1>4 DEF LaunchInv
  <2> QED BY <2>1, <2>2
<1> QED BY <1>3, <1>11

\* A breakpoint on a line of the kernel stops every worker that arrives there: the
\* trampoline's callback has put it in place before a worker is in the kernel, from
\* the kernel's own line table.
THEOREM BreakpointAlwaysStops == Spec => BreakpointStops
<1> DEFINE Inv == LaunchInv /\ DwarfInv /\ BreakpointInv
<1>1. Init => Inv
  BY LaunchInit DEF Init, BreakpointInv, KernelRuns, LaunchInv
<1>2. Inv /\ [Next]_vars => Inv'
  BY LaunchStep, BreakpointStep
<1>3. Inv /\ [Next]_vars => [past = {} => \A t \in Workers : ~ArrivesUnnoticed(t)]_vars
  BY NobodyPasses
<1> HIDE DEF Inv
<1> QED BY <1>1, <1>2, <1>3, PTL DEF Spec, BreakpointStops

(***************************************************************************)
(* Types                                                                   *)
(***************************************************************************)

\* The parts of TypeOK, with what they rest on: a stopped program has a stopped
\* thread, and threads are where their lines are.
SessionTypes ==
    /\ batch \in BOOLEAN /\ typed \in 0 .. MaxTyped /\ pc \in {"read", "running", "end"}
    /\ target \in BOOLEAN /\ process \in {"none", "running", "stopped", "exited"}
    /\ trampoline \in BOOLEAN /\ past \subseteq {"peeked", "missed"}
BreakpointTypes ==
    /\ next_id \in Nat \ {0}
    /\ \A bp \in bps : bp.id \in 1 .. next_id - 1 /\ bp.resolved \in BOOLEAN
    /\ \A bp, other \in bps : bp.id = other.id => bp = other
ProgramTypes ==
    /\ lldb_thread \in Threads
    /\ group \in [Threads -> 0 .. MaxGroups] /\ reason \in [Threads -> {"none", "breakpoint"}]
    /\ groups \in 0 .. MaxGroups /\ loaded \in BOOLEAN
    /\ process = "stopped" => Stopped # {}
ItemTypes ==
    /\ DOMAIN tracker \subseteq Threads /\ selected \in Threads \cup {NoThread}
VariableTypes ==
    /\ cache \in [Names -> Readings]
    /\ shown.now \in Readings /\ shown.values \in [Names -> Readings]
HostLines == {0} \cup Addresses("host")
KernelLines == {0} \cup Addresses("kernel")
WorkerPlaces == {Place("idle"), Place("entry")} \cup {<<"kernel", a>> : a \in KernelLines}
PlacesKnown ==
    /\ at = [t \in Threads |-> at[t]]
    /\ at[main][2] \in HostLines
    /\ \A t \in Workers : at[t] \in WorkerPlaces

\* Together they are TypeOK.
LEMMA TypesTogether ==
    ASSUME SessionTypes, BreakpointTypes, ProgramTypes, ItemTypes, VariableTypes, DwarfInv
    PROVE  TypeOK
BY DEF SessionTypes, BreakpointTypes, ProgramTypes, ItemTypes, VariableTypes, DwarfInv, TypeOK

\* Threads are numbered from 1, the main thread first.
LEMMA ThreadsAre ==
    /\ main \in Threads /\ main \notin Workers /\ Workers \subseteq Threads
    /\ Threads \subseteq Nat /\ Threads = {main} \cup Workers /\ NoThread \notin Threads
BY ConsoleAssumption DEF main, Workers, Threads, NoThread

\* Commands and the program keep the types of the session.
LEMMA SessionTypesStep ==
    ASSUME SessionTypes, [Next]_vars
    PROVE  SessionTypes'
<1> USE ConsoleAssumption DEF inputVars, bpVars, itemVars, varVars, hostVars, SessionTypes
<1>1. CASE UNCHANGED vars
  BY <1>1 DEF vars
<1>2. CASE EndSession
  BY <1>2 DEF EndSession
<1>3. CASE IgnoreQuit
  BY <1>3 DEF IgnoreQuit, Given
<1>4. ASSUME NEW cmd, HandleBreak(cmd) PROVE SessionTypes'
  BY <1>4 DEF HandleBreak, Given, add_ocl_breakpoint, delete_ocl_breakpoint
<1>5. ASSUME NEW cmd, HandleSelect(cmd) PROVE SessionTypes'
  BY <1>5 DEF HandleSelect, Given
<1>6. ASSUME NEW cmd, HandleVars(cmd) PROVE SessionTypes'
  <2>1. /\ UNCHANGED <<batch, pc, target, process, trampoline>> /\ typed' \in 0 .. MaxTyped
    BY <1>6 DEF HandleVars, Given
  <2>2. past' \subseteq {"peeked", "missed"}
    BY <1>6 DEF HandleVars, InspectVariables
  <2> QED BY <2>1, <2>2
<1>7. ASSUME NEW cmd, HandleOther(cmd) PROVE SessionTypes'
  BY <1>7 DEF HandleOther, Given
<1>8. ASSUME NEW cmd, HandleLLDB(cmd) PROVE SessionTypes'
  <2>1. batch' = batch /\ typed' \in 0 .. MaxTyped
    BY <1>8 DEF HandleLLDB, Given
  <2>2. target' \in BOOLEAN
    <3>1. target' = (target \/ Creates(Meant(cmd)))
      BY <1>8 DEF HandleLLDB
    <3> HIDE DEF SessionTypes
    <3> QED BY <3>1
  <2>3. trampoline' \in BOOLEAN
    <3>1. trampoline' = (trampoline \/ (Prepares(cmd) /\ target))
      BY <1>8 DEF HandleLLDB
    <3> HIDE DEF SessionTypes
    <3> QED BY <3>1
  <2>4. /\ pc' \in {"read", "running", "end"}
        /\ process' \in {"none", "running", "stopped", "exited"}
        /\ past' \subseteq {"peeked", "missed"}
    BY <1>8 DEF HandleLLDB
  <2> QED BY <2>1, <2>2, <2>3, <2>4
<1>9. ASSUME NEW t, NEW place, Go(t, place) PROVE SessionTypes'
  BY <1>9 DEF Go
<1>10. ASSUME Program PROVE SessionTypes'
  BY <1>9, <1>10 DEF Program, NextHostLine, Enqueue, HostExits, Stop, TakeGroup, EnterBody,
                     NextLine, LeaveKernel
<1> QED
  BY <1>1, <1>2, <1>3, <1>4, <1>5, <1>6, <1>7, <1>8, <1>10 DEF Next, Client

\* Resolving breakpoints changes neither how many there are nor their ids.
LEMMA ResolvingKeepsIds ==
    ASSUME NEW entries, NEW d, \A bp \in entries : Shaped(bp) /\ bp.resolved \in BOOLEAN
    PROVE  \A bp \in resolve_pending(entries, d) :
             \E old \in entries : /\ bp = IF target THEN ResolvedIn(old, d) ELSE old
                                  /\ bp.id = old.id /\ bp.resolved \in BOOLEAN
<1>1. ASSUME NEW bp \in entries
      PROVE  ResolvedIn(bp, d).id = bp.id /\ ResolvedIn(bp, d).resolved \in BOOLEAN
  <2>1. /\ DOMAIN bp = {"id", "file", "line", "asked", "resolved", "address"}
        /\ bp.resolved \in BOOLEAN
    BY DEF Shaped
  <2> QED BY <2>1 DEF ResolvedIn
<1> QED BY <1>1 DEF resolve_pending

\* Breakpoints are numbered by next_ocl_bp_id (add_ocl_breakpoint()).
LEMMA BreakpointTypesStep ==
    ASSUME BreakpointInv, BreakpointTypes, [Next]_vars
    PROVE  BreakpointTypes'
<1> USE DEF inputVars, bpVars, itemVars, varVars, hostVars
<1>1. CASE bps' \subseteq bps /\ next_id' = next_id
  BY <1>1 DEF BreakpointTypes
<1>2. ASSUME NEW cmd, HandleSelect(cmd) \/ HandleVars(cmd) \/ HandleOther(cmd) \/ HandleLLDB(cmd)
      PROVE  bps' \subseteq bps /\ next_id' = next_id
  BY <1>2 DEF HandleSelect, HandleVars, HandleOther, HandleLLDB
<1>3. ASSUME NEW loc, add_ocl_breakpoint(loc) PROVE BreakpointTypes'
  <2> DEFINE new == NewBreakpoint(loc)
             entries == bps \cup {new}
  <2>1. Shaped(new) /\ new.id = next_id /\ new.resolved = FALSE
    BY DEF NewBreakpoint, Shaped
  <2>2. next_id' = next_id + 1 /\ next_id \in Nat \ {0} /\ bps' = resolve_pending(entries, dwarf')
    BY <1>3 DEF add_ocl_breakpoint, BreakpointTypes
  <2>3. \A bp \in bps : Shaped(bp) /\ bp.id \in 1 .. next_id - 1 /\ bp.resolved \in BOOLEAN
    BY DEF BreakpointInv, BreakpointTypes
  <2>4. \A bp \in entries : Shaped(bp) /\ bp.resolved \in BOOLEAN
    <3> HIDE DEF new
    <3> QED BY <2>1, <2>3
  <2>5. \A bp \in entries : bp.id \in 1 .. next_id
    <3> HIDE DEF new
    <3> QED BY <2>1, <2>2, <2>3
  <2>6. \A bp, other \in entries : bp.id = other.id => bp = other
    <3> HIDE DEF new
    <3> QED BY <2>1, <2>2, <2>3 DEF BreakpointTypes
  <2>7. \A bp \in bps' :
          \E old \in entries : /\ bp = IF target THEN ResolvedIn(old, dwarf') ELSE old
                               /\ bp.id = old.id /\ bp.resolved \in BOOLEAN
    <3> HIDE DEF entries
    <3> QED BY <2>2, <2>4, ResolvingKeepsIds
  <2> HIDE DEF entries
  <2>8. \A bp \in bps' : bp.id \in 1 .. next_id /\ bp.resolved \in BOOLEAN
    BY <2>5, <2>7
  <2>9. \A bp, other \in bps' : bp.id = other.id => bp = other
    BY <2>6, <2>7
  <2> QED BY <2>2, <2>8, <2>9 DEF BreakpointTypes
<1>4. ASSUME NEW cmd, HandleBreak(cmd) PROVE BreakpointTypes'
  BY <1>1, <1>3, <1>4 DEF HandleBreak, delete_ocl_breakpoint
<1>5. ASSUME NEW t \in Workers, EnterBody(t) PROVE BreakpointTypes'
  <2>1. next_id' = next_id /\ (bps' = bps \/ bps' = resolve_pending(bps, dwarf'))
    BY <1>5 DEF EnterBody, Go
  <2>2. CASE bps' = resolve_pending(bps, dwarf')
    <3>1. \A bp \in bps : Shaped(bp) /\ bp.resolved \in BOOLEAN
      BY DEF BreakpointInv, BreakpointTypes
    <3>2. \A bp \in bps' :
            \E old \in bps : /\ bp = IF target THEN ResolvedIn(old, dwarf') ELSE old
                             /\ bp.id = old.id /\ bp.resolved \in BOOLEAN
      BY <2>2, <3>1, ResolvingKeepsIds
    <3>3. \A bp \in bps' : bp.id \in 1 .. next_id - 1 /\ bp.resolved \in BOOLEAN
      BY <3>2 DEF BreakpointTypes
    <3>4. \A bp, other \in bps' : bp.id = other.id => bp = other
      BY <3>2 DEF BreakpointTypes
    <3> QED BY <2>1, <3>3, <3>4 DEF BreakpointTypes
  <2> QED BY <1>1, <2>1, <2>2
<1>6. ASSUME NEW t, NEW place, Go(t, place), UNCHANGED bps PROVE BreakpointTypes'
  BY <1>1, <1>6 DEF Go
<1>7. ASSUME Program PROVE BreakpointTypes'
  BY <1>1, <1>5, <1>6, <1>7 DEF Program, NextHostLine, Enqueue, HostExits, Stop, TakeGroup,
                                NextLine, LeaveKernel
<1> QED BY <1>1, <1>2, <1>4, <1>7 DEF Next, Client, EndSession, IgnoreQuit, vars

\* A selected work-item is of a stopped thread or of none (select_work_item()).
LEMMA SelectedIsAThread ==
    ASSUME NEW clobbered, NEW launch, NEW known, NEW id,
           NEW wi \in select_work_item(Frames(clobbered), launch, known, id)
    PROVE  wi.thread \in Threads \cup {NoThread}
<1> DEFINE threads == Frames(clobbered)
           wanted == [a \in Axes |-> id[a] \div get_local_dims(launch)[a]]
           found == find_threads_for_target_wg(threads, launch, known, wanted, id)
<1>1. DOMAIN threads = Threads
  BY DEF Frames
<1>2. PICK t \in found : wi.thread = t
  BY DEF select_work_item
<1>3. StoppedIn(threads) \subseteq Threads /\ Matching(threads, wanted) \subseteq StoppedIn(threads)
  BY <1>1 DEF StoppedIn, Matching
<1>4. found \subseteq Threads \cup {NoThread}
  <2>1. Matching(threads, wanted) # {} => First(Matching(threads, wanted)) \in Threads
    BY <1>3, FirstIsOne, ThreadsAre
  <2> HIDE DEF threads, wanted
  <2> QED BY <1>3, <2>1 DEF find_threads_for_target_wg
<1> QED BY <1>2, <1>4

\* The tracker knows threads only (WorkGroupTracker::record()).
LEMMA RecordedAreThreads ==
    ASSUME NEW known, DOMAIN known \subseteq Threads, NEW frames, NEW T, T \subseteq Threads
    PROVE  DOMAIN record_wgs(known, frames, T) \subseteq Threads
BY DEF record_wgs

\* The program's threads: a stop has a stopped thread, a group is one of the kernel's.
LEMMA ProgramTypesStep ==
    ASSUME LaunchInv, ProgramTypes, ItemTypes, [Next]_vars
    PROVE  ProgramTypes'
<1> USE ConsoleAssumption, ThreadsAre DEF inputVars, bpVars, itemVars, varVars, hostVars
<1>1. CASE /\ UNCHANGED <<lldb_thread, hostVars, reason>>
           /\ process' = "stopped" => process = "stopped"
  BY <1>1 DEF ProgramTypes, Stopped
<1>2. ASSUME NEW cmd, HandleBreak(cmd) \/ HandleVars(cmd) \/ HandleOther(cmd)
      PROVE  UNCHANGED <<lldb_thread, hostVars, reason, process>>
  BY <1>2 DEF HandleBreak, HandleVars, HandleOther
<1>3. ASSUME NEW cmd, HandleSelect(cmd) PROVE ProgramTypes'
  <2>1. UNCHANGED <<hostVars, reason, process>>
    BY <1>3 DEF HandleSelect
  <2>2. lldb_thread' \in Threads
    <3>1. CASE UNCHANGED lldb_thread
      BY <3>1 DEF ProgramTypes
    <3>2. CASE \E clobbered \in SUBSET Stopped : \E id :
                 \E wi \in select_work_item(Frames(clobbered), NotInferred, tracker, id) :
                    wi.thread # NoThread /\ lldb_thread' = wi.thread
      BY <3>2, SelectedIsAThread DEF ItemTypes
    <3> QED BY <1>3, <3>1, <3>2 DEF HandleSelect
  <2> QED BY <2>1, <2>2 DEF ProgramTypes, Stopped
<1>4. ASSUME NEW cmd, HandleLLDB(cmd) PROVE ProgramTypes'
  <2>1. CASE Goes(cmd)
    BY <1>4, <2>1 DEF HandleLLDB, ProgramTypes, Stopped
  <2>2. CASE ~Goes(cmd)
    BY <1>4, <2>2, <1>1 DEF HandleLLDB
  <2> QED BY <2>1, <2>2
<1>5. ASSUME NEW t \in Threads, NEW place, Go(t, place) PROVE
        /\ UNCHANGED <<lldb_thread, process>> /\ process # "stopped"
        /\ reason' \in [Threads -> {"none", "breakpoint"}]
  BY <1>5 DEF Go, ProgramTypes
<1>6. ASSUME NEW t \in Threads, NEW place, Go(t, place), UNCHANGED <<group, groups>>,
             loaded' \in BOOLEAN
      PROVE  ProgramTypes'
  BY <1>5, <1>6 DEF ProgramTypes
<1>7. CASE NextHostLine
  BY <1>6, <1>7 DEF NextHostLine, ProgramTypes
<1>8. CASE Enqueue
  BY <1>6, <1>8 DEF Enqueue
<1>9. ASSUME NEW t \in Workers, EnterBody(t) \/ NextLine(t) \/ LeaveKernel(t) PROVE ProgramTypes'
  BY <1>6, <1>9 DEF EnterBody, NextLine, LeaveKernel, ProgramTypes
<1>10. ASSUME NEW t \in Workers, TakeGroup(t) PROVE ProgramTypes'
  <2>1. /\ Go(t, Place("entry")) /\ group' = [group EXCEPT ![t] = MaxGroups - groups]
        /\ groups' = groups - 1 /\ groups > 0 /\ loaded' = loaded
    BY <1>10 DEF TakeGroup
  <2>2. MaxGroups - groups \in 0 .. MaxGroups /\ groups - 1 \in 0 .. MaxGroups
    BY <2>1 DEF ProgramTypes
  <2>3. group' \in [Threads -> 0 .. MaxGroups]
    BY <2>1, <2>2 DEF ProgramTypes
  <2> QED BY <1>5, <2>1, <2>2, <2>3 DEF ProgramTypes
<1>11. CASE Stop
  BY <1>11 DEF Stop, ProgramTypes, Stopped
<1>12. CASE HostExits \/ EndSession
  BY <1>1, <1>12 DEF HostExits, EndSession
<1>13. CASE IgnoreQuit \/ UNCHANGED vars
  BY <1>1, <1>13 DEF IgnoreQuit, vars
<1> QED
  BY <1>1, <1>2, <1>3, <1>4, <1>7, <1>8, <1>9, <1>10, <1>11, <1>12, <1>13
     DEF Next, Client, Program

\* The tracker and the selection (WorkGroupTracker.cpp, selected_work_item).
LEMMA ItemTypesStep ==
    ASSUME ItemTypes, [Next]_vars
    PROVE  ItemTypes'
<1> USE DEF inputVars, bpVars, itemVars, varVars, hostVars
<1>1. CASE UNCHANGED itemVars
  BY <1>1 DEF ItemTypes
<1>2. ASSUME NEW cmd, HandleBreak(cmd) \/ HandleVars(cmd) \/ HandleOther(cmd) \/ HandleLLDB(cmd)
      PROVE  UNCHANGED itemVars
  BY <1>2 DEF HandleBreak, HandleVars, HandleOther, HandleLLDB
<1>3. ASSUME NEW cmd, HandleSelect(cmd) PROVE ItemTypes'
  <2>1. CASE UNCHANGED itemVars
    BY <2>1, <1>1
  <2>2. ASSUME NEW clobbered \in SUBSET Stopped,
               tracker' = record_wgs(tracker, Frames(clobbered), Stopped), UNCHANGED selected
        PROVE  ItemTypes'
    <3>1. Stopped \subseteq Threads
      BY DEF Stopped
    <3> QED BY <2>2, <3>1, RecordedAreThreads DEF ItemTypes
  <2>3. ASSUME NEW clobbered \in SUBSET Stopped, NEW id,
               tracker' = TrackerAfter(Frames(clobbered), NotInferred, tracker, id),
               NEW wi \in select_work_item(Frames(clobbered), NotInferred, tracker, id),
               selected' = selected \/ selected' = wi.thread
        PROVE  ItemTypes'
    <3> DEFINE threads == Frames(clobbered)
    <3>1. StoppedIn(threads) \subseteq Threads
      BY DEF StoppedIn, Frames
    <3>2. PICK T : T \subseteq StoppedIn(threads) /\ tracker' = record_wgs(tracker, threads, T)
      BY <2>3 DEF TrackerAfter
    <3>3. DOMAIN tracker' \subseteq Threads
      <4> HIDE DEF threads
      <4> QED BY <3>1, <3>2, RecordedAreThreads DEF ItemTypes
    <3>4. wi.thread \in Threads \cup {NoThread}
      BY <2>3, SelectedIsAThread
    <3> QED BY <2>3, <3>3, <3>4 DEF ItemTypes
  <2> QED BY <1>3, <2>1, <2>2, <2>3 DEF HandleSelect
<1>4. ASSUME NEW t \in Workers, EnterBody(t) PROVE ItemTypes'
  <2>1. selected' = selected
        /\ (tracker' = tracker \/ tracker' = record_wgs(tracker, Frames({}), {t}))
    BY <1>4 DEF EnterBody, Go
  <2> QED BY <2>1, RecordedAreThreads, ThreadsAre DEF ItemTypes
<1>5. ASSUME NEW t, NEW place, Go(t, place), UNCHANGED tracker PROVE ItemTypes'
  BY <1>5 DEF Go, ItemTypes
<1>6. ASSUME Program PROVE ItemTypes'
  BY <1>1, <1>4, <1>5, <1>6 DEF Program, NextHostLine, Enqueue, HostExits, Stop, TakeGroup,
                                NextLine, LeaveKernel
<1> QED BY <1>1, <1>2, <1>3, <1>6 DEF Next, Client, EndSession, IgnoreQuit, vars

\* Threads are at lines of their own module.
LEMMA PlacesStep ==
    ASSUME PlacesKnown, [Next]_vars
    PROVE  PlacesKnown'
<1> USE ThreadsAre DEF inputVars, bpVars, itemVars, varVars, hostVars
<1>1. CASE UNCHANGED at
  BY <1>1 DEF PlacesKnown
<1>2. ASSUME NEW a \in HostLines, NEW m, Go(main, <<m, a>>) PROVE PlacesKnown'
  BY <1>2 DEF Go, PlacesKnown
<1>3. ASSUME NEW t \in Workers, NEW place \in WorkerPlaces, Go(t, place) PROVE PlacesKnown'
  BY <1>3 DEF Go, PlacesKnown
<1>4. CASE NextHostLine
  BY <1>2, <1>4 DEF NextHostLine, HostLines
<1>5. CASE Enqueue
  BY <1>2, <1>5 DEF Enqueue, PlacesKnown
<1>6. ASSUME NEW t \in Workers, TakeGroup(t) \/ LeaveKernel(t) PROVE PlacesKnown'
  BY <1>3, <1>6 DEF TakeGroup, LeaveKernel, WorkerPlaces
<1>7. ASSUME NEW t \in Workers, EnterBody(t) PROVE PlacesKnown'
  <2>1. Place("kernel") \in WorkerPlaces
    BY DEF Place, WorkerPlaces, KernelLines
  <2> QED BY <1>3, <1>7, <2>1 DEF EnterBody
<1>8. ASSUME NEW t \in Workers, NextLine(t) PROVE PlacesKnown'
  BY <1>3, <1>8 DEF NextLine, WorkerPlaces, KernelLines
<1>9. ASSUME Client \/ HostExits \/ Stop \/ UNCHANGED vars PROVE UNCHANGED at
  BY <1>9 DEF Client, HostExits, Stop, vars, EndSession, IgnoreQuit, HandleBreak, HandleSelect,
              HandleVars, HandleOther, HandleLLDB
<1> QED BY <1>1, <1>4, <1>5, <1>6, <1>7, <1>8, <1>9 DEF Next, Program

\* A frame is read at one of the places.
LEMMA ReadingTypes ==
    ASSUME PlacesKnown, ProgramTypes, NEW t \in Threads, InFrame(t)
    PROVE  Reading(t) \in Readings /\ Reading(t) # NoReading
<1> USE ThreadsAre
<1>1. group[t] \in 0 .. MaxGroups
  BY DEF ProgramTypes
<1>2. (IF t = main THEN <<"host", at[t][2]>> ELSE at[t]) \in Places
  <2>1. CASE t = main
    BY <2>1 DEF PlacesKnown, HostLines, Places
  <2>2. CASE t # main
    <3>1. at[t] \in WorkerPlaces /\ at[t][1] \in {"host", "kernel"}
      BY <2>2 DEF PlacesKnown, InFrame
    <3>2. PICK a \in KernelLines : at[t] = <<"kernel", a>>
      BY <3>1 DEF WorkerPlaces, Place
    <3> QED BY <2>2, <3>2 DEF Places, KernelLines
  <2> QED BY <2>1, <2>2
<1>3. Reading(t) \in [thread : Threads, group : 0 .. MaxGroups, place : Places]
  BY <1>1, <1>2 DEF Reading
<1>4. Reading(t).thread = t /\ NoReading.thread = -1
  BY DEF Reading, NoReading
<1> QED BY <1>3, <1>4 DEF Readings

\* What a look shows and what the cache learns are readings (evaluate()).
LEMMA LookTypes ==
    ASSUME VariableTypes, NEW now \in Readings, InspectVariables(now)
    PROVE  VariableTypes'
<1>1. shown' = [now |-> now, values |-> Shown(dwarf', now, cache)]
      /\ cache' = Learnt(dwarf', now, cache)
  BY DEF InspectVariables
<1>2. NoReading \in Readings /\ Garbage \in Readings
  BY DEF Readings
<1>3. ASSUME NEW n \in Names, NEW d PROVE evaluate(n, d, now, cache) \in Readings
  BY <1>2 DEF evaluate, VariableTypes
<1>4. Shown(dwarf', now, cache) \in [Names -> Readings]
  BY <1>2, <1>3 DEF Shown
<1>5. Learnt(dwarf', now, cache) \in [Names -> Readings]
  BY <1>4 DEF Learnt, VariableTypes
<1> QED BY <1>1, <1>4, <1>5 DEF VariableTypes

\* Variables are shown as readings, or not at all.
LEMMA VariableTypesStep ==
    ASSUME PlacesKnown, ProgramTypes, ItemTypes, VariableTypes, [Next]_vars
    PROVE  VariableTypes'
<1> USE DEF inputVars, bpVars, itemVars, varVars, hostVars
<1>1. CASE UNCHANGED varVars
  BY <1>1 DEF VariableTypes
<1>2. CASE UNCHANGED cache /\ shown' = NothingShown
  BY <1>2 DEF VariableTypes, NothingShown, Readings
<1>3. ASSUME NEW cmd, HandleVars(cmd) PROVE VariableTypes'
  <2>1. CASE process = "stopped" /\ InFrame(Inspected) /\ InspectVariables(Reading(Inspected))
    <3>1. Stopped # {} /\ Stopped \subseteq Threads
      BY <2>1 DEF ProgramTypes, Stopped
    <3>2. First(Stopped) \in Threads
      BY <3>1, FirstIsOne, ThreadsAre
    <3>3. Inspected \in Threads
      BY <3>2 DEF Inspected, ItemTypes, ProgramTypes
    <3>4. Reading(Inspected) \in Readings
      BY <2>1, <3>3, ReadingTypes
    <3> QED BY <2>1, <3>4, LookTypes
  <2> QED BY <1>2, <1>3, <2>1 DEF HandleVars
<1>4. ASSUME NEW cmd, HandleBreak(cmd) \/ HandleSelect(cmd) \/ HandleOther(cmd) \/ HandleLLDB(cmd)
      PROVE  UNCHANGED cache /\ shown' = NothingShown
  BY <1>4 DEF HandleBreak, HandleSelect, HandleOther, HandleLLDB
<1>5. ASSUME NEW t, NEW place, Go(t, place) PROVE UNCHANGED varVars
  BY <1>5 DEF Go
<1>6. ASSUME Program PROVE UNCHANGED varVars
  BY <1>5, <1>6 DEF Program, NextHostLine, Enqueue, HostExits, Stop, TakeGroup, EnterBody, NextLine,
                    LeaveKernel
<1> QED
  BY <1>1, <1>2, <1>3, <1>4, <1>6 DEF Next, Client, IgnoreQuit, EndSession, vars

\* All of it holds at the start.
LEMMA TypesInit ==
    ASSUME Init
    PROVE  /\ SessionTypes /\ BreakpointTypes /\ ProgramTypes /\ ItemTypes /\ VariableTypes
           /\ PlacesKnown
<1> USE ConsoleAssumption, ThreadsAre
<1>1. SessionTypes
  <2>1. batch \in BOOLEAN
    <3>1. PICK flags : batch = ("batch_mode" \in flags)
      BY DEF Init
    <3> QED BY <3>1
  <2>2. /\ typed = 0 /\ pc = "read" /\ target = FALSE /\ process = "none" /\ trampoline = FALSE
        /\ past = {}
    BY DEF Init
  <2>3. target \in BOOLEAN /\ trampoline \in BOOLEAN
    BY <2>2, Zenon
  <2>4. typed \in 0 .. MaxTyped
    BY <2>2
  <2> QED BY <2>1, <2>2, <2>3, <2>4 DEF SessionTypes
<1>2. BreakpointTypes
  BY DEF Init, BreakpointTypes
<1>3. ProgramTypes
  <2>1. /\ group = [t \in Threads |-> 0] /\ reason = [t \in Threads |-> "none"]
        /\ groups = MaxGroups /\ loaded = FALSE /\ lldb_thread = main /\ process = "none"
    BY DEF Init
  <2>2. loaded \in BOOLEAN
    BY <2>1, Zenon
  <2>3. groups \in 0 .. MaxGroups
    BY <2>1
  <2>4. group \in [Threads -> 0 .. MaxGroups] /\ reason \in [Threads -> {"none", "breakpoint"}]
    BY <2>1
  <2> QED BY <2>1, <2>2, <2>3, <2>4 DEF ProgramTypes
<1>4. ItemTypes
  BY DEF Init, ItemTypes
<1>5. VariableTypes
  BY DEF Init, VariableTypes, NothingShown, Readings
<1>6. PlacesKnown
  BY DEF Init, PlacesKnown, Place, HostLines, WorkerPlaces
<1> QED BY <1>1, <1>2, <1>3, <1>4, <1>5, <1>6

\* Every variable of the terminal client, the debugger and the program keeps its type,
\* and ids of breakpoints are never used twice.
THEOREM TypeCorrect == Spec => []TypeOK
<1> DEFINE Inv == /\ LaunchInv /\ DwarfInv /\ BreakpointInv /\ PlacesKnown
                  /\ SessionTypes /\ BreakpointTypes /\ ProgramTypes /\ ItemTypes /\ VariableTypes
<1>1. Init => Inv
  BY LaunchInit, TypesInit DEF Init, BreakpointInv, KernelRuns, LaunchInv
<1>2. Inv /\ [Next]_vars => Inv'
  BY LaunchStep, BreakpointStep, PlacesStep, SessionTypesStep, BreakpointTypesStep,
     ProgramTypesStep, ItemTypesStep, VariableTypesStep
<1>3. Inv => TypeOK
  BY TypesTogether
<1> HIDE DEF Inv
<1> QED BY <1>1, <1>2, <1>3, PTL DEF Spec

================================================================================
