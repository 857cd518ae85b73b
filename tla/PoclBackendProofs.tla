--------------------------- MODULE PoclBackendProofs ---------------------------
(***************************************************************************)
(* Proofs about the CPU backend, for any number of workers, kernels, work- *)
(* groups and breakpoints and every line table: its ids and the debugger's *)
(* agree, a kernel line that is broken at stops, and the loop that hides   *)
(* the debugger's own stops hides no others.                               *)
(***************************************************************************)
EXTENDS PoclBackend, LeastElement

-----------------------------------------------------------------------------
(* The invariant.                                                          *)

MainPlaces == {"start", "host", "enqueue", "waiting"}
WorkerPlaces == {"idle", "dispatch", "entry", "body", "line"}
Addresses == [module : {HostExe, 0} \cup Kernels, line : Nat]
Breakpoints == [id : Nat, file : {"kernel", "host"}, line : Nat \ {0}, address : Addresses]

\* The types, also of what TypeOK leaves out.
Types ==
    /\ TypeOK
    /\ pending_bps \in [1 .. MaxBps -> Locations \cup {Unset}] /\ next_bp_id \in 1 .. MaxBps + 1
    /\ dbg \in BOOLEAN
    /\ ocl_breakpoints \subseteq Breakpoints /\ next_ocl_bp_id \in Nat
    /\ line \in [Threads -> Nat] /\ groups \in Nat
    /\ kernel \in 0 .. Len(CodeLines) /\ loaded \in 0 .. Len(CodeLines)

\* Where the main thread is, and what that says of the workers.
HostInv ==
    /\ place[main] \in MainPlaces /\ \A t \in Workers : place[t] \in WorkerPlaces
    /\ place[main] # "waiting" => KernelDone
    /\ place[main] = "start" => kernel = 0
    /\ place[main] \in {"start", "host"} => kernel < Len(CodeLines)
    /\ place[main] \in {"enqueue", "waiting"} => kernel > 0
    /\ place[main] = "waiting" => loaded = kernel
    /\ process = "none" => place[main] = "start"
    /\ ~dbg => process = "none"
    /\ pc = "handle" => process = "stopped"
    /\ pc = "wait" => process \in {"running", "gone"}

\* Threads have a stop reason only where there is a breakpoint or a line.
StopInv ==
    /\ pc = "handle" => Stopped # {}
    /\ reason[main] # "none" => place[main] \in {"host", "enqueue"}
    /\ \A t \in Workers : reason[t] # "none" => place[t] \in {"dispatch", "entry", "line"}
    /\ pc # "idle" /\ reason[main] = "breakpoint" /\ place[main] = "host" =>
         IsUserSite("host", line[main])

\* Without a step, the first kernel does not get past the place where it is
\* enqueued before its launch is inferred.
LaunchInv ==
    "step" \notin past =>
      /\ call = "resume"
      /\ launch_info = "none" /\ kernel > 0 =>
           /\ place[main] = "enqueue" /\ reason[main] = "breakpoint"
           /\ pc # "idle" /\ process # "gone"

\* A breakpoint that is resolved is at its line.
Placed(bp) ==
    bp.address # Unresolved =>
      \/ bp.file = "host" /\ bp.address = Address(HostExe, bp.line)
      \/ /\ bp.file = "kernel" /\ loaded > 0
         /\ bp.line \in CodeLines[1] /\ bp.address = Address(1, bp.line)

\* A breakpoint that is pending has no line to be placed at.
NoLine(bp) == bp.address = Unresolved => bp.file = "kernel" /\ source_to_line(bp.line) = 0

InBody == \E t \in Workers : place[t] \in {"body", "line"}

AddressInv ==
    /\ \A bp \in ocl_breakpoints : Placed(bp)
    /\ InBody => \A bp \in ocl_breakpoints : NoLine(bp)

\* Both ends count alike, as long as the client's ids are without a gap when
\* the program is launched.
IdInv ==
    "removal" \notin past =>
      /\ dbg => next_ocl_bp_id = next_bp_id
      /\ \A id \in 1 .. MaxBps : id >= next_bp_id => pending_bps[id] = Unset
      /\ ~dbg => \A id \in 1 .. MaxBps : id < next_bp_id => pending_bps[id] # Unset

-----------------------------------------------------------------------------
(* Lines and breakpoints.                                                  *)

\* Kernel 1 is there, and its lines are positive.
LEMMA FirstKernel == 1 \in Kernels /\ \A k \in Kernels : CodeLines[k] \subseteq Nat \ {0}
<1>1. CodeLines \in Seq(SUBSET (Nat \ {0})) /\ CodeLines # <<>>
  BY CodeAssumption
<1>2. Kernels = 1 .. Len(CodeLines) /\ Len(CodeLines) \in Nat
  BY <1>1 DEF Kernels
<1>3. Len(CodeLines) # 0
  BY <1>1
<1> QED BY <1>1, <1>2, <1>3

\* source_to_pcs() finds a line of the kernel, and a line that has code at itself.
LEMMA LineFound ==
    ASSUME kernel_mod = 1, NEW l \in Nat \ {0}
    PROVE  /\ source_to_line(l) \in {0} \cup CodeLines[1]
           /\ l \in CodeLines[1] => source_to_line(l) = l
<1> DEFINE after == {c \in CodeLines[1] : c >= l}
<1>1. after \subseteq Nat
  BY FirstKernel
<1>2. source_to_line(l) = IF after = {} THEN 0 ELSE CHOOSE c \in after : \A other \in after : c <= other
  BY DEF source_to_line
<1>3. CASE after = {}
  BY <1>2, <1>3
<1>4. CASE after # {}
  <2>1. \E c \in after : \A other \in after : c <= other
    BY <1>1, <1>4, LeastExists
  <2>2. source_to_line(l) \in after /\ \A other \in after : source_to_line(l) <= other
    BY <1>2, <1>4, <2>1
  <2>3. ASSUME l \in CodeLines[1] PROVE source_to_line(l) = l
    BY <1>1, <2>2, <2>3
  <2> QED BY <2>2, <2>3
<1> QED BY <1>3, <1>4

\* The module that is looked at is the first kernel's or none.
LEMMA ModuleKnown ==
    ASSUME loaded \in 0 .. Len(CodeLines)
    PROVE  /\ kernel_mod \in {0, 1} /\ kernel_mod \in {0} \cup Kernels
           /\ kernel_mod = 1 <=> loaded > 0
BY FirstKernel DEF kernel_mod

\* What resolving does to a breakpoint.
LEMMA ResolvedFields ==
    ASSUME NEW bp \in Breakpoints, loaded \in 0 .. Len(CodeLines)
    PROVE  /\ Resolved(bp) \in Breakpoints
           /\ Resolved(bp).id = bp.id /\ Resolved(bp).file = bp.file
           /\ bp.file = "host" => Resolved(bp).line = bp.line
                                  /\ Resolved(bp).address = Address(HostExe, bp.line)
           /\ bp.file = "kernel" =>
                IF kernel_mod = 1 /\ source_to_line(bp.line) # 0
                THEN /\ Resolved(bp).line = source_to_line(bp.line)
                     /\ Resolved(bp).address = Address(1, source_to_line(bp.line))
                ELSE Resolved(bp) = bp
<1>1. bp.line \in Nat \ {0} /\ bp.file \in {"kernel", "host"} /\ kernel_mod \in {0, 1}
  BY ModuleKnown DEF Breakpoints
<1>2. CASE bp.file = "host"
  <2>1. Resolved(bp) = [bp EXCEPT !.address = Address(HostExe, bp.line)]
    BY <1>2 DEF Resolved
  <2>2. Address(HostExe, bp.line) \in Addresses
    BY <1>1 DEF Address, Addresses
  <2> QED BY <1>2, <2>1, <2>2 DEF Breakpoints
<1>3. CASE bp.file = "kernel" /\ kernel_mod = 1 /\ source_to_line(bp.line) # 0
  <2> DEFINE l == source_to_line(bp.line)
  <2>1. Resolved(bp) = [bp EXCEPT !.line = l, !.address = Address(1, l)]
    BY <1>3 DEF Resolved
  <2>2. l \in Nat \ {0} /\ 1 \in Kernels
    BY <1>1, <1>3, LineFound, FirstKernel
  <2> HIDE DEF l
  <2>3. Address(1, l) \in Addresses
    BY <2>2 DEF Address, Addresses
  <2> QED BY <1>3, <2>1, <2>2, <2>3 DEF Breakpoints, l
<1>4. CASE bp.file = "kernel" /\ (kernel_mod = 0 \/ source_to_line(bp.line) = 0)
  BY <1>4 DEF Resolved
<1> QED BY <1>1, <1>2, <1>3, <1>4

\* The breakpoints that resolving leaves, and what each was before.
LEMMA ResolvePending ==
    ASSUME NEW bps \in SUBSET Breakpoints, loaded \in 0 .. Len(CodeLines)
    PROVE  /\ resolve_pending(bps) \subseteq Breakpoints
           /\ \A bp \in bps :
                (IF bp.address = Unresolved THEN Resolved(bp) ELSE bp) \in resolve_pending(bps)
           /\ \A new \in resolve_pending(bps) : \E bp \in bps :
                /\ new = IF bp.address = Unresolved THEN Resolved(bp) ELSE bp
                /\ new.id = bp.id /\ new.file = bp.file
BY ResolvedFields DEF resolve_pending

\* Resolving puts breakpoints at their lines, and once the first kernel's module
\* is loaded leaves only those pending that have none.
LEMMA ResolvingPlaces ==
    ASSUME NEW bps \in SUBSET Breakpoints, loaded \in 0 .. Len(CodeLines),
           \A bp \in bps : Placed(bp)
    PROVE  /\ \A new \in resolve_pending(bps) : Placed(new)
           /\ loaded > 0 => \A new \in resolve_pending(bps) : NoLine(new)
<1>1. ASSUME NEW bp \in bps, bp.address = Unresolved
      PROVE  Placed(Resolved(bp)) /\ (loaded > 0 => NoLine(Resolved(bp)))
  <2>1. bp \in Breakpoints /\ bp.line \in Nat \ {0} /\ bp.file \in {"kernel", "host"}
    BY DEF Breakpoints
  <2>2. kernel_mod = 1 <=> loaded > 0
    BY ModuleKnown
  <2>3. CASE bp.file = "host"
    <3>1. Address(HostExe, bp.line) # Unresolved
      BY <2>1 DEF Address, Unresolved, HostExe
    <3> QED BY <2>1, <2>3, <3>1, ResolvedFields DEF Placed, NoLine
  <2>4. CASE bp.file = "kernel" /\ kernel_mod = 1 /\ source_to_line(bp.line) # 0
    <3> DEFINE l == source_to_line(bp.line)
    <3>1. l \in CodeLines[1] /\ l # 0
      BY <2>1, <2>4, LineFound
    <3>2. /\ Resolved(bp).file = "kernel" /\ Resolved(bp).line = l
          /\ Resolved(bp).address = Address(1, l)
      BY <2>1, <2>4, ResolvedFields
    <3>3. Address(1, l) # Unresolved
      BY <3>1 DEF Address, Unresolved
    <3> HIDE DEF l
    <3> QED BY <2>2, <2>4, <3>1, <3>2, <3>3 DEF Placed, NoLine
  <2>5. CASE bp.file = "kernel" /\ ~(kernel_mod = 1 /\ source_to_line(bp.line) # 0)
    BY <1>1, <2>1, <2>2, <2>5, ResolvedFields DEF Placed, NoLine
  <2> QED BY <2>1, <2>3, <2>4, <2>5
<1>2. ASSUME NEW bp \in bps, bp.address # Unresolved PROVE NoLine(bp)
  BY <1>2 DEF NoLine
<1> QED
  <2>1. \A new \in resolve_pending(bps) : \E bp \in bps :
          new = IF bp.address = Unresolved THEN Resolved(bp) ELSE bp
    BY ResolvePending
  <2> QED BY <1>1, <1>2, <2>1

\* What is broken at stays broken at.
LEMMA SitesKept ==
    ASSUME Types, ocl_breakpoints' \in {ocl_breakpoints, resolve_pending(ocl_breakpoints)}
    PROVE  UserAddresses \subseteq UserAddresses'
<1>1. \A bp \in ocl_breakpoints : bp.address # Unresolved => bp \in ocl_breakpoints'
  <2>1. ocl_breakpoints \in SUBSET Breakpoints /\ loaded \in 0 .. Len(CodeLines)
    BY DEF Types
  <2> QED BY <2>1, ResolvePending
<1> QED BY <1>1 DEF UserAddresses

\* A line of the host is broken at if its address is.
LEMMA HostSite == \A l : IsUserSite("host", l) <=> Address(HostExe, l) \in UserAddresses
BY DEF IsUserSite

-----------------------------------------------------------------------------
(* The steps of the program.                                               *)

\* The main thread is none of the workers.
LEMMA ThreadFacts ==
    /\ main \in Threads /\ Workers \subseteq Threads /\ main \notin Workers
    /\ Threads = {main} \cup Workers /\ Threads \subseteq Nat /\ Nobody \notin Threads
BY CountAssumption DEF main, Workers, Threads, Nobody

\* A thread went on to a place, and the others did not move.
Moved(t, pl, l) ==
    /\ pc = "wait" /\ process = "running"
    /\ UNCHANGED <<pc, call, launchVars, stepping, shown, process, past>>
    /\ reason[t] = "none" /\ place'[t] = pl /\ line'[t] = l
    /\ reason'[t] = "breakpoint" <=> HasBreakpoint(pl, l)
    /\ reason'[t] # "none" => HasBreakpoint(pl, l) \/ pl \in SourcePlaces
    /\ \A u \in Threads \ {t} :
         place'[u] = place[u] /\ line'[u] = line[u] /\ reason'[u] = reason[u]

Places == MainPlaces \cup WorkerPlaces
Reasons == {"none", "breakpoint", "step", "signal"}

\* What Go() does, of a place there is.
LEMMA GoMoves ==
    ASSUME Types, NEW t \in Threads, NEW pl \in Places, NEW l \in Nat, Go(t, pl, l)
    PROVE  /\ Moved(t, pl, l)
           /\ place' \in [Threads -> Places] /\ line' \in [Threads -> Nat]
           /\ reason' \in [Threads -> Reasons]
<1>1. place \in [Threads -> Places] /\ line \in [Threads -> Nat] /\ reason \in [Threads -> Reasons]
  BY DEF Types, TypeOK, Places, Reasons, MainPlaces, WorkerPlaces
<1>2. /\ place' = [place EXCEPT ![t] = pl] /\ line' = [line EXCEPT ![t] = l]
      /\ reason' = [reason EXCEPT ![t] =
           IF HasBreakpoint(pl, l) THEN "breakpoint"
           ELSE IF t = stepping /\ pl \in SourcePlaces THEN "step" ELSE "none"]
  BY DEF Go
<1>3. /\ place' \in [Threads -> Places] /\ line' \in [Threads -> Nat]
      /\ reason' \in [Threads -> Reasons]
  BY <1>1, <1>2 DEF Reasons
<1>4. /\ place'[t] = pl /\ line'[t] = l
      /\ reason'[t] = IF HasBreakpoint(pl, l) THEN "breakpoint"
                      ELSE IF t = stepping /\ pl \in SourcePlaces THEN "step" ELSE "none"
      /\ \A u \in Threads \ {t} :
           place'[u] = place[u] /\ line'[u] = line[u] /\ reason'[u] = reason[u]
  BY <1>1, <1>2
<1> QED BY <1>3, <1>4 DEF Moved, Go

\* Which step the program makes, and of whom.
LEMMA ProgramSteps ==
    ASSUME Types, HostInv, Program
    PROVE  /\ place' \in [Threads -> Places] /\ line' \in [Threads -> Nat]
           /\ reason' \in [Threads -> Reasons] /\ groups' \in Nat
           /\ \/ HostRuns /\ Moved(main, "host", HostLine)
              \/ Enqueue /\ Moved(main, "enqueue", 0)
              \/ StartKernel /\ Moved(main, "waiting", 0)
              \/ HostExits
              \/ \E t \in Workers :
                   \/ TakeGroup(t) /\ Moved(t, "dispatch", 0)
                   \/ EnterKernel(t) /\ Moved(t, "entry", 0)
                   \/ EnterBody(t) /\ Moved(t, "body", 0)
                   \/ NextLine(t) /\ \E l \in CodeLines[kernel] : l \in Nat /\ l > line[t] /\ Moved(t, "line", l)
                   \/ LeaveKernel(t) /\ Moved(t, "idle", 0)
                   \/ Fault(t)
<1>1. place \in [Threads -> Places] /\ line \in [Threads -> Nat] /\ reason \in [Threads -> Reasons]
      /\ groups \in Nat /\ MaxGroups \in Nat /\ main \in Threads /\ Workers \subseteq Threads
  BY ThreadFacts, CountAssumption DEF Types, TypeOK, Places, Reasons, MainPlaces, WorkerPlaces
<1>2. CASE HostRuns
  BY <1>1, <1>2, GoMoves DEF HostRuns, Places, MainPlaces, HostLine
<1>3. CASE Enqueue
  BY <1>1, <1>3, GoMoves DEF Enqueue, Places, MainPlaces
<1>4. CASE StartKernel
  BY <1>1, <1>4, GoMoves DEF StartKernel, Places, MainPlaces
<1>5. CASE HostExits
  BY <1>1, <1>5 DEF HostExits, hostVars
<1>6. ASSUME NEW t \in Workers,
             TakeGroup(t) \/ EnterKernel(t) \/ EnterBody(t) \/ NextLine(t) \/ LeaveKernel(t) \/ Fault(t)
      PROVE  /\ place' \in [Threads -> Places] /\ line' \in [Threads -> Nat]
             /\ reason' \in [Threads -> Reasons] /\ groups' \in Nat
             /\ \/ TakeGroup(t) /\ Moved(t, "dispatch", 0)
                \/ EnterKernel(t) /\ Moved(t, "entry", 0)
                \/ EnterBody(t) /\ Moved(t, "body", 0)
                \/ NextLine(t) /\ \E l \in CodeLines[kernel] : l \in Nat /\ l > line[t] /\ Moved(t, "line", l)
                \/ LeaveKernel(t) /\ Moved(t, "idle", 0)
                \/ Fault(t)
  <2>0. t \in Threads
    BY <1>1
  <2>1. CASE TakeGroup(t)
    <3>1. groups' \in Nat
      BY <1>1, <2>1 DEF TakeGroup
    <3> QED BY <2>0, <2>1, <3>1, GoMoves DEF TakeGroup, Places, WorkerPlaces
  <2>2. CASE EnterKernel(t)
    BY <1>1, <2>0, <2>2, GoMoves DEF EnterKernel, Places, WorkerPlaces
  <2>3. CASE EnterBody(t)
    BY <1>1, <2>0, <2>3, GoMoves DEF EnterBody, Places, WorkerPlaces
  <2>4. CASE NextLine(t)
    <3>1. PICK l \in CodeLines[kernel] : l > line[t] /\ Go(t, "line", l)
      BY <2>4 DEF NextLine
    <3>2. place[main] = "waiting"
      BY <2>4 DEF HostInv, KernelDone, NextLine
    <3>3. kernel \in Kernels
      BY <3>2, FirstKernel, CodeAssumption DEF HostInv, Types, Kernels
    <3>4. l \in Nat
      BY <3>3, FirstKernel
    <3> QED BY <1>1, <2>0, <2>4, <3>1, <3>4, GoMoves DEF NextLine, Places, WorkerPlaces
  <2>5. CASE LeaveKernel(t)
    BY <1>1, <2>0, <2>5, GoMoves DEF LeaveKernel, Places, WorkerPlaces
  <2>6. CASE Fault(t)
    BY <1>1, <2>6 DEF Fault, hostVars, Reasons
  <2> QED BY <1>6, <2>1, <2>2, <2>3, <2>4, <2>5, <2>6
<1> QED BY <1>2, <1>3, <1>4, <1>5, <1>6 DEF Program


\* What no step of the program changes.
LEMMA ProgramLeaves ==
    ASSUME Program
    PROVE  /\ UNCHANGED <<pc, call, pending_bps, next_bp_id, dbg, next_ocl_bp_id>>
           /\ UNCHANGED <<launchVars, stepping, shown, past>>
           /\ pc = "wait" /\ process = "running" /\ process' \in {"running", "gone"}
           /\ ocl_breakpoints' \in {ocl_breakpoints, resolve_pending(ocl_breakpoints)}
BY DEF Program, HostRuns, Enqueue, StartKernel, HostExits, TakeGroup, EnterKernel, EnterBody,
       NextLine, LeaveKernel, Fault, Go, Running, bpVars, hostVars

\* The program's steps keep the types.
LEMMA ProgramTypes == ASSUME Types, HostInv, Program PROVE Types'
<1>1. /\ place' \in [Threads -> Places] /\ line' \in [Threads -> Nat]
      /\ reason' \in [Threads -> Reasons] /\ groups' \in Nat
  BY ProgramSteps
<1>2. kernel' \in 0 .. Len(CodeLines) /\ loaded' \in 0 .. Len(CodeLines)
  <2>1. kernel \in 0 .. Len(CodeLines) /\ loaded \in 0 .. Len(CodeLines) /\ Len(CodeLines) \in Nat
    BY CodeAssumption DEF Types
  <2>2. CASE Enqueue
    BY <2>1, <2>2 DEF Enqueue, HostInv
  <2>3. CASE StartKernel
    BY <2>1, <2>3 DEF StartKernel
  <2>4. CASE kernel' = kernel /\ loaded' = loaded
    BY <2>1, <2>4
  <2> QED
    BY <2>2, <2>3, <2>4 DEF Program, HostRuns, HostExits, TakeGroup, EnterKernel, EnterBody,
         NextLine, LeaveKernel, Fault, hostVars
<1>3. ocl_breakpoints' \subseteq Breakpoints /\ \A bp \in ocl_breakpoints' : bp.id < next_ocl_bp_id
  <2>1. ocl_breakpoints \in SUBSET Breakpoints /\ loaded \in 0 .. Len(CodeLines)
        /\ \A bp \in ocl_breakpoints : bp.id < next_ocl_bp_id
    BY DEF Types, TypeOK
  <2>2. /\ resolve_pending(ocl_breakpoints) \subseteq Breakpoints
        /\ \A new \in resolve_pending(ocl_breakpoints) : \E bp \in ocl_breakpoints : new.id = bp.id
    BY <2>1, ResolvePending
  <2>3. \A bp \in resolve_pending(ocl_breakpoints) : bp.id < next_ocl_bp_id
    BY <2>1, <2>2
  <2> QED BY <2>1, <2>2, <2>3, ProgramLeaves
<1>4. \A bp \in ocl_breakpoints' : bp.address.module \in {HostExe, 0} \cup Kernels
  BY <1>3 DEF Breakpoints, Addresses
<1>5. TypeOK'
  <2>1. /\ UNCHANGED <<pc, call, pending_bps, launchVars, stepping, shown, next_ocl_bp_id>>
        /\ process' \in {"running", "gone"}
    BY ProgramLeaves
  <2>2. place' \in [Threads -> Places] /\ reason' \in [Threads -> Reasons]
    BY <1>1
  <2>3. TypeOK
    BY DEF Types
  <2> QED
    BY <1>3, <1>4, <2>1, <2>2, <2>3
    DEF TypeOK, Places, MainPlaces, WorkerPlaces, Reasons, launchVars
<1> QED BY <1>1, <1>2, <1>3, <1>5, ProgramLeaves DEF Types

\* ... and where the main thread and the workers are.
LEMMA ProgramHost == ASSUME Types, HostInv, Program PROVE HostInv'
<1>1. /\ kernel \in Nat /\ Len(CodeLines) \in Nat /\ kernel <= Len(CodeLines) /\ Len(CodeLines) > 0
      /\ groups \in Nat
  BY FirstKernel, CodeAssumption DEF Types, Kernels
<1>2. process = "running" /\ process' \in {"running", "gone"} /\ pc' = "wait" /\ dbg'
  BY ProgramLeaves DEF HostInv
<1>3. CASE HostRuns /\ Moved(main, "host", HostLine)
  BY <1>1, <1>2, <1>3, ThreadFacts
  DEF HostInv, HostRuns, Moved, MainPlaces, WorkerPlaces, KernelDone
<1>4. CASE Enqueue /\ Moved(main, "enqueue", 0)
  BY <1>1, <1>2, <1>4, ThreadFacts
  DEF HostInv, Enqueue, Moved, MainPlaces, WorkerPlaces, KernelDone
<1>5. CASE StartKernel /\ Moved(main, "waiting", 0)
  BY <1>1, <1>2, <1>5, ThreadFacts
  DEF HostInv, StartKernel, Moved, MainPlaces, WorkerPlaces, KernelDone
<1>6. CASE HostExits
  BY <1>1, <1>2, <1>6 DEF HostInv, HostExits, hostVars, KernelDone
<1>7. ASSUME NEW t \in Workers, NEW pl \in WorkerPlaces, NEW l, Moved(t, pl, l),
             UNCHANGED <<kernel, loaded>>,
             groups' = groups \/ (groups' = groups - 1 /\ groups > 0),
             place[main] = "waiting"
      PROVE  HostInv'
  <2>1. place'[main] = "waiting"
    BY <1>7, ThreadFacts DEF Moved
  <2>2. \A u \in Workers : place'[u] \in WorkerPlaces
    BY <1>7, ThreadFacts DEF Moved, HostInv
  <2> QED BY <1>2, <1>7, <2>1, <2>2 DEF HostInv, MainPlaces
<1>8. ASSUME NEW t \in Workers, TakeGroup(t) \/ EnterKernel(t) \/ EnterBody(t) \/ NextLine(t)
             \/ LeaveKernel(t)
      PROVE  /\ UNCHANGED <<kernel, loaded>> /\ place[main] = "waiting"
             /\ groups' = groups \/ (groups' = groups - 1 /\ groups > 0)
  <2>1. place[t] # "idle" \/ groups > 0
    BY <1>8 DEF TakeGroup, EnterKernel, EnterBody, NextLine, LeaveKernel
  <2>2. place[main] = "waiting"
    BY <1>1, <2>1 DEF HostInv, KernelDone
  <2> QED BY <1>8, <2>2 DEF TakeGroup, EnterKernel, EnterBody, NextLine, LeaveKernel
<1>9. ASSUME NEW t \in Workers, Fault(t) PROVE HostInv'
  BY <1>2, <1>9 DEF HostInv, Fault, hostVars, KernelDone
<1> QED
  <2> HIDE DEF WorkerPlaces
  <2>1. {"dispatch", "entry", "body", "line", "idle"} \subseteq WorkerPlaces
    BY DEF WorkerPlaces
  <2> QED BY <1>3, <1>4, <1>5, <1>6, <1>7, <1>8, <1>9, <2>1, ProgramSteps

\* Threads still have a reason only where there is one.
LEMMA ProgramStops == ASSUME Types, HostInv, StopInv, Program PROVE StopInv'
<1>1. pc = "wait" /\ pc' = "wait"
  BY ProgramLeaves
<1>2. UserAddresses \subseteq UserAddresses'
  BY ProgramLeaves, SitesKept
<1>3. CASE HostRuns /\ Moved(main, "host", HostLine)
  <2>1. reason'[main] = "breakpoint" => IsUserSite("host", HostLine)'
    <3>1. UserAddresses' = UserAddresses
      BY <1>3 DEF HostRuns, bpVars, UserAddresses
    <3>2. HasBreakpoint("host", HostLine) <=> IsUserSite("host", HostLine)
      BY DEF HasBreakpoint
    <3>3. Address(HostExe, HostLine) \in UserAddresses => IsUserSite("host", HostLine)'
      BY <3>1 DEF IsUserSite
    <3> QED BY <1>3, <3>2, <3>3, HostSite DEF Moved
  <2>2. line'[main] = HostLine /\ place'[main] = "host"
    BY <1>3 DEF Moved
  <2>3. \A t \in Workers : place'[t] = place[t] /\ reason'[t] = reason[t]
    BY <1>3, ThreadFacts DEF Moved
  <2> QED BY <1>1, <2>1, <2>2, <2>3 DEF StopInv
<1>4. CASE Enqueue /\ Moved(main, "enqueue", 0)
  BY <1>1, <1>4, ThreadFacts DEF StopInv, Moved
<1>5. CASE StartKernel /\ Moved(main, "waiting", 0)
  BY <1>1, <1>5, ThreadFacts DEF StopInv, Moved, HasBreakpoint, IsUserSite, SourcePlaces
<1>6. ASSUME \A t \in Threads : place'[t] = place[t] /\ line'[t] = line[t]
                                /\ (reason'[t] = reason[t] \/ (t \in Workers /\ place[t] = "line"))
      PROVE  StopInv'
  <2>1. reason'[main] = reason[main] /\ place'[main] = place[main] /\ line'[main] = line[main]
    BY <1>6, ThreadFacts
  <2>2. \A t \in Workers : reason'[t] # "none" => place'[t] \in {"dispatch", "entry", "line"}
    BY <1>6, ThreadFacts DEF StopInv
  <2>3. Address(HostExe, line[main]) \in UserAddresses => IsUserSite("host", line[main])'
    BY <1>2, <2>1 DEF IsUserSite
  <2> QED BY <1>1, <2>1, <2>2, <2>3, HostSite DEF StopInv
<1>7. CASE HostExits
  BY <1>6, <1>7 DEF HostExits, hostVars
<1>8. ASSUME NEW t \in Workers, Fault(t) PROVE StopInv'
  <2>1. \A u \in Threads : u # t => reason'[u] = reason[u]
    BY <1>8 DEF Fault, Types, TypeOK
  <2> QED BY <1>6, <1>8, <2>1 DEF Fault, hostVars
<1>9. ASSUME NEW t \in Workers, NEW pl \in WorkerPlaces, NEW l, Moved(t, pl, l) PROVE StopInv'
  <2>1. reason'[main] = reason[main] /\ place'[main] = place[main] /\ line'[main] = line[main]
    BY <1>9, ThreadFacts DEF Moved
  <2>2. \A u \in Workers : reason'[u] # "none" => place'[u] \in {"dispatch", "entry", "line"}
    BY <1>9, ThreadFacts
    DEF Moved, StopInv, WorkerPlaces, HasBreakpoint, IsUserSite, SourcePlaces
  <2>3. Address(HostExe, line[main]) \in UserAddresses => IsUserSite("host", line[main])'
    BY <1>2, <2>1 DEF IsUserSite
  <2> QED BY <1>1, <2>1, <2>2, <2>3, HostSite DEF StopInv
<1> QED
  <2> HIDE DEF WorkerPlaces
  <2>1. {"dispatch", "entry", "body", "line", "idle"} \subseteq WorkerPlaces
    BY DEF WorkerPlaces
  <2> QED BY <1>3, <1>4, <1>5, <1>7, <1>8, <1>9, <2>1, ProgramSteps

\* The first kernel stays where it is enqueued until the launch is inferred.
LEMMA ProgramLaunch == ASSUME Types, HostInv, LaunchInv, Program PROVE LaunchInv'
<1> SUFFICES ASSUME "step" \notin past PROVE LaunchInv'
  BY ProgramLeaves DEF LaunchInv
<1>1. /\ call = "resume" /\ UNCHANGED <<call, launch_info, past>> /\ pc' = "wait"
      /\ kernel \in Nat /\ process' \in {"running", "gone"}
  BY ProgramLeaves DEF LaunchInv, launchVars, Types
<1>2. CASE launch_info # "none"
  BY <1>1, <1>2 DEF LaunchInv
<1>3. CASE launch_info = "none" /\ kernel = 0
  <2>1. place[main] \in {"start", "host"}
    BY <1>3 DEF HostInv, MainPlaces
  <2>2. \A t \in Workers : place[t] = "idle" /\ groups = 0
    BY <2>1 DEF HostInv, KernelDone
  <2>3. CASE HostRuns
    BY <1>1, <1>3, <2>3 DEF HostRuns, LaunchInv
  <2>4. CASE Enqueue /\ Moved(main, "enqueue", 0)
    BY <1>1, <1>3, <2>4 DEF Moved, LaunchInv, HasBreakpoint
  <2> QED
    BY <2>1, <2>2, <2>3, <2>4, ProgramSteps
    DEF StartKernel, HostExits, TakeGroup, EnterKernel, EnterBody, NextLine, LeaveKernel, Fault
<1>4. CASE launch_info = "none" /\ kernel > 0
  <2>1. place[main] = "enqueue" /\ reason[main] = "breakpoint"
    BY <1>4 DEF LaunchInv
  <2>2. \A t \in Workers : place[t] = "idle" /\ groups = 0
    BY <2>1 DEF HostInv, KernelDone
  <2> QED
    BY <2>1, <2>2, ProgramSteps
    DEF Moved, HostExits, TakeGroup, EnterKernel, EnterBody, NextLine, LeaveKernel, Fault
<1> QED BY <1>1, <1>2, <1>3, <1>4

\* Modules are loaded and stay so.
LEMMA StaysPlaced ==
    ASSUME loaded > 0 => loaded' > 0, NEW bp, Placed(bp) PROVE Placed(bp)'
BY DEF Placed

\* As long as no other module is loaded, there are the same lines.
LEMMA StaysWithoutLine ==
    ASSUME loaded' = loaded, NEW bp, NoLine(bp) PROVE NoLine(bp)'
<1>1. kernel_mod' = kernel_mod
  BY DEF kernel_mod
<1>2. source_to_line(bp.line)' = source_to_line(bp.line)
  BY <1>1 DEF source_to_line
<1> QED BY <1>2 DEF NoLine

\* Breakpoints stay at their lines, and are put there before a line is reached.
LEMMA ProgramAddresses == ASSUME Types, HostInv, AddressInv, Program PROVE AddressInv'
<1>1. ocl_breakpoints \in SUBSET Breakpoints /\ loaded \in 0 .. Len(CodeLines)
  BY DEF Types
<1>2. \A bp \in ocl_breakpoints : Placed(bp)
  BY DEF AddressInv
<1>3. /\ \A bp \in resolve_pending(ocl_breakpoints) : Placed(bp)
      /\ loaded > 0 => \A bp \in resolve_pending(ocl_breakpoints) : NoLine(bp)
  BY <1>1, <1>2, ResolvingPlaces
<1>4. \A bp \in ocl_breakpoints' : Placed(bp)
  BY <1>2, <1>3, ProgramLeaves
<1>5. loaded > 0 => loaded' > 0
  BY DEF Program, HostRuns, Enqueue, StartKernel, HostExits, TakeGroup, EnterKernel, EnterBody,
         NextLine, LeaveKernel, Fault, hostVars, HostInv
<1>6. ASSUME InBody' PROVE \A bp \in ocl_breakpoints' : NoLine(bp)'
  <2>1. /\ place[main] = "waiting" /\ loaded' = loaded /\ loaded > 0
        /\ InBody \/ ocl_breakpoints' = resolve_pending(ocl_breakpoints)
    <3>1. PICK t \in Workers : place'[t] \in {"body", "line"}
      BY <1>6 DEF InBody
    <3>2. place[main] = "waiting" /\ (InBody \/ ocl_breakpoints' = resolve_pending(ocl_breakpoints))
      <4>1. CASE place[t] # "idle"
        <5>1. place[main] = "waiting"
          BY <4>1 DEF HostInv, KernelDone
        <5>2. CASE \E u \in Workers : EnterBody(u)
          BY <5>1, <5>2 DEF EnterBody
        <5>3. CASE \E u \in Workers : TakeGroup(u) /\ Moved(u, "dispatch", 0)
          BY <3>1, <5>1, <5>3, ThreadFacts DEF Moved, InBody
        <5>4. CASE \E u \in Workers : EnterKernel(u) /\ Moved(u, "entry", 0)
          BY <3>1, <5>1, <5>4, ThreadFacts DEF Moved, InBody
        <5>5. CASE \E u \in Workers : NextLine(u)
          BY <5>1, <5>5 DEF NextLine, InBody
        <5>6. CASE \E u \in Workers : LeaveKernel(u)
          BY <5>1, <5>6 DEF LeaveKernel, InBody
        <5>7. CASE \E u \in Workers : Fault(u)
          BY <5>1, <5>7 DEF Fault, InBody
        <5>8. CASE HostExits
          BY <3>1, <5>1, <5>8 DEF HostExits, hostVars, InBody
        <5>9. CASE Moved(main, "host", HostLine) \/ Moved(main, "waiting", 0)
          BY <3>1, <5>1, <5>9, ThreadFacts DEF Moved, InBody
        <5>10. ~Enqueue
          BY <5>1 DEF Enqueue
        <5> QED BY <5>2, <5>3, <5>4, <5>5, <5>6, <5>7, <5>8, <5>9, <5>10, ProgramSteps
      <4>2. CASE place[t] = "idle"
        BY <3>1, <4>2, ThreadFacts, ProgramSteps
        DEF Moved, HostExits, hostVars, EnterBody, NextLine, Fault
      <4> QED BY <4>1, <4>2
    <3>3. loaded > 0
      BY <3>2 DEF HostInv, Types
    <3>4. loaded' = loaded
      BY <3>2
      DEF Program, HostRuns, Enqueue, StartKernel, HostExits, TakeGroup, EnterKernel, EnterBody,
          NextLine, LeaveKernel, Fault, hostVars
    <3> QED BY <3>2, <3>3, <3>4
  <2>2. \A bp \in ocl_breakpoints' : NoLine(bp)
    BY <1>3, <2>1, ProgramLeaves DEF AddressInv
  <2> QED BY <2>1, <2>2, StaysWithoutLine
<1> QED BY <1>4, <1>5, <1>6, StaysPlaced DEF AddressInv

-----------------------------------------------------------------------------
(* The ids of the two ends.                                                *)

\* A breakpoint of the debugger is at a location of the client's.
Agrees(bp, loc) ==
    /\ bp.file = loc.file
    /\ bp.line \in {loc.line} \cup (IF kernel_mod = 0 THEN {} ELSE {source_to_line(loc.line)})

\* Breakpoints bps are, id by id, those that the client has set.
AgreeOn(bps, set) ==
    \A id \in DOMAIN set :
      IF set[id] # Unset THEN \E bp \in bps : bp.id = id /\ Agrees(bp, set[id])
                         ELSE \A bp \in bps : bp.id # id

\* IdsAgree in these words.
LEMMA IdsAgreeOn ==
    IdsAgree <=> (dbg /\ "removal" \notin past => AgreeOn(ocl_breakpoints, pending_bps))
<1>1. ASSUME NEW id \in DOMAIN pending_bps
      PROVE  (id \in Registered) <=> (pending_bps[id] # Unset)
  BY DEF Registered
<1> QED BY <1>1 DEF IdsAgree, AgreeOn, Agrees

\* A place there was is a place there is when the first module is loaded.
LEMMA StaysAgreed ==
    ASSUME kernel_mod' = kernel_mod \/ kernel_mod = 0, NEW bp, NEW loc, Agrees(bp, loc)
    PROVE  Agrees(bp, loc)'
<1>1. CASE kernel_mod' = kernel_mod
  <2>1. source_to_line(loc.line)' = source_to_line(loc.line)
    BY <1>1 DEF source_to_line
  <2> QED BY <1>1, <2>1 DEF Agrees
<1>2. CASE kernel_mod = 0
  BY <1>2 DEF Agrees
<1> QED BY <1>1, <1>2

\* ... and so after a step whose breakpoints are those set.
LEMMA IdsAgreeNext ==
    ASSUME NEW bps, bps = ocl_breakpoints', NEW set, set = pending_bps',
           kernel_mod' = kernel_mod \/ kernel_mod = 0,
           dbg' /\ "removal" \notin past' => AgreeOn(bps, set)
    PROVE  IdsAgree'
<1>1. ASSUME NEW id \in DOMAIN set
      PROVE  (id \in Registered') <=> (set[id] # Unset)
  BY DEF Registered
<1>2. \A bp, loc : Agrees(bp, loc) => Agrees(bp, loc)'
  BY StaysAgreed
<1>3. ASSUME dbg', "removal" \notin past'
      PROVE  \A id \in DOMAIN set :
               IF set[id] # Unset THEN \E bp \in bps : bp.id = id /\ Agrees(bp, set[id])'
                                  ELSE \A bp \in bps : bp.id # id
  BY <1>2, <1>3 DEF AgreeOn
<1> QED BY <1>1, <1>3 DEF IdsAgree, Agrees

\* Resolving a breakpoint, once or again, leaves it where it was set.
LEMMA ResolvedAgrees ==
    ASSUME NEW bp \in Breakpoints, NEW loc, loc.line \in Nat \ {0}, Agrees(bp, loc),
           loaded \in 0 .. Len(CodeLines)
    PROVE  Agrees(Resolved(bp), loc)
<1>1. /\ bp.line \in Nat \ {0} /\ bp.file \in {"kernel", "host"} /\ kernel_mod \in {0, 1}
      /\ bp.file = loc.file
  BY ModuleKnown DEF Breakpoints, Agrees
<1>2. CASE bp.file = "kernel" /\ kernel_mod = 1 /\ source_to_line(bp.line) # 0
  <2>1. Resolved(bp).line = source_to_line(bp.line) /\ Resolved(bp).file = bp.file
    BY <1>1, <1>2, ResolvedFields
  <2>2. source_to_line(bp.line) = source_to_line(loc.line)
    <3>1. CASE bp.line = loc.line
      BY <3>1
    <3>2. CASE bp.line = source_to_line(loc.line)
      <4>1. bp.line \in CodeLines[1]
        BY <1>1, <1>2, <3>2, LineFound
      <4> QED BY <1>1, <1>2, <3>2, <4>1, LineFound
    <3> QED BY <1>2, <3>1, <3>2 DEF Agrees
  <2> QED BY <1>1, <1>2, <2>1, <2>2 DEF Agrees
<1>3. CASE ~(bp.file = "kernel" /\ kernel_mod = 1 /\ source_to_line(bp.line) # 0)
  <2>1. Resolved(bp).line = bp.line /\ Resolved(bp).file = bp.file
    BY <1>1, <1>3, ResolvedFields
  <2> QED BY <2>1 DEF Agrees
<1> QED BY <1>2, <1>3

\* What the client sets breakpoints at.
LEMMA LocationFacts ==
    \A loc \in Locations : loc.file \in {"kernel", "host"} /\ loc.line \in Nat \ {0} /\ loc # Unset
BY LocationAssumption DEF Unset

\* Resolving all of them leaves the ids and the places.
LEMMA ResolvingAgrees ==
    ASSUME NEW bps \in SUBSET Breakpoints, loaded \in 0 .. Len(CodeLines),
           NEW set \in [1 .. MaxBps -> Locations \cup {Unset}], AgreeOn(bps, set)
    PROVE  AgreeOn(resolve_pending(bps), set)
<1> SUFFICES ASSUME NEW id \in 1 .. MaxBps
             PROVE  IF set[id] # Unset
                    THEN \E bp \in resolve_pending(bps) : bp.id = id /\ Agrees(bp, set[id])
                    ELSE \A bp \in resolve_pending(bps) : bp.id # id
  BY DEF AgreeOn
<1>1. CASE set[id] # Unset
  <2>1. PICK bp \in bps : bp.id = id /\ Agrees(bp, set[id])
    BY <1>1 DEF AgreeOn
  <2>2. set[id].line \in Nat \ {0}
    BY <1>1, LocationFacts
  <2>3. Agrees(Resolved(bp), set[id]) /\ Resolved(bp).id = id
    BY <2>1, <2>2, ResolvedAgrees, ResolvedFields
  <2> QED BY <1>1, <2>1, <2>3, ResolvePending
<1>2. CASE set[id] = Unset
  BY <1>2, ResolvePending DEF AgreeOn
<1> QED BY <1>1, <1>2

\* The program's steps leave the ids alone.
LEMMA ProgramIds ==
    ASSUME Types, HostInv, IdInv, IdsAgree, Program PROVE IdInv' /\ IdsAgree'
<1>1. IdInv'
  BY ProgramLeaves DEF IdInv
<1>2. kernel_mod' = kernel_mod \/ kernel_mod = 0
  BY DEF Program, HostRuns, Enqueue, StartKernel, HostExits, TakeGroup, EnterKernel, EnterBody,
         NextLine, LeaveKernel, Fault, hostVars, HostInv, Types, kernel_mod
<1>3. ASSUME dbg, "removal" \notin past
      PROVE  AgreeOn(ocl_breakpoints, pending_bps)
             /\ AgreeOn(resolve_pending(ocl_breakpoints), pending_bps)
  <2>1. AgreeOn(ocl_breakpoints, pending_bps)
    BY <1>3, IdsAgreeOn
  <2>2. /\ ocl_breakpoints \in SUBSET Breakpoints /\ loaded \in 0 .. Len(CodeLines)
        /\ pending_bps \in [1 .. MaxBps -> Locations \cup {Unset}]
    BY DEF Types
  <2> QED BY <2>1, <2>2, ResolvingAgrees
<1>4. dbg' /\ "removal" \notin past' => AgreeOn(ocl_breakpoints', pending_bps')
  BY <1>3, ProgramLeaves
<1> QED BY <1>1, <1>2, <1>4, IdsAgreeNext


-----------------------------------------------------------------------------
(* The steps of the debugger.                                              *)

Inv == Types /\ HostInv /\ StopInv /\ LaunchInv /\ AddressInv /\ IdInv /\ IdsAgree

\* Where neither the breakpoints nor the program change, they agree as before.
LEMMA SameBreakpoints ==
    ASSUME Inv, UNCHANGED <<bpVars, hostVars>>, "removal" \in past' <=> "removal" \in past
    PROVE  AddressInv' /\ IdInv' /\ IdsAgree'
<1>1. /\ UNCHANGED <<pending_bps, next_bp_id, dbg, ocl_breakpoints, next_ocl_bp_id>>
      /\ UNCHANGED <<place, line, kernel, loaded, groups>>
  BY DEF bpVars, hostVars
<1>2. AddressInv'
  <2>1. InBody' <=> InBody
    BY <1>1 DEF InBody
  <2>2. \A bp : (Placed(bp) => Placed(bp)') /\ (NoLine(bp) => NoLine(bp)')
    BY <1>1, StaysPlaced, StaysWithoutLine
  <2> QED BY <1>1, <2>1, <2>2 DEF Inv, AddressInv
<1>3. IdInv'
  BY <1>1 DEF Inv, IdInv
<1>4. IdsAgree'
  <2>1. kernel_mod' = kernel_mod
    BY <1>1 DEF kernel_mod
  <2>2. dbg' /\ "removal" \notin past' => AgreeOn(ocl_breakpoints', pending_bps')
    BY <1>1, IdsAgreeOn DEF Inv
  <2> QED BY <2>1, <2>2, IdsAgreeNext
<1> QED BY <1>2, <1>3, <1>4

\* The first thread of a stop is a thread.
LEMMA FirstStops ==
    ASSUME Stopped # {}
    PROVE  /\ First \in Stopped /\ First \in Threads
           /\ \A other \in Stopped : First <= other
<1>1. Stopped \subseteq Threads /\ Stopped \subseteq Nat
  BY ThreadFacts DEF Stopped
<1>2. \E t \in Stopped : \A other \in Stopped : t <= other
  BY <1>1, LeastExists
<1> QED BY <1>1, <1>2 DEF First

\* Continue() returns with the program stopped.
LEMMA StopKeeps == ASSUME Inv, Stop PROVE Inv'
<1>1. /\ pc' = "handle" /\ process = "running" /\ process' = "stopped" /\ Stopped # {}
      /\ UNCHANGED <<call, bpVars, launchVars, stepping, shown, hostVars, reason, past>>
  BY DEF Stop, Running
<1>2. Types'
  BY <1>1 DEF Inv, Types, TypeOK, bpVars, launchVars, hostVars
<1>3. HostInv'
  BY <1>1 DEF Inv, HostInv, KernelDone, bpVars, hostVars
<1>4. StopInv'
  <2>1. Stopped' = Stopped /\ UserAddresses' = UserAddresses /\ pc # "idle"
    BY <1>1 DEF Stopped, UserAddresses, bpVars, Stop, Running
  <2>2. IsUserSite("host", line[main]) => IsUserSite("host", line[main])'
    BY <1>1, <2>1 DEF IsUserSite, hostVars
  <2> QED BY <1>1, <2>1, <2>2 DEF Inv, StopInv, hostVars
<1>5. LaunchInv'
  BY <1>1 DEF Inv, LaunchInv, launchVars, hostVars
<1> QED BY <1>1, <1>2, <1>3, <1>4, <1>5, SameBreakpoints DEF Inv

\* The program ends.
LEMMA EndedKeeps == ASSUME Inv, Ended PROVE Inv'
<1>1. /\ pc = "wait" /\ pc' = "idle" /\ process = "gone" /\ process' = process
      /\ UNCHANGED <<call, bpVars, launchVars, stepping, shown, hostVars, reason, past>>
  BY DEF Ended
<1>2. Types'
  BY <1>1 DEF Inv, Types, TypeOK, bpVars, launchVars, hostVars
<1>3. HostInv'
  BY <1>1 DEF Inv, HostInv, KernelDone, bpVars, hostVars
<1>4. StopInv'
  BY <1>1 DEF Inv, StopInv, hostVars
<1>5. LaunchInv'
  BY <1>1 DEF Inv, LaunchInv, launchVars, hostVars
<1> QED BY <1>1, <1>2, <1>3, <1>4, <1>5, SameBreakpoints DEF Inv

\* What a stop leaves, shown or not.
LEMMA ShownOrNot ==
    ASSUME Inv, pc = "handle",
           \/ Show /\ StepEnds
           \/ Proceed /\ UNCHANGED <<shown, stepping>>
    PROVE  /\ {stepping', shown'} \subseteq Threads \cup {Nobody}
           /\ reason' \in [Threads -> Reasons]
           /\ \/ pc' = "idle" /\ process' = "stopped" /\ reason' = reason
              \/ pc' = "wait" /\ process' = "running" /\ \A t \in Threads : reason'[t] = "none"
<1>1. {stepping, shown} \subseteq Threads \cup {Nobody} /\ reason \in [Threads -> Reasons]
  BY DEF Inv, Types, TypeOK, Reasons
<1>2. First \in Threads
  BY FirstStops DEF Inv, StopInv
<1>3. process = "stopped"
  BY DEF Inv, HostInv
<1> QED BY <1>1, <1>2, <1>3 DEF Show, StepEnds, Proceed, Reasons

\* A stop that was asked for with a step is shown.
LEMMA HandleStepKeeps == ASSUME Inv, HandleStep PROVE Inv'
<1>1. /\ pc = "handle" /\ call = "step" /\ Show /\ StepEnds
      /\ UNCHANGED <<call, bpVars, launchVars, hostVars, past>>
  BY DEF HandleStep
<1>2. /\ {stepping', shown'} \subseteq Threads \cup {Nobody}
      /\ pc' = "idle" /\ process' = process /\ reason' = reason /\ process = "stopped"
  BY <1>1, ShownOrNot DEF Show, Inv, HostInv
<1>3. Types'
  BY <1>1, <1>2 DEF Inv, Types, TypeOK, bpVars, launchVars, hostVars
<1>4. HostInv'
  BY <1>1, <1>2 DEF Inv, HostInv, KernelDone, bpVars, hostVars
<1>5. StopInv'
  BY <1>1, <1>2 DEF Inv, StopInv, hostVars
<1>6. LaunchInv'
  BY <1>1 DEF Inv, LaunchInv
<1> QED BY <1>1, <1>3, <1>4, <1>5, <1>6, SameBreakpoints DEF Inv

\* Resolving what is pending where the program stands.
LEMMA ResolvingKeeps ==
    ASSUME Inv, ocl_breakpoints' = resolve_pending(ocl_breakpoints),
           UNCHANGED <<pending_bps, next_bp_id, dbg, next_ocl_bp_id, hostVars, past>>
    PROVE  /\ AddressInv' /\ IdInv' /\ IdsAgree'
           /\ ocl_breakpoints' \subseteq Breakpoints
           /\ \A bp \in ocl_breakpoints' :
                bp.id < next_ocl_bp_id /\ bp.address.module \in {HostExe, 0} \cup Kernels
<1>1. /\ ocl_breakpoints \in SUBSET Breakpoints /\ loaded \in 0 .. Len(CodeLines)
      /\ pending_bps \in [1 .. MaxBps -> Locations \cup {Unset}]
      /\ \A bp \in ocl_breakpoints : bp.id < next_ocl_bp_id
  BY DEF Inv, Types, TypeOK
<1>2. UNCHANGED <<place, kernel, loaded>>
  BY DEF hostVars
<1>3. AddressInv'
  <2>1. InBody' => InBody /\ loaded > 0
    BY <1>2 DEF InBody, Inv, HostInv, KernelDone, Types
  <2>2. /\ \A bp \in ocl_breakpoints' : Placed(bp)
        /\ loaded > 0 => \A bp \in ocl_breakpoints' : NoLine(bp)
    BY <1>1, ResolvingPlaces DEF Inv, AddressInv
  <2>3. \A bp : (Placed(bp) => Placed(bp)') /\ (NoLine(bp) => NoLine(bp)')
    BY <1>2, StaysPlaced, StaysWithoutLine
  <2> QED BY <2>1, <2>2, <2>3 DEF AddressInv
<1>4. IdInv'
  BY DEF Inv, IdInv
<1>5. IdsAgree'
  <2>1. kernel_mod' = kernel_mod
    BY <1>2 DEF kernel_mod
  <2>2. dbg /\ "removal" \notin past => AgreeOn(ocl_breakpoints', pending_bps)
    BY <1>1, IdsAgreeOn, ResolvingAgrees DEF Inv
  <2>3. dbg' /\ "removal" \notin past' => AgreeOn(ocl_breakpoints', pending_bps')
    BY <2>2
  <2> QED BY <2>1, <2>3, IdsAgreeNext
<1>6. ocl_breakpoints' \subseteq Breakpoints /\ \A bp \in ocl_breakpoints' : bp.id < next_ocl_bp_id
  BY <1>1, ResolvePending
<1> QED BY <1>3, <1>4, <1>5, <1>6 DEF Breakpoints, Addresses

\* A turn of the loop of continue_execution().
LEMMA HandleStopKeeps == ASSUME Inv, HandleStop PROVE Inv'
<1>1. /\ pc = "handle" /\ call = "resume" /\ InferLaunch
      /\ ocl_breakpoints' = resolve_pending(ocl_breakpoints)
      /\ UNCHANGED <<call, pending_bps, next_bp_id, dbg, next_ocl_bp_id, hostVars, past>>
  BY DEF HandleStop
<1>2. /\ {stepping', shown'} \subseteq Threads \cup {Nobody}
      /\ reason' \in [Threads -> Reasons] /\ process = "stopped"
      /\ \/ pc' = "idle" /\ process' = "stopped" /\ reason' = reason
         \/ pc' = "wait" /\ process' = "running" /\ \A t \in Threads : reason'[t] = "none"
  BY ShownOrNot DEF HandleStop, Inv, HostInv
<1>3. UNCHANGED <<place, line, kernel, loaded, groups>>
  BY <1>1 DEF hostVars
<1>4. AddressInv' /\ IdInv' /\ IdsAgree' /\ ocl_breakpoints' \subseteq Breakpoints
      /\ \A bp \in ocl_breakpoints' :
           bp.id < next_ocl_bp_id /\ bp.address.module \in {HostExe, 0} \cup Kernels
  BY <1>1, ResolvingKeeps
<1>5. /\ wg_breakpoint' \in {"none", "every entry", "one entry", "dispatch"}
      /\ launch_info' \in {"none", "enqueue", "elsewhere"} /\ kernel_name' \in {0} \cup Kernels
  <2>1. kernel \in {0} \cup Kernels
    BY CodeAssumption DEF Inv, Types, Kernels
  <2> QED BY <1>1, <2>1 DEF InferLaunch, Inv, Types, TypeOK, launchVars
<1>6. Types'
  BY <1>1, <1>2, <1>3, <1>4, <1>5 DEF Inv, Types, TypeOK, Reasons
<1>7. HostInv'
  BY <1>1, <1>2, <1>3 DEF Inv, HostInv, KernelDone
<1>8. StopInv'
  BY <1>2, <1>3, ThreadFacts DEF Inv, StopInv
<1>9. LaunchInv'
  <2>1. SUFFICES ASSUME "step" \notin past, launch_info' = "none", kernel > 0
                 PROVE  FALSE
    BY <1>1, <1>3 DEF LaunchInv
  <2>2. launch_info = "none" /\ \A t \in Stopped : place[t] # "enqueue"
    BY <1>1, <2>1 DEF InferLaunch, launchVars
  <2>3. main \in Stopped /\ place[main] = "enqueue"
    BY <2>1, <2>2, ThreadFacts DEF Inv, LaunchInv, Stopped
  <2> QED BY <2>2, <2>3
<1> QED BY <1>4, <1>6, <1>7, <1>8, <1>9 DEF Inv

\* Whatever the debugger does keeps the invariant.
LEMMA DebuggerKeeps == ASSUME Inv, Debugger PROVE Inv'
BY StopKeeps, EndedKeeps, HandleStopKeeps, HandleStepKeeps DEF Debugger

\* ... and whatever the program does.
LEMMA ProgramKeeps == ASSUME Inv, Program PROVE Inv'
BY ProgramTypes, ProgramHost, ProgramStops, ProgramLaunch, ProgramAddresses, ProgramIds DEF Inv

-----------------------------------------------------------------------------
(* The calls of the client.                                                *)

\* A call that sets the program going, or ends it.
LEMMA GoingKeeps ==
    ASSUME Inv, resume \/ detach \/ \E t \in Threads : step(t)
    PROVE  Inv'
<1>1. /\ pc = "idle" /\ process = "stopped"
      /\ UNCHANGED <<bpVars, launchVars, shown, hostVars>>
      /\ past' \in {past, past \cup {"step"}} /\ call' \in {"resume", "step"}
      /\ stepping' \in Threads \cup {Nobody} /\ reason' \in [Threads -> Reasons]
      /\ \/ pc' = "idle" /\ process' = "gone" /\ reason' = reason
         \/ pc' = "wait" /\ process' = "running" /\ \A t \in Threads : reason'[t] = "none"
      /\ "step" \notin past' => call' = "resume"
  <2>1. CASE resume
    BY <2>1 DEF resume, Proceed, Inv, Types, TypeOK, Reasons
  <2>2. CASE detach
    BY <2>2 DEF detach, Inv, Types, TypeOK, Reasons, LaunchInv
  <2>3. CASE \E t \in Threads : step(t)
    BY <2>3 DEF step, Proceed, Inv, Types, TypeOK, Reasons
  <2> QED BY <2>1, <2>2, <2>3
<1>2. UNCHANGED <<place, line, kernel, loaded, groups, launch_info>>
      /\ UNCHANGED <<pending_bps, next_bp_id, dbg, ocl_breakpoints, next_ocl_bp_id>>
  BY <1>1 DEF hostVars, launchVars, bpVars
<1>3. Types'
  BY <1>1, <1>2 DEF Inv, Types, TypeOK, launchVars, Reasons
<1>4. HostInv'
  BY <1>1, <1>2 DEF Inv, HostInv, KernelDone
<1>5. StopInv'
  BY <1>1, <1>2, ThreadFacts DEF Inv, StopInv
<1>6. LaunchInv'
  BY <1>1, <1>2 DEF Inv, LaunchInv
<1> QED BY <1>1, <1>3, <1>4, <1>5, <1>6, SameBreakpoints DEF Inv

\* A breakpoint as it is added.
LEMMA EntryFacts ==
    ASSUME NEW id \in Nat, NEW loc \in Locations
    PROVE  /\ Entry(id, loc) \in Breakpoints
           /\ Entry(id, loc).id = id /\ Entry(id, loc).address = Unresolved
           /\ Agrees(Entry(id, loc), loc)
<1>1. Unresolved \in Addresses
  BY DEF Unresolved, Address, Addresses
<1>2. loc.file \in {"kernel", "host"} /\ loc.line \in Nat \ {0}
  BY LocationFacts
<1> HIDE DEF Unresolved, Addresses
<1>3. Entry(id, loc) = [id |-> id, file |-> loc.file, line |-> loc.line, address |-> Unresolved]
  BY DEF Entry
<1> QED BY <1>1, <1>2, <1>3 DEF Breakpoints, Agrees

\* The place of an id among those that are set is one of as many places.
LEMMA RankFacts ==
    ASSUME Types
    PROVE  /\ Registered \subseteq 1 .. MaxBps /\ Cardinality(Registered) \in Nat
           /\ \A id \in Registered : /\ Rank(id) \in Nat /\ Rank(id) <= Cardinality(Registered)
                                     /\ pending_bps[id] \in Locations
<1>1. Registered \subseteq 1 .. MaxBps
      /\ \A id \in Registered : pending_bps[id] \in Locations
  BY DEF Types, Registered
<1>2. IsFiniteSet(1 .. MaxBps)
  BY CountAssumption, FS_Interval
<1>3. IsFiniteSet(Registered) /\ Cardinality(Registered) \in Nat
  BY <1>1, <1>2, FS_Subset, FS_CardinalityType
<1>4. ASSUME NEW id \in Registered PROVE Rank(id) \in Nat /\ Rank(id) <= Cardinality(Registered)
  <2> DEFINE before == {other \in Registered : other <= id}
  <2>1. before \subseteq Registered
    OBVIOUS
  <2>2. IsFiniteSet(before) /\ Cardinality(before) <= Cardinality(Registered)
    BY <1>3, <2>1, FS_Subset
  <2>3. Cardinality(before) \in Nat
    BY <2>2, FS_CardinalityType
  <2> QED BY <2>2, <2>3 DEF Rank
<1> QED BY <1>1, <1>3, <1>4

\* If none was removed, the places are the ids themselves.
LEMMA RankIsId ==
    ASSUME Types, \A id \in 1 .. MaxBps : pending_bps[id] # Unset <=> id < next_bp_id
    PROVE  /\ Cardinality(Registered) + 1 = next_bp_id
           /\ \A id \in Registered : Rank(id) = id
<1>1. MaxBps \in Nat /\ next_bp_id \in 1 .. MaxBps + 1
  BY CountAssumption DEF Types
<1>2. Registered = {id \in 1 .. MaxBps : pending_bps[id] # Unset}
  BY DEF Registered, Types
<1>3. Registered = 1 .. next_bp_id - 1
  BY <1>1, <1>2
<1>4. Cardinality(Registered) = next_bp_id - 1
  <2>1. Cardinality(1 .. next_bp_id - 1)
          = IF 1 > next_bp_id - 1 THEN 0 ELSE (next_bp_id - 1) - 1 + 1
    BY <1>1, FS_Interval
  <2> QED BY <1>1, <1>3, <2>1
<1>5. ASSUME NEW id \in Registered PROVE Rank(id) = id
  <2>1. id \in Nat /\ id >= 1 /\ {other \in Registered : other <= id} = 1 .. id
    BY <1>1, <1>3
  <2>2. Cardinality(1 .. id) = IF 1 > id THEN 0 ELSE id - 1 + 1
    BY <2>1, FS_Interval
  <2>3. Rank(id) = Cardinality(1 .. id)
    BY <2>1 DEF Rank
  <2> QED BY <2>1, <2>2, <2>3
<1> QED BY <1>1, <1>4, <1>5

\* What is handed on at the launch.
LEMMA HandedFacts ==
    ASSUME Types
    PROVE  /\ Handed \in SUBSET Breakpoints
           /\ \A bp \in Handed : bp.id < Cardinality(Registered) + 1 /\ bp.address = Unresolved
           /\ ("removal" \notin past /\ ~dbg /\ IdInv) =>
                AgreeOn(Handed, pending_bps) /\ Cardinality(Registered) + 1 = next_bp_id
<1>1. Handed \in SUBSET Breakpoints
      /\ \A bp \in Handed : bp.id < Cardinality(Registered) + 1 /\ bp.address = Unresolved
  BY RankFacts, EntryFacts DEF Handed
<1>2. ASSUME "removal" \notin past, ~dbg, IdInv
      PROVE  AgreeOn(Handed, pending_bps) /\ Cardinality(Registered) + 1 = next_bp_id
  <2>1. \A id \in 1 .. MaxBps : pending_bps[id] # Unset <=> id < next_bp_id
    BY <1>2, CountAssumption DEF IdInv, Types
  <2>2. /\ Cardinality(Registered) + 1 = next_bp_id
        /\ Handed = {Entry(id, pending_bps[id]) : id \in Registered}
    BY <2>1, RankIsId DEF Handed
  <2>3. ASSUME NEW id \in Registered
        PROVE  /\ Entry(id, pending_bps[id]).id = id
               /\ Agrees(Entry(id, pending_bps[id]), pending_bps[id])
    BY RankFacts, EntryFacts
  <2>4. \A id \in DOMAIN pending_bps : id \in Registered <=> pending_bps[id] # Unset
    BY DEF Registered
  <2> QED BY <2>2, <2>3, <2>4 DEF AgreeOn
<1> QED BY <1>1, <1>2

\* The launch hands on the breakpoints, and resolves them if there is a target.
LEMMA LaunchKeeps == ASSUME Inv, launch PROVE Inv'
<1>1. /\ pc = "idle" /\ ~dbg /\ dbg' = TRUE /\ next_ocl_bp_id' = Cardinality(Registered) + 1
      /\ UNCHANGED <<pc, call, pending_bps, next_bp_id, launch_info, kernel_name, stepping, shown>>
      /\ UNCHANGED <<place, line, kernel, loaded, groups, reason, past>>
      /\ ocl_breakpoints' \in {Handed, resolve_pending(Handed)}
      /\ process' \in {process, "stopped"} /\ wg_breakpoint' \in {wg_breakpoint, "every entry"}
  BY DEF launch, hostVars
<1>2. process = "none" /\ place[main] = "start" /\ kernel = 0 /\ ~InBody
  BY <1>1 DEF Inv, HostInv, KernelDone, InBody
<1>3. loaded \in 0 .. Len(CodeLines) /\ pending_bps \in [1 .. MaxBps -> Locations \cup {Unset}]
      /\ Handed \in SUBSET Breakpoints
      /\ \A bp \in Handed : bp.id < Cardinality(Registered) + 1 /\ bp.address = Unresolved
  BY HandedFacts DEF Inv, Types
<1>4. ocl_breakpoints' \subseteq Breakpoints /\ \A bp \in ocl_breakpoints' : bp.id < next_ocl_bp_id'
  BY <1>1, <1>3, ResolvePending
<1>5. Types'
  <2>1. next_ocl_bp_id' \in Nat
    <3>1. Cardinality(Registered) \in Nat
      BY RankFacts DEF Inv
    <3>2. next_ocl_bp_id' = Cardinality(Registered) + 1
      BY <1>1
    <3> QED BY <3>1, <3>2
  <2>2. \A bp \in ocl_breakpoints' : bp.address.module \in {HostExe, 0} \cup Kernels
    BY <1>4 DEF Breakpoints, Addresses
  <2> QED BY <1>1, <1>4, <2>1, <2>2 DEF Inv, Types, TypeOK
<1>6. HostInv'
  BY <1>1, <1>2 DEF Inv, HostInv, KernelDone
<1>7. StopInv'
  BY <1>1 DEF Inv, StopInv
<1>8. LaunchInv'
  BY <1>1, <1>2 DEF Inv, LaunchInv
<1>9. AddressInv'
  <2>1. \A bp \in Handed : Placed(bp)
    BY <1>3 DEF Placed
  <2>2. \A bp \in ocl_breakpoints' : Placed(bp)
    BY <1>1, <1>3, <2>1, ResolvingPlaces
  <2>3. ~InBody'
    BY <1>1, <1>2 DEF InBody
  <2> QED BY <1>1, <2>2, <2>3, StaysPlaced DEF AddressInv
<1>10. IdInv'
  BY <1>1, HandedFacts DEF Inv, IdInv
<1>11. IdsAgree'
  <2>1. kernel_mod' = kernel_mod
    BY <1>1 DEF kernel_mod
  <2>2. "removal" \notin past => AgreeOn(Handed, pending_bps)
    BY <1>1, HandedFacts DEF Inv
  <2>3. "removal" \notin past => AgreeOn(ocl_breakpoints', pending_bps)
    BY <1>1, <1>3, <2>2, ResolvingAgrees
  <2> QED BY <1>1, <2>1, <2>3, IdsAgreeNext
<1> QED BY <1>5, <1>6, <1>7, <1>8, <1>9, <1>10, <1>11 DEF Inv

\* A breakpoint is set: in the debugger too, if there is one, under the same id.
LEMMA SetKeeps == ASSUME Inv, NEW loc \in Locations, set_breakpoint(loc) PROVE Inv'
<1>1. /\ pc = "idle" /\ next_bp_id <= MaxBps /\ next_bp_id' = next_bp_id + 1
      /\ pending_bps' = [pending_bps EXCEPT ![next_bp_id] = loc]
      /\ UNCHANGED <<pc, call, dbg, launchVars, stepping, shown, hostVars, reason, process, past>>
  BY DEF set_breakpoint
<1>2. UNCHANGED <<place, line, kernel, loaded, groups, launch_info, kernel_name, wg_breakpoint>>
  BY <1>1 DEF hostVars, launchVars
<1>3. /\ next_bp_id \in 1 .. MaxBps /\ MaxBps \in Nat /\ next_ocl_bp_id \in Nat
      /\ pending_bps \in [1 .. MaxBps -> Locations \cup {Unset}]
      /\ ocl_breakpoints \in SUBSET Breakpoints /\ loaded \in 0 .. Len(CodeLines)
      /\ \A bp \in ocl_breakpoints : bp.id < next_ocl_bp_id /\ Placed(bp)
      /\ process = "none" => ~InBody
  <2>1. MaxBps \in Nat /\ next_bp_id \in 1 .. MaxBps
    BY <1>1, CountAssumption DEF Inv, Types
  <2>2. process = "none" => ~InBody
    BY DEF Inv, HostInv, KernelDone, InBody
  <2> QED BY <2>1, <2>2 DEF Inv, Types, TypeOK, AddressInv
<1>4. /\ pending_bps' \in [1 .. MaxBps -> Locations \cup {Unset}]
      /\ next_bp_id' \in 1 .. MaxBps + 1
  BY <1>1, <1>3
<1>5. HostInv' /\ StopInv' /\ LaunchInv'
  <2>1. HostInv'
    BY <1>1, <1>2 DEF Inv, HostInv, KernelDone
  <2>2. StopInv'
    BY <1>1, <1>2 DEF Inv, StopInv
  <2>3. LaunchInv'
    BY <1>1, <1>2 DEF Inv, LaunchInv
  <2> QED BY <2>1, <2>2, <2>3
<1> DEFINE new == Entry(next_ocl_bp_id, loc)
           bps == ocl_breakpoints \cup {new}
<1>6. new \in Breakpoints /\ new.id = next_ocl_bp_id /\ new.address = Unresolved /\ Agrees(new, loc)
  BY <1>3, EntryFacts
<1>7. \/ ~dbg /\ UNCHANGED <<ocl_breakpoints, next_ocl_bp_id>>
      \/ /\ dbg /\ next_ocl_bp_id' = next_ocl_bp_id + 1
         /\ ocl_breakpoints' = IF process = "none" THEN bps ELSE resolve_pending(bps)
  BY DEF set_breakpoint, add_ocl_breakpoint
<1> HIDE DEF new
<1>8. bps \in SUBSET Breakpoints /\ \A bp \in bps : Placed(bp) /\ bp.id < next_ocl_bp_id + 1
  <2>1. Placed(new)
    BY <1>6 DEF Placed
  <2>2. \A bp \in ocl_breakpoints : bp.id < next_ocl_bp_id + 1
    <3> SUFFICES ASSUME NEW bp \in ocl_breakpoints PROVE bp.id < next_ocl_bp_id + 1
      OBVIOUS
    <3>1. bp.id \in Nat /\ bp.id < next_ocl_bp_id /\ next_ocl_bp_id \in Nat
      BY <1>3 DEF Breakpoints
    <3> QED BY <3>1
  <2>3. new.id < next_ocl_bp_id + 1
    BY <1>3, <1>6
  <2> QED BY <1>3, <1>6, <2>1, <2>2, <2>3
<1>9. /\ resolve_pending(bps) \subseteq Breakpoints
      /\ \A bp \in resolve_pending(bps) : Placed(bp) /\ bp.id < next_ocl_bp_id + 1
      /\ loaded > 0 => \A bp \in resolve_pending(bps) : NoLine(bp)
  BY <1>3, <1>8, ResolvePending, ResolvingPlaces
<1> HIDE DEF bps
<1>10. Types'
  <2>1. /\ ocl_breakpoints' \subseteq Breakpoints /\ next_ocl_bp_id' \in Nat
        /\ \A bp \in ocl_breakpoints' : bp.id < next_ocl_bp_id'
    BY <1>3, <1>7, <1>8, <1>9
  <2>2. \A bp \in ocl_breakpoints' : bp.address.module \in {HostExe, 0} \cup Kernels
    BY <2>1 DEF Breakpoints, Addresses
  <2>3. /\ process \in {"none", "stopped", "running", "gone"} /\ groups \in Nat
        /\ kernel \in 0 .. Len(CodeLines) /\ loaded \in 0 .. Len(CodeLines) /\ dbg \in BOOLEAN
    BY DEF Inv, Types, TypeOK
  <2>4. \A id \in DOMAIN pending_bps' : pending_bps'[id] \in Locations \cup {Unset}
    BY <1>4
  <2> QED BY <1>1, <1>2, <1>4, <2>1, <2>2, <2>3, <2>4 DEF Inv, Types, TypeOK
<1>11. AddressInv'
  <2>1. \A bp \in ocl_breakpoints' : Placed(bp)
    BY <1>3, <1>7, <1>8, <1>9
  <2>2. InBody' => InBody /\ loaded > 0 /\ process # "none"
    BY <1>2, <1>3 DEF InBody, Inv, HostInv, KernelDone, Types
  <2>3. InBody' => \A bp \in ocl_breakpoints' : NoLine(bp)
    BY <1>7, <1>9, <2>2 DEF Inv, AddressInv
  <2>4. \A bp : (Placed(bp) => Placed(bp)') /\ (NoLine(bp) => NoLine(bp)')
    BY <1>2, StaysPlaced, StaysWithoutLine
  <2> QED BY <2>1, <2>3, <2>4 DEF AddressInv
<1>12. \A id \in 1 .. MaxBps : pending_bps'[id] = IF id = next_bp_id THEN loc ELSE pending_bps[id]
  BY <1>1, <1>3
<1>13. IdInv'
  <2>1. loc # Unset
    BY LocationFacts
  <2> QED BY <1>1, <1>3, <1>7, <1>12, <2>1 DEF Inv, IdInv
<1>14. IdsAgree'
  <2>1. kernel_mod' = kernel_mod
    BY <1>2 DEF kernel_mod
  <2>2. ASSUME dbg, "removal" \notin past PROVE AgreeOn(ocl_breakpoints', pending_bps')
    <3>1. next_ocl_bp_id = next_bp_id /\ AgreeOn(ocl_breakpoints, pending_bps)
      BY <2>2, IdsAgreeOn DEF Inv, IdInv
    <3>2. loc # Unset
      BY LocationFacts
    <3>3. DOMAIN pending_bps = 1 .. MaxBps /\ DOMAIN pending_bps' = 1 .. MaxBps
      BY <1>3, <1>4
    <3>4. ASSUME NEW id \in 1 .. MaxBps
          PROVE  IF pending_bps'[id] # Unset
                 THEN \E bp \in bps : bp.id = id /\ Agrees(bp, pending_bps'[id])
                 ELSE \A bp \in bps : bp.id # id
      <4>1. CASE id = next_bp_id
        BY <1>6, <1>12, <3>1, <3>2, <4>1 DEF bps
      <4>2. CASE id # next_bp_id
        BY <1>6, <1>12, <3>1, <3>3, <4>2 DEF bps, AgreeOn
      <4> QED BY <4>1, <4>2
    <3>5. AgreeOn(bps, pending_bps')
      BY <3>3, <3>4 DEF AgreeOn
    <3>6. AgreeOn(resolve_pending(bps), pending_bps')
      BY <1>3, <1>4, <1>8, <3>5, ResolvingAgrees
    <3> QED BY <1>7, <2>2, <3>5, <3>6
  <2> QED BY <1>1, <2>1, <2>2, IdsAgreeNext
<1> QED BY <1>5, <1>10, <1>11, <1>13, <1>14 DEF Inv

\* A breakpoint is removed.
LEMMA RemoveKeeps ==
    ASSUME Inv, NEW id \in DOMAIN pending_bps, remove_breakpoint(id) PROVE Inv'
<1>1. /\ pc = "idle" /\ pending_bps' = [pending_bps EXCEPT ![id] = Unset]
      /\ UNCHANGED <<pc, call, next_bp_id, dbg, next_ocl_bp_id, launchVars, stepping, shown>>
      /\ UNCHANGED <<place, line, kernel, loaded, groups, reason, process>>
      /\ past' = past \cup (IF dbg THEN {} ELSE {"removal"})
      /\ ocl_breakpoints' = IF dbg THEN {bp \in ocl_breakpoints : bp.id # id} ELSE ocl_breakpoints
  BY DEF remove_breakpoint, delete_ocl_breakpoint, hostVars
<1>2. /\ pending_bps \in [1 .. MaxBps -> Locations \cup {Unset}] /\ id \in 1 .. MaxBps
      /\ ocl_breakpoints' \subseteq ocl_breakpoints
      /\ "removal" \notin past' => dbg /\ past' = past /\ "removal" \notin past
      /\ "step" \in past' <=> "step" \in past
  BY <1>1 DEF Inv, Types
<1>3. /\ pending_bps' \in [1 .. MaxBps -> Locations \cup {Unset}]
      /\ \A other \in 1 .. MaxBps : pending_bps'[other] = IF other = id THEN Unset ELSE pending_bps[other]
  BY <1>1, <1>2
<1>4. Types'
  <2>1. \A other \in DOMAIN pending_bps' : pending_bps'[other] \in Locations \cup {Unset}
    BY <1>3
  <2> QED BY <1>1, <1>2, <1>3, <2>1 DEF Inv, Types, TypeOK, launchVars
<1>5. HostInv'
  BY <1>1 DEF Inv, HostInv, KernelDone
<1>6. StopInv'
  BY <1>1 DEF Inv, StopInv
<1>7. LaunchInv'
  BY <1>1, <1>2 DEF Inv, LaunchInv, launchVars
<1>8. AddressInv'
  <2>1. InBody' <=> InBody
    BY <1>1 DEF InBody
  <2>2. \A bp : (Placed(bp) => Placed(bp)') /\ (NoLine(bp) => NoLine(bp)')
    BY <1>1, StaysPlaced, StaysWithoutLine
  <2> QED BY <1>2, <2>1, <2>2 DEF Inv, AddressInv
<1>9. IdInv'
  BY <1>1, <1>2, <1>3 DEF Inv, IdInv
<1>10. IdsAgree'
  <2>1. kernel_mod' = kernel_mod
    BY <1>1 DEF kernel_mod
  <2>2. ASSUME "removal" \notin past' PROVE AgreeOn(ocl_breakpoints', pending_bps')
    <3>1. AgreeOn(ocl_breakpoints, pending_bps)
      BY <1>2, <2>2, IdsAgreeOn DEF Inv
    <3>2. DOMAIN pending_bps = 1 .. MaxBps /\ DOMAIN pending_bps' = 1 .. MaxBps
      BY <1>2, <1>3
    <3>3. ocl_breakpoints' = {bp \in ocl_breakpoints : bp.id # id}
      BY <1>1, <1>2, <2>2
    <3> QED BY <1>3, <3>1, <3>2, <3>3 DEF AgreeOn
  <2> QED BY <2>1, <2>2, IdsAgreeNext
<1> QED BY <1>4, <1>5, <1>6, <1>7, <1>8, <1>9, <1>10 DEF Inv

\* Whatever the client does keeps the invariant.
LEMMA ClientKeeps == ASSUME Inv, Client PROVE Inv'
BY LaunchKeeps, SetKeeps, RemoveKeeps, GoingKeeps DEF Client

-----------------------------------------------------------------------------
(* The invariant, and what follows from it.                                *)

\* It holds at the start.
LEMMA InvAtStart == ASSUME Init PROVE Inv
<1>1. 0 \in 0 .. Len(CodeLines) /\ Len(CodeLines) > 0 /\ MaxBps \in Nat /\ 1 \in 1 .. MaxBps + 1
  BY CodeAssumption, CountAssumption
<1>2. /\ pending_bps = [id \in 1 .. MaxBps |-> Unset]
      /\ place[main] = "start" /\ \A t \in Workers : place[t] = "idle"
      /\ \A t \in Threads : reason[t] = "none"
      /\ ocl_breakpoints = {} /\ next_bp_id = 1 /\ ~dbg /\ process = "none" /\ pc = "idle"
      /\ kernel = 0 /\ past = {} /\ launch_info = "none" /\ groups = 0 /\ call = "resume"
  BY ThreadFacts DEF Init
<1>3. Types
  <2>1. /\ place \in [Threads -> Places] /\ line \in [Threads -> Nat]
        /\ reason \in [Threads -> Reasons]
    BY DEF Init, Places, MainPlaces, WorkerPlaces, Reasons
  <2>2. /\ pending_bps \in [1 .. MaxBps -> Locations \cup {Unset}]
        /\ \A id \in DOMAIN pending_bps : pending_bps[id] \in Locations \cup {Unset}
    BY <1>2
  <2>3. /\ next_bp_id \in 1 .. MaxBps + 1 /\ next_ocl_bp_id \in Nat /\ dbg \in BOOLEAN
        /\ ocl_breakpoints \subseteq Breakpoints /\ groups \in Nat
        /\ kernel \in 0 .. Len(CodeLines) /\ loaded \in 0 .. Len(CodeLines)
    <3>1. loaded = 0 /\ next_ocl_bp_id = 1 /\ dbg = FALSE /\ ocl_breakpoints = {}
      BY DEF Init
    <3> QED BY <1>1, <1>2, <3>1
  <2> QED
    BY <1>2, <2>1, <2>2, <2>3
    DEF Init, Types, TypeOK, Places, MainPlaces, WorkerPlaces, Reasons
<1>4. HostInv
  BY <1>1, <1>2 DEF HostInv, MainPlaces, WorkerPlaces, KernelDone
<1>5. StopInv /\ LaunchInv
  BY <1>2, ThreadFacts DEF StopInv, LaunchInv
<1>6. AddressInv
  BY <1>2 DEF AddressInv
<1>7. IdInv /\ IdsAgree
  BY <1>1, <1>2 DEF IdInv, IdsAgree
<1> QED BY <1>3, <1>4, <1>5, <1>6, <1>7 DEF Inv

\* ... and through a step in which nothing moves.
LEMMA InvStutters == ASSUME Inv, UNCHANGED vars PROVE Inv'
<1>1. /\ UNCHANGED <<pc, call, bpVars, launchVars, stepping, shown, hostVars, reason, process, past>>
      /\ UNCHANGED <<pending_bps, next_bp_id, dbg, ocl_breakpoints, next_ocl_bp_id>>
      /\ UNCHANGED <<wg_breakpoint, launch_info, kernel_name>>
      /\ UNCHANGED <<place, line, kernel, loaded, groups>>
  BY DEF vars, bpVars, launchVars, hostVars
<1>2. Types'
  <2>1. Types
    BY DEF Inv
  <2>2. TypeOK'
    BY <1>1, <2>1 DEF Types, TypeOK
  <2> QED BY <1>1, <2>1, <2>2 DEF Types
<1>3. HostInv'
  BY <1>1 DEF Inv, HostInv, KernelDone
<1>4. StopInv'
  <2>1. Stopped' = Stopped /\ UserAddresses' = UserAddresses
    BY <1>1 DEF Stopped, UserAddresses
  <2>2. IsUserSite("host", line[main]) => IsUserSite("host", line[main])'
    BY <1>1, <2>1 DEF IsUserSite
  <2> QED BY <1>1, <2>1, <2>2 DEF Inv, StopInv
<1>5. LaunchInv'
  BY <1>1 DEF Inv, LaunchInv
<1> QED BY <1>1, <1>2, <1>3, <1>4, <1>5, SameBreakpoints DEF Inv

(***************************************************************************)
(* The invariant is inductive: host and workers, debugger and client, in   *)
(* whatever order they move.                                               *)
(***************************************************************************)
THEOREM InvAlways == Spec => []Inv
<1>1. Init => Inv
  BY InvAtStart
<1>2. Inv /\ [Next]_vars => Inv'
  BY ClientKeeps, DebuggerKeeps, ProgramKeeps, InvStutters DEF Next
<1> QED BY <1>1, <1>2, PTL DEF Spec

\* The state of the backend, the debugger and the program has its types: the
\* debugger's breakpoints have ids that are used up and addresses in a module.
THEOREM TypeCorrect == Spec => []TypeOK
<1>1. Inv => TypeOK
  BY DEF Inv, Types
<1> QED BY <1>1, InvAlways, PTL

(***************************************************************************)
(* The backend's ids and the debugger's name the same breakpoints, unless  *)
(* one was removed before the launch, however breakpoints are set and      *)
(* removed and whenever they are resolved (PoclCPUBackend.cpp:290,         *)
(* DebuggerContext.cpp:779).                                               *)
(***************************************************************************)
THEOREM IdsAlwaysAgree == Spec => []IdsAgree
<1>1. Inv => IdsAgree
  BY DEF Inv
<1> QED BY <1>1, InvAlways, PTL

\* A work-item that reaches a line that a breakpoint stands for stops there.
LEMMA LineIsStopped ==
    ASSUME Inv, NEW t \in Workers, NEW l \in Nat, Moved(t, "line", l), l > line[t],
           place[t] \in {"body", "line"}, kernel = 1,
           NEW bp \in ocl_breakpoints, bp.file = "kernel", source_to_line(bp.line) = l
    PROVE  reason'[t] = "breakpoint"
<1>1. place[main] = "waiting" /\ InBody
  BY DEF Inv, HostInv, KernelDone, InBody
<1>2. loaded = 1 /\ kernel_mod = 1
  BY <1>1 DEF Inv, HostInv, kernel_mod
<1>3. Placed(bp) /\ NoLine(bp) /\ bp.line \in Nat \ {0}
  BY <1>1 DEF Inv, AddressInv, Types, Breakpoints
<1>4. l # 0
  BY ThreadFacts DEF Inv, Types
<1>5. bp.address # Unresolved
  BY <1>3, <1>4 DEF NoLine
<1>6. bp.line \in CodeLines[1] /\ bp.address = Address(1, bp.line)
  BY <1>3, <1>5 DEF Placed
<1>7. bp.line = l
  BY <1>2, <1>3, <1>6, LineFound
<1>8. Address(kernel, l) \in UserAddresses
  BY <1>5, <1>6, <1>7 DEF UserAddresses
<1> QED BY <1>8 DEF Moved, HasBreakpoint, IsUserSite

(***************************************************************************)
(* A breakpoint on a line of the first kernel is in place when a work-item *)
(* reaches the line: at the stop where the kernel is enqueued its module   *)
(* is not loaded, at the trampoline it is, and whatever was set before or  *)
(* after is resolved (DebuggerContext.cpp:584-599, 793, 1090).             *)
(***************************************************************************)
THEOREM KernelLinesStop == Spec => KernelLineStops
<1>1. Inv /\ [Next]_vars =>
        [\A t \in Workers :
           /\ kernel = 1 /\ place'[t] = "line" /\ line'[t] # line[t]
           /\ \E bp \in ocl_breakpoints : bp.file = "kernel" /\ source_to_line(bp.line) = line'[t]
           => reason'[t] = "breakpoint"]_vars
  <2> SUFFICES ASSUME Inv, Next, NEW t \in Workers,
                      kernel = 1, place'[t] = "line", line'[t] # line[t],
                      NEW bp \in ocl_breakpoints, bp.file = "kernel",
                      source_to_line(bp.line) = line'[t]
               PROVE  reason'[t] = "breakpoint"
    OBVIOUS
  <2>1. CASE Program
    <3>1. PICK l \in Nat : NextLine(t) /\ l > line[t] /\ Moved(t, "line", l)
      <4>1. t \in Threads /\ t # main
        BY ThreadFacts
      <4>2. line' # line
        OBVIOUS
      <4>3. ~HostExits /\ \A u \in Workers : ~Fault(u)
        BY <4>2 DEF HostExits, Fault, hostVars
      <4>4. Types /\ HostInv
        BY DEF Inv
      <4> QED BY <2>1, <4>1, <4>3, <4>4, ProgramSteps DEF Moved
    <3>2. line'[t] = l /\ place[t] \in {"body", "line"}
      BY <3>1 DEF Moved, NextLine
    <3> QED BY <3>1, <3>2, LineIsStopped
  <2>2. CASE Debugger \/ Client
    BY <2>2
    DEF Debugger, Stop, Ended, HandleStop, HandleStep, Client, launch, resume, detach,
        set_breakpoint, remove_breakpoint, step, hostVars
  <2> QED BY <2>1, <2>2 DEF Next
<1> QED BY <1>1, InvAlways, PTL DEF Spec, KernelLineStops

(***************************************************************************)
(* A thread that stopped for the client, at a breakpoint, after a step or  *)
(* with a signal, goes on only when the client says so, whichever threads  *)
(* stopped with it (check_user_stop, DebuggerContext.cpp:1032-1053).       *)
(***************************************************************************)
THEOREM UserStopsAreShown == Spec => NoUserStopIsPassedOver
<1>1. Inv /\ [Next]_vars =>
        [\A t \in Threads : UserStop(t) /\ reason'[t] = "none" => pc = "idle"]_vars
  <2> SUFFICES ASSUME Inv, Next, NEW t \in Threads, UserStop(t), reason'[t] = "none"
               PROVE  pc = "idle"
    OBVIOUS
  <2>1. reason[t] # "none"
    BY DEF UserStop
  <2>2. CASE Program
    <3>1. \A u \in Threads : \A pl, l : Moved(u, pl, l) => reason'[t] = reason[t]
      BY <2>1 DEF Moved
    <3>2. ~HostExits /\ \A u \in Workers : ~Fault(u)
      BY <2>1 DEF HostExits, Fault, Inv, Types, TypeOK
    <3>3. Types /\ HostInv
      BY DEF Inv
    <3> QED BY <2>1, <2>2, <3>1, <3>2, <3>3, ThreadFacts, ProgramSteps
  <2>3. CASE Debugger
    <3>1. t \in Stopped
      BY <2>1 DEF Stopped
    <3>2. check_user_stop
      BY <3>1 DEF check_user_stop
    <3> QED BY <2>1, <2>3, <3>2 DEF Debugger, Stop, Ended, HandleStop, HandleStep, Show
  <2>4. CASE Client
    BY <2>4 DEF Client, launch, resume, detach, set_breakpoint, remove_breakpoint, step
  <2> QED BY <2>2, <2>3, <2>4 DEF Next
<1> QED BY <1>1, InvAlways, PTL DEF Spec, NoUserStopIsPassedOver

(***************************************************************************)
(* "If halted at clEnqueueNDRangeKernel, inspect arguments and compute     *)
(* launch bounds" (DebuggerContext.h:57): as long as no step is made, the  *)
(* bounds come from there, or from a stop that the client asked for.       *)
(***************************************************************************)
THEOREM LaunchIsInferredAtEnqueue == Spec => InferredAtEnqueue
<1>1. Inv /\ [Next]_vars =>
        [launch_info' # launch_info /\ "step" \notin past =>
           launch_info' = "enqueue" \/ \E t \in Stopped : UserStop(t)]_vars
  <2> SUFFICES ASSUME Inv, Next, launch_info' # launch_info, "step" \notin past,
                      launch_info' # "enqueue"
               PROVE  \E t \in Stopped : UserStop(t)
    OBVIOUS
  <2>1. HandleStop
    BY DEF Next, Program, HostRuns, Enqueue, StartKernel, HostExits, TakeGroup, EnterKernel,
           EnterBody, NextLine, LeaveKernel, Fault, Go, Debugger, Stop, Ended, HandleStep, Client,
           launch, resume, detach, set_breakpoint, remove_breakpoint, step, launchVars
  <2>2. PICK t \in Stopped : launch_info = "none" /\ place[t] # "enqueue"
    BY <2>1 DEF HandleStop, InferLaunch, launchVars
  <2>3. t \in Threads /\ reason[t] # "none" /\ pc = "handle"
    BY <2>1, <2>2 DEF Stopped, HandleStop
  <2>4. reason[t] \in {"breakpoint", "step", "signal"}
    BY <2>3 DEF Inv, Types, TypeOK
  <2>5. place[main] # "waiting"
    BY <2>2 DEF Inv, LaunchInv, HostInv
  <2>6. t = main
    BY <2>3, <2>5, ThreadFacts DEF Inv, HostInv, StopInv, KernelDone
  <2>7. place[t] = "host"
    BY <2>2, <2>3, <2>6 DEF Inv, StopInv
  <2>8. reason[t] = "breakpoint" => IsUserSite(place[t], line[t])
    BY <2>3, <2>6, <2>7 DEF Inv, StopInv
  <2> QED BY <2>2, <2>4, <2>8 DEF UserStop
<1> QED BY <1>1, InvAlways, PTL DEF Spec, InferredAtEnqueue

-----------------------------------------------------------------------------
(* The debugger's own stops cannot be seen.                                *)

\* Before the launch the debugger has no breakpoints, and no two have one id.
NumberInv ==
    /\ ~dbg => ocl_breakpoints = {}
    /\ \A bp \in ocl_breakpoints, other \in ocl_breakpoints : bp.id = other.id => bp = other

\* The ids that set has are those of bps, each once.
LEMMA ResolvingKeepsIds ==
    ASSUME NEW bps \in SUBSET Breakpoints, loaded \in 0 .. Len(CodeLines),
           \A bp \in bps, other \in bps : bp.id = other.id => bp = other
    PROVE  \A bp \in resolve_pending(bps), other \in resolve_pending(bps) :
             bp.id = other.id => bp = other
<1> SUFFICES ASSUME NEW bp \in resolve_pending(bps), NEW other \in resolve_pending(bps),
                    bp.id = other.id
             PROVE  bp = other
  OBVIOUS
<1>1. PICK b \in bps : bp = (IF b.address = Unresolved THEN Resolved(b) ELSE b) /\ bp.id = b.id
  BY ResolvePending
<1>2. PICK c \in bps : other = (IF c.address = Unresolved THEN Resolved(c) ELSE c) /\ other.id = c.id
  BY ResolvePending
<1>3. b = c
  BY <1>1, <1>2
<1> QED BY <1>1, <1>2, <1>3

\* No two breakpoints of the client have one place among those that are set.
LEMMA RanksDiffer ==
    ASSUME Types, NEW id \in Registered, NEW other \in Registered, Rank(id) = Rank(other)
    PROVE  id = other
<1>1. Registered \subseteq 1 .. MaxBps /\ IsFiniteSet(Registered)
  <2>1. Registered \subseteq 1 .. MaxBps /\ IsFiniteSet(1 .. MaxBps)
    BY RankFacts, CountAssumption, FS_Interval
  <2> QED BY <2>1, FS_Subset
<1>2. ASSUME NEW a \in Registered, NEW b \in Registered, a < b PROVE Rank(a) # Rank(b)
  <2> DEFINE A == {c \in Registered : c <= a}
             B == {c \in Registered : c <= b}
  <2>1. a \in Int /\ b \in Int /\ \A c \in Registered : c \in Int
    BY <1>1
  <2>2. A \subseteq B /\ b \in B /\ b \notin A /\ B \subseteq Registered
    <3>1. ~(b <= a) /\ b <= b
      BY <1>2, <2>1
    <3>2. \A c \in Registered : c <= a => c <= b
      BY <1>2, <2>1
    <3> QED BY <3>1, <3>2
  <2>3. Rank(a) = Cardinality(A) /\ Rank(b) = Cardinality(B)
    BY DEF Rank
  <2> HIDE DEF A, B
  <2>4. IsFiniteSet(B)
    BY <1>1, <2>2, FS_Subset
  <2>5. Cardinality(A) = Cardinality(B) => A = B
    BY <2>2, <2>4, FS_Subset
  <2> QED BY <2>2, <2>3, <2>5
<1>3. id \in Int /\ other \in Int
  BY <1>1
<1>4. id < other \/ other < id \/ id = other
  BY <1>3
<1> QED BY <1>2, <1>4

\* The ids of what is handed on at the launch, once more.
LEMMA HandedOnce ==
    ASSUME Types
    PROVE  \A bp \in Handed, other \in Handed : bp.id = other.id => bp = other
<1> SUFFICES ASSUME NEW bp \in Handed, NEW other \in Handed, bp.id = other.id PROVE bp = other
  OBVIOUS
<1>1. PICK id \in Registered : bp = Entry(Rank(id), pending_bps[id])
  BY DEF Handed
<1>2. PICK second \in Registered : other = Entry(Rank(second), pending_bps[second])
  BY DEF Handed
<1>3. Rank(id) = Rank(second)
  BY <1>1, <1>2, RankFacts, EntryFacts
<1> QED BY <1>1, <1>2, <1>3, RanksDiffer

\* Every step keeps the ids apart.
LEMMA NumberKeeps == ASSUME Inv, NumberInv, [Next]_vars PROVE NumberInv'
<1>1. /\ ocl_breakpoints \in SUBSET Breakpoints /\ loaded \in 0 .. Len(CodeLines) /\ Types
      /\ \A bp \in ocl_breakpoints : bp.id < next_ocl_bp_id
      /\ next_ocl_bp_id \in Nat
  BY DEF Inv, Types, TypeOK
<1>2. resolve_pending({}) = {}
  BY DEF resolve_pending
<1>3. ASSUME ocl_breakpoints' \in {ocl_breakpoints, resolve_pending(ocl_breakpoints)}, dbg' = dbg
      PROVE  NumberInv'
  BY <1>1, <1>2, <1>3, ResolvingKeepsIds DEF NumberInv
<1>4. CASE Program
  BY <1>3, <1>4, ProgramLeaves
<1>5. CASE Debugger
  BY <1>3, <1>5 DEF Debugger, Stop, Ended, HandleStop, HandleStep, bpVars
<1>6. CASE launch
  <2>1. dbg' = TRUE /\ ocl_breakpoints' \in {Handed, resolve_pending(Handed)}
    BY <1>6 DEF launch
  <2>2. Handed \in SUBSET Breakpoints
    BY <1>1, HandedFacts
  <2> QED BY <1>1, <2>1, <2>2, HandedOnce, ResolvingKeepsIds DEF NumberInv
<1>7. ASSUME NEW loc \in Locations, set_breakpoint(loc) PROVE NumberInv'
  <2>1. CASE ~dbg
    BY <1>3, <1>7, <2>1 DEF set_breakpoint
  <2>2. CASE dbg
    <3> DEFINE bps == ocl_breakpoints \cup {Entry(next_ocl_bp_id, loc)}
    <3>1. dbg' = dbg /\ ocl_breakpoints' \in {bps, resolve_pending(bps)}
      BY <1>7, <2>2 DEF set_breakpoint, add_ocl_breakpoint
    <3>2. Entry(next_ocl_bp_id, loc) \in Breakpoints /\ Entry(next_ocl_bp_id, loc).id = next_ocl_bp_id
      BY <1>1, EntryFacts
    <3>3. \A bp \in ocl_breakpoints : bp.id \in Nat /\ bp.id # next_ocl_bp_id
      BY <1>1 DEF Breakpoints
    <3>4. bps \in SUBSET Breakpoints /\ \A bp \in bps, other \in bps : bp.id = other.id => bp = other
      BY <1>1, <3>2, <3>3 DEF NumberInv
    <3> HIDE DEF bps
    <3>5. \A bp \in ocl_breakpoints', other \in ocl_breakpoints' : bp.id = other.id => bp = other
      BY <1>1, <3>1, <3>4, ResolvingKeepsIds
    <3> QED BY <2>2, <3>1, <3>5 DEF NumberInv
  <2> QED BY <2>1, <2>2
<1>8. ASSUME NEW id \in DOMAIN pending_bps, remove_breakpoint(id) PROVE NumberInv'
  <2>1. dbg' = dbg /\ ocl_breakpoints' \subseteq ocl_breakpoints
    BY <1>8 DEF remove_breakpoint, delete_ocl_breakpoint
  <2> QED BY <2>1 DEF NumberInv
<1>9. CASE resume \/ detach \/ \E t \in Threads : step(t)
  BY <1>3, <1>9 DEF resume, detach, step, bpVars
<1>10. CASE UNCHANGED vars
  BY <1>3, <1>10 DEF vars, bpVars
<1> QED BY <1>4, <1>5, <1>6, <1>7, <1>8, <1>9, <1>10 DEF Next, Client

\* Where a thread is, and whether the client is to be told of it.
LEMMA SiteFacts ==
    ASSUME NEW t \in Threads
    PROVE  /\ SiteOf(t) = IF place[t] = "line" THEN Address(kernel, line[t])
                          ELSE IF place[t] = "host" THEN Address(HostExe, line[t]) ELSE Unresolved
           /\ SiteOf(t)' = IF place'[t] = "line" THEN Address(kernel', line'[t])
                           ELSE IF place'[t] = "host" THEN Address(HostExe, line'[t]) ELSE Unresolved
           /\ UserStop(t) <=> \/ reason[t] \in {"step", "signal"}
                              \/ reason[t] = "breakpoint" /\ SiteOf(t) \in UserAddresses
           /\ UserStop(t)' <=> \/ reason'[t] \in {"step", "signal"}
                               \/ reason'[t] = "breakpoint" /\ SiteOf(t)' \in UserAddresses'
<1>1. /\ SiteOf(t) = IF place[t] = "line" THEN Address(kernel, line[t])
                     ELSE IF place[t] = "host" THEN Address(HostExe, line[t]) ELSE Unresolved
      /\ SiteOf(t)' = IF place'[t] = "line" THEN Address(kernel', line'[t])
                      ELSE IF place'[t] = "host" THEN Address(HostExe, line'[t]) ELSE Unresolved
  BY DEF SiteOf
<1>2. Unresolved \notin UserAddresses /\ Unresolved \notin UserAddresses'
  BY DEF UserAddresses, Unresolved, Address
<1>3. IsUserSite(place[t], line[t]) <=> SiteOf(t) \in UserAddresses
  BY <1>1, <1>2 DEF IsUserSite
<1>4. IsUserSite(place[t], line[t])' <=> SiteOf(t)' \in UserAddresses'
  BY <1>1, <1>2 DEF IsUserSite
<1> QED BY <1>1, <1>3, <1>4 DEF UserStop

\* A step that moves no thread, resolves nothing and keeps the reasons is none.
LEMMA NothingSeen ==
    ASSUME UNCHANGED <<pc, call, stepping, place, line, kernel, reason, ocl_breakpoints>>,
           pc = "idle" => process' = process
    PROVE  UNCHANGED Transparent!vars
<1>1. UserAddresses' = UserAddresses
  BY DEF UserAddresses
<1>2. \A t \in Threads : SiteOf(t)' = SiteOf(t)
  BY SiteFacts
<1>3. Where' = Where
  BY <1>2 DEF Where
<1>4. \A t \in Threads : UserStop(t)' <=> UserStop(t)
  BY <1>1, <1>2, SiteFacts
<1>5. Reached' = Reached
  BY <1>4 DEF Reached
<1>6. Target' = Target
  BY DEF Target
<1> QED BY <1>1, <1>3, <1>5, <1>6 DEF Transparent!vars

\* A thread that goes on is one that arrives somewhere.
LEMMA ArrivesAtPlace ==
    ASSUME Inv, NEW t \in Threads, NEW pl \in Places, NEW l \in Nat, Go(t, pl, l),
           UNCHANGED ocl_breakpoints,
           pl = "line" => l # 0,
           kernel' = kernel \/ (pl # "line" /\ \A u \in Threads \ {t} : place[u] # "line")
    PROVE  Transparent!Arrives(t, Where'[t])
<1>1. /\ Moved(t, pl, l) /\ pc = "wait" /\ pc' = "wait"
      /\ UNCHANGED <<call, stepping>> /\ reason[t] = "none"
      /\ place'[t] = pl /\ line'[t] = l
      /\ \A u \in Threads \ {t} :
           place'[u] = place[u] /\ line'[u] = line[u] /\ reason'[u] = reason[u]
  BY GoMoves DEF Moved, Inv
<1>2. reason'[t] = IF HasBreakpoint(pl, l) THEN "breakpoint"
                   ELSE IF t = stepping /\ pl \in SourcePlaces THEN "step" ELSE "none"
  BY DEF Go, Inv, Types, TypeOK
<1>3. UserAddresses' = UserAddresses
  BY DEF UserAddresses
<1>4. ASSUME NEW u \in Threads \ {t} PROVE SiteOf(u)' = SiteOf(u) /\ (UserStop(u)' <=> UserStop(u))
  <2>1. SiteOf(u)' = SiteOf(u)
    BY <1>1, SiteFacts
  <2> QED BY <1>1, <1>3, <2>1, SiteFacts
<1>5. Where' = [Where EXCEPT ![t] = Where'[t]]
  BY <1>4 DEF Where
<1>6. Where'[t] = SiteOf(t)'
  BY DEF Where
<1>7. UserStop(t)' <=> SiteOf(t)' # Unresolved /\ (SiteOf(t)' \in UserAddresses \/ t = stepping)
  <2>1. CASE pl = "line"
    <3>1. SiteOf(t)' = Address(kernel, l) /\ SiteOf(t)' # Unresolved
      BY <1>1, <2>1, SiteFacts DEF Address, Unresolved
    <3>2. HasBreakpoint(pl, l) <=> SiteOf(t)' \in UserAddresses
      BY <2>1, <3>1 DEF HasBreakpoint, IsUserSite
    <3> QED BY <1>2, <1>3, <2>1, <3>1, <3>2, SiteFacts DEF SourcePlaces
  <2>2. CASE pl = "host"
    <3>1. SiteOf(t)' = Address(HostExe, l) /\ SiteOf(t)' # Unresolved
      BY <1>1, <2>2, SiteFacts DEF Address, Unresolved, HostExe
    <3>2. HasBreakpoint(pl, l) <=> SiteOf(t)' \in UserAddresses
      BY <2>2, <3>1 DEF HasBreakpoint, IsUserSite
    <3> QED BY <1>2, <1>3, <2>2, <3>1, <3>2, SiteFacts DEF SourcePlaces
  <2>3. CASE pl \notin SourcePlaces
    <3>1. SiteOf(t)' = Unresolved /\ SiteOf(t)' \notin UserAddresses'
      BY <1>1, <2>3, SiteFacts DEF SourcePlaces, UserAddresses
    <3> QED BY <1>2, <2>3, <3>1, SiteFacts
  <2> QED BY <2>1, <2>2, <2>3 DEF SourcePlaces
<1>8. t \notin Reached
  BY <1>1 DEF Reached, UserStop
<1>9. Reached' = IF Where'[t] # Unresolved /\ (Where'[t] \in UserAddresses \/ t = stepping)
                 THEN Reached \cup {t} ELSE Reached
  <2>1. Reached' = {u \in Threads : UserStop(u)'} /\ Reached = {u \in Threads : UserStop(u)}
    BY <1>1 DEF Reached
  <2>2. ~UserStop(t)
    BY <1>1 DEF UserStop
  <2> QED BY <1>4, <1>6, <1>7, <2>1, <2>2
<1>10. Target = "running" /\ Target' = Target
  BY <1>1 DEF Target
<1> QED BY <1>1, <1>3, <1>5, <1>8, <1>9, <1>10 DEF Transparent!Arrives

\* Breakpoints that the trampoline resolves are where no thread stands.
LEMMA TrampolineFinds ==
    ASSUME Inv, NEW t \in Workers, EnterBody(t) PROVE Transparent!Find
<1>1. /\ Moved(t, "body", 0) /\ t \in Threads /\ pc = "wait" /\ pc' = "wait" /\ place[t] = "entry"
      /\ UNCHANGED <<call, stepping, kernel>> /\ reason[t] = "none"
      /\ place'[t] = "body"
      /\ ocl_breakpoints' = resolve_pending(ocl_breakpoints)
      /\ \A u \in Threads \ {t} :
           place'[u] = place[u] /\ line'[u] = line[u] /\ reason'[u] = reason[u]
  <2>1. t \in Threads /\ "body" \in Places /\ 0 \in Nat
    BY ThreadFacts DEF Places, WorkerPlaces
  <2>2. Go(t, "body", 0) /\ Types
    BY DEF EnterBody, Inv
  <2>3. Moved(t, "body", 0)
    BY <2>1, <2>2, GoMoves
  <2> QED BY <2>1, <2>3 DEF EnterBody, Moved
<1>2. reason'[t] = "none"
  BY <1>1 DEF Moved, HasBreakpoint, IsUserSite, SourcePlaces
<1>3. UserAddresses \subseteq UserAddresses'
  BY <1>1, SitesKept DEF Inv
<1>4. \A u \in Threads : SiteOf(u)' = SiteOf(u)
  BY <1>1, SiteFacts
<1>5. ASSUME NEW u \in Threads PROVE UserStop(u)' <=> UserStop(u)
  <2>1. CASE u = t
    BY <1>1, <1>2, <2>1 DEF UserStop
  <2>2. CASE u # t /\ InBody
    <3>1. \A bp \in ocl_breakpoints : bp.address = Unresolved => Resolved(bp) = bp
      BY <2>2 DEF Inv, AddressInv, NoLine, Resolved
    <3>2. ocl_breakpoints' = ocl_breakpoints
      BY <1>1, <3>1 DEF resolve_pending
    <3>3. UserAddresses' = UserAddresses
      BY <3>2 DEF UserAddresses
    <3> QED BY <1>1, <1>4, <2>2, <3>3, SiteFacts
  <2>3. CASE u # t /\ ~InBody
    <3>1. place[main] = "waiting"
      BY <1>1 DEF Inv, HostInv, KernelDone
    <3>2. place[u] # "line" /\ place[u] # "host"
      BY <2>3, <3>1, ThreadFacts DEF InBody, Inv, HostInv, WorkerPlaces
    <3>3. SiteOf(u) = Unresolved
      BY <3>2, SiteFacts
    <3> QED BY <1>1, <1>4, <2>3, <3>3, SiteFacts DEF UserAddresses
  <2> QED BY <2>1, <2>2, <2>3
<1>6. Where' = Where /\ Target' = Target
  BY <1>1, <1>4 DEF Where, Target
<1>7. Reached' = Reached
  BY <1>1, <1>5 DEF Reached
<1> QED BY <1>1, <1>3, <1>6, <1>7 DEF Transparent!Find

\* What the program does is what threads do that are stopped at sites alone.
LEMMA ProgramSeen ==
    ASSUME Inv, Program PROVE Transparent!Next \/ UNCHANGED Transparent!vars
<1>1. Types /\ HostInv /\ main \in Threads /\ Workers \subseteq Threads /\ main \notin Workers
      /\ {"host", "enqueue", "waiting", "dispatch", "entry", "line", "idle"} \subseteq Places
  BY ThreadFacts DEF Inv, Places, MainPlaces, WorkerPlaces
<1>2. ASSUME NEW t \in Threads, Transparent!Arrives(t, Where'[t]) PROVE Transparent!Next
  BY <1>2 DEF Transparent!Next
<1>3. CASE HostRuns
  <2>1. Go(main, "host", HostLine) /\ UNCHANGED <<ocl_breakpoints, kernel>> /\ HostLine \in Nat
    BY <1>3 DEF HostRuns, bpVars, HostLine
  <2> QED BY <1>1, <1>2, <2>1, ArrivesAtPlace
<1>4. CASE Enqueue
  <2>1. Go(main, "enqueue", 0) /\ UNCHANGED ocl_breakpoints
    BY <1>4 DEF Enqueue, bpVars
  <2>2. \A u \in Threads \ {main} : place[u] # "line"
    BY <1>4, ThreadFacts DEF Enqueue, Inv, HostInv, KernelDone
  <2> QED BY <1>1, <1>2, <2>1, <2>2, ArrivesAtPlace
<1>5. CASE StartKernel
  <2>1. Go(main, "waiting", 0) /\ UNCHANGED <<ocl_breakpoints, kernel>>
    BY <1>5 DEF StartKernel, bpVars
  <2> QED BY <1>1, <1>2, <2>1, ArrivesAtPlace
<1>6. CASE HostExits
  <2>1. pc = "wait" /\ UNCHANGED <<pc, call, stepping, place, line, kernel, reason, ocl_breakpoints>>
    BY <1>6 DEF HostExits, Running, hostVars, bpVars
  <2> QED BY <2>1, NothingSeen
<1>7. ASSUME NEW t \in Workers, TakeGroup(t) PROVE Transparent!Next
  <2>1. Go(t, "dispatch", 0) /\ UNCHANGED <<ocl_breakpoints, kernel>>
    BY <1>7 DEF TakeGroup, bpVars
  <2> QED BY <1>1, <1>2, <2>1, ArrivesAtPlace
<1>8. ASSUME NEW t \in Workers, EnterKernel(t) PROVE Transparent!Next
  <2>1. Go(t, "entry", 0) /\ UNCHANGED <<ocl_breakpoints, kernel>>
    BY <1>8 DEF EnterKernel, bpVars
  <2> QED BY <1>1, <1>2, <2>1, ArrivesAtPlace
<1>9. ASSUME NEW t \in Workers, EnterBody(t) PROVE Transparent!Next
  BY <1>9, TrampolineFinds DEF Transparent!Next
<1>10. ASSUME NEW t \in Workers, NextLine(t) PROVE Transparent!Next
  <2>1. PICK l \in CodeLines[kernel] : Go(t, "line", l) /\ UNCHANGED <<ocl_breakpoints, kernel>>
    BY <1>10 DEF NextLine, bpVars
  <2>2. place[main] = "waiting"
    BY <1>10 DEF Inv, HostInv, KernelDone, NextLine
  <2>3. kernel \in Kernels
    BY <2>2, CodeAssumption DEF Inv, HostInv, Types, Kernels
  <2>4. l \in Nat /\ l # 0
    BY <2>3, FirstKernel
  <2> QED BY <1>1, <1>2, <2>1, <2>4, ArrivesAtPlace
<1>11. ASSUME NEW t \in Workers, LeaveKernel(t) PROVE Transparent!Next
  <2>1. Go(t, "idle", 0) /\ UNCHANGED <<ocl_breakpoints, kernel>>
    BY <1>11 DEF LeaveKernel, bpVars
  <2> QED BY <1>1, <1>2, <2>1, ArrivesAtPlace
<1>12. ASSUME NEW t \in Workers, Fault(t) PROVE Transparent!Next \/ UNCHANGED Transparent!vars
  <2>1. /\ pc = "wait" /\ reason[t] = "none" /\ t \in Threads
        /\ UNCHANGED <<pc, call, stepping, place, line, kernel, ocl_breakpoints>>
    BY <1>1, <1>12 DEF Fault, Running, hostVars, bpVars
  <2>2. CASE UNCHANGED reason
    BY <2>1, <2>2, NothingSeen
  <2>3. CASE reason' = [reason EXCEPT ![t] = "signal"]
    <3>1. reason'[t] = "signal" /\ \A u \in Threads \ {t} : reason'[u] = reason[u]
      BY <2>1, <2>3 DEF Inv, Types, TypeOK
    <3>2. UserAddresses' = UserAddresses /\ \A u \in Threads : SiteOf(u)' = SiteOf(u)
      BY <2>1, SiteFacts DEF UserAddresses
    <3>3. UserStop(t)' /\ ~UserStop(t) /\ \A u \in Threads \ {t} : UserStop(u)' <=> UserStop(u)
      BY <2>1, <3>1, <3>2, SiteFacts
    <3>4. Reached' = Reached \cup {t} /\ t \notin Reached
      BY <2>1, <3>3 DEF Reached
    <3>5. Where' = Where /\ Target = "running" /\ Target' = Target
      BY <2>1, <3>2 DEF Where, Target
    <3> QED BY <2>1, <3>2, <3>4, <3>5 DEF Transparent!Faults, Transparent!Next
  <2> QED BY <1>12, <2>2, <2>3 DEF Fault
<1> QED BY <1>3, <1>4, <1>5, <1>6, <1>7, <1>8, <1>9, <1>10, <1>11, <1>12 DEF Program

\* What the debugger does is seen where it is for the client.
LEMMA DebuggerSeen ==
    ASSUME Inv, Debugger PROVE Transparent!Next \/ UNCHANGED Transparent!vars
<1>1. CASE Stop
  <2>1. /\ pc # "idle"
        /\ pc' # "idle" /\ UNCHANGED <<call, stepping, place, line, kernel, reason, ocl_breakpoints>>
    BY <1>1 DEF Stop, Running, hostVars, bpVars
  <2>2. UserAddresses' = UserAddresses
    BY <2>1 DEF UserAddresses
  <2>3. \A t \in Threads : SiteOf(t)' = SiteOf(t)
    BY <2>1, SiteFacts
  <2>4. \A t \in Threads : UserStop(t)' <=> UserStop(t)
    BY <2>1, <2>2, <2>3, SiteFacts
  <2>5. Reached' = Reached /\ Where' = Where /\ Target' = Target
    BY <2>1, <2>3, <2>4 DEF Reached, Where, Target
  <2> QED BY <2>1, <2>2, <2>5 DEF Transparent!vars
<1>2. CASE Ended
  <2>1. /\ pc = "wait" /\ pc' = "idle" /\ process' = "gone"
        /\ UNCHANGED <<call, stepping, place, line, kernel, ocl_breakpoints>>
    BY <1>2 DEF Ended, hostVars, bpVars
  <2>2. Target # "free" /\ Target' = "free" /\ Reached' = {}
    BY <2>1 DEF Target, Reached
  <2>3. UserAddresses' = UserAddresses /\ \A t \in Threads : SiteOf(t)' = SiteOf(t)
    BY <2>1, SiteFacts DEF UserAddresses
  <2>4. Where' = Where
    BY <2>3 DEF Where
  <2> QED BY <2>1, <2>2, <2>3, <2>4 DEF Transparent!Leave, Transparent!Next
<1>3. CASE HandleStop \/ HandleStep
  <2>1. /\ pc = "handle" /\ process = "stopped"
        /\ UNCHANGED <<call, place, line, kernel>>
        /\ ocl_breakpoints' \in {ocl_breakpoints, resolve_pending(ocl_breakpoints)}
    BY <1>3 DEF HandleStop, HandleStep, hostVars, bpVars, Inv, HostInv
  <2>2. UserAddresses \subseteq UserAddresses'
    BY <2>1, SitesKept DEF Inv
  <2>3. \A t \in Threads : SiteOf(t)' = SiteOf(t)
    BY <2>1, SiteFacts
  <2>4. Where' = Where /\ Target = "running"
    BY <2>1, <2>3 DEF Where, Target
  <2>5. Reached = {t \in Threads : UserStop(t)}
    BY <2>1 DEF Reached
  <2>6. CASE Show /\ StepEnds /\ (check_user_stop \/ call = "step")
    <3>1. pc' = "idle" /\ process' = "stopped"
      BY <2>1, <2>6 DEF Show
    <3>2. Target' = "halted" /\ Reached' = {} /\ stepping' \in {stepping, Nobody}
      BY <2>6, <3>1 DEF Target, Reached, StepEnds
    <3>3. Reached # {} \/ call = "step"
      BY <2>5, <2>6 DEF check_user_stop, Stopped
    <3> QED BY <2>1, <2>2, <2>4, <3>2, <3>3 DEF Transparent!Halt, Transparent!Next
  <2>7. CASE ~check_user_stop /\ Proceed /\ UNCHANGED <<shown, stepping>>
    <3>1. pc' = "wait" /\ \A t \in Threads : reason'[t] = "none"
      BY <2>7 DEF Proceed
    <3>2. Reached = {}
      BY <2>5, <2>7 DEF check_user_stop, Stopped, UserStop
    <3>3. Reached' = {}
      <4>1. \A t \in Threads : ~UserStop(t)'
        BY <3>1, SiteFacts
      <4> QED BY <4>1 DEF Reached
    <3>4. Target' = "running"
      BY <3>1 DEF Target
    <3> QED BY <2>1, <2>2, <2>4, <2>7, <3>2, <3>3, <3>4 DEF Transparent!Find, Transparent!Next
  <2> QED BY <1>3, <2>6, <2>7 DEF HandleStop, HandleStep
<1> QED BY <1>1, <1>2, <1>3 DEF Debugger

\* A call of the client that leaves the threads where they are.
LEMMA CallLeaves ==
    ASSUME UNCHANGED <<place, line, kernel>> PROVE Where' = Where
<1>1. \A t \in Threads : SiteOf(t)' = SiteOf(t)
  BY SiteFacts
<1> QED BY <1>1 DEF Where

\* What is found when a breakpoint is added.
LEMMA AddingFinds ==
    ASSUME Inv, NEW loc \in Locations, add_ocl_breakpoint(loc)
    PROVE  UserAddresses \subseteq UserAddresses'
<1> DEFINE bps == ocl_breakpoints \cup {Entry(next_ocl_bp_id, loc)}
<1>1. /\ loaded \in 0 .. Len(CodeLines) /\ ocl_breakpoints \in SUBSET Breakpoints
      /\ next_ocl_bp_id \in Nat /\ ocl_breakpoints' \in {bps, resolve_pending(bps)}
  BY DEF Inv, Types, add_ocl_breakpoint
<1>2. bps \in SUBSET Breakpoints /\ ocl_breakpoints \subseteq bps
  BY <1>1, EntryFacts
<1> HIDE DEF bps
<1>3. \A bp \in bps : bp.address # Unresolved => bp \in ocl_breakpoints'
  BY <1>1, <1>2, ResolvePending
<1> QED BY <1>2, <1>3 DEF UserAddresses

\* What the client calls is what it does.
LEMMA ClientSeen ==
    ASSUME Inv, NumberInv, Client PROVE Transparent!Next \/ UNCHANGED Transparent!vars
<1>1. pc = "idle"
  BY DEF Client, launch, resume, detach, set_breakpoint, remove_breakpoint, step
<1>2. Reached = {} /\ Target = IF process = "stopped" THEN "halted" ELSE "free"
  BY <1>1 DEF Reached, Target
<1>3. CASE launch
  <2>1. /\ pc' = "idle" /\ process = "none" /\ UNCHANGED <<call, stepping, place, line, kernel>>
        /\ ~dbg
    BY <1>3 DEF launch, hostVars, Inv, HostInv
  <2>2. UserAddresses = {}
    BY <2>1 DEF NumberInv, UserAddresses
  <2>3. Where' = Where /\ Reached' = {} /\ Target = "free"
    BY <1>2, <2>1, CallLeaves DEF Reached
  <2>4. CASE process' = "stopped"
    <3>1. Target' = "halted"
      BY <2>1, <2>4 DEF Target
    <3> QED BY <1>2, <2>1, <2>2, <2>3, <3>1 DEF Transparent!Launch, Transparent!Next
  <2>5. CASE UNCHANGED process /\ ocl_breakpoints' = Handed
    <3>1. \A bp \in Handed : bp.address = Unresolved
      BY HandedFacts DEF Inv
    <3>2. UserAddresses' = {}
      BY <2>5, <3>1 DEF UserAddresses
    <3>3. Target' = "free"
      BY <2>1, <2>5 DEF Target
    <3> QED BY <1>2, <2>1, <2>2, <2>3, <3>2, <3>3 DEF Transparent!vars
  <2> QED BY <1>3, <2>4, <2>5 DEF launch
<1>4. ASSUME NEW loc \in Locations, set_breakpoint(loc) PROVE Transparent!Next
  <2>1. pc' = "idle" /\ UNCHANGED <<call, stepping, place, line, kernel, process>>
    BY <1>4 DEF set_breakpoint, hostVars
  <2>2. Where' = Where /\ Reached' = {} /\ Target' = Target
    BY <1>1, <2>1, CallLeaves DEF Reached, Target
  <2>3. UserAddresses \subseteq UserAddresses'
    <3>1. CASE dbg
      BY <1>4, <3>1, AddingFinds DEF set_breakpoint
    <3>2. CASE ~dbg
      BY <1>4, <3>2 DEF set_breakpoint, UserAddresses
    <3> QED BY <3>1, <3>2
  <2> QED BY <1>2, <2>1, <2>2, <2>3 DEF Transparent!Find, Transparent!Next
<1>5. ASSUME NEW id \in DOMAIN pending_bps, remove_breakpoint(id)
      PROVE  Transparent!Next \/ UNCHANGED Transparent!vars
  <2>1. /\ pc' = "idle" /\ UNCHANGED <<call, stepping, place, line, kernel, process>>
        /\ ocl_breakpoints' \in {ocl_breakpoints, {bp \in ocl_breakpoints : bp.id # id}}
    BY <1>5 DEF remove_breakpoint, delete_ocl_breakpoint, hostVars
  <2>2. Where' = Where /\ Reached' = {} /\ Target' = Target /\ Target # "running"
    BY <1>1, <1>2, <2>1, CallLeaves DEF Reached, Target
  <2>3. UserAddresses' = UserAddresses \/ \E site \in UserAddresses : UserAddresses' = UserAddresses \ {site}
    <3>1. CASE \E gone \in ocl_breakpoints : gone.id = id
      <4>1. PICK gone \in ocl_breakpoints : gone.id = id
        BY <3>1
      <4>2. \A bp \in ocl_breakpoints : bp.id = id => bp = gone
        BY <4>1 DEF NumberInv
      <4>3. \A bp \in ocl_breakpoints : bp # gone => bp \in ocl_breakpoints'
        BY <2>1, <4>2
      <4>4. ocl_breakpoints' \subseteq ocl_breakpoints
        BY <2>1
      <4>5. UserAddresses' \subseteq UserAddresses /\ UserAddresses \ {gone.address} \subseteq UserAddresses'
        BY <4>3, <4>4 DEF UserAddresses
      <4>6. UserAddresses' = UserAddresses
            \/ (gone.address \in UserAddresses /\ UserAddresses' = UserAddresses \ {gone.address})
        BY <4>5
      <4> QED BY <4>6
    <3>2. CASE ~ \E gone \in ocl_breakpoints : gone.id = id
      <4>1. ocl_breakpoints' = ocl_breakpoints
        BY <2>1, <3>2
      <4> QED BY <4>1 DEF UserAddresses
    <3> QED BY <3>1, <3>2
  <2>4. CASE UserAddresses' = UserAddresses
    BY <1>2, <2>1, <2>2, <2>4 DEF Transparent!vars
  <2>5. CASE \E site \in UserAddresses : UserAddresses' = UserAddresses \ {site}
    BY <1>2, <2>1, <2>2, <2>5 DEF Transparent!Remove, Transparent!Next
  <2> QED BY <2>3, <2>4, <2>5
<1>6. CASE resume \/ \E t \in Threads : step(t)
  <2>1. /\ process = "stopped" /\ pc' = "wait" /\ UNCHANGED <<place, line, kernel, ocl_breakpoints>>
        /\ \A t \in Threads : reason'[t] = "none"
    BY <1>6 DEF resume, step, Proceed, hostVars, bpVars
  <2>2. Target = "halted" /\ Target' = "running"
    BY <1>2, <2>1 DEF Target
  <2>3. UserAddresses' = UserAddresses /\ Where' = Where
    BY <2>1, CallLeaves DEF UserAddresses
  <2>4. Reached' = {}
    <3>1. \A t \in Threads : ~UserStop(t)'
      BY <2>1, SiteFacts
    <3> QED BY <3>1 DEF Reached
  <2>5. CASE resume
    <3>1. call' = "resume" /\ stepping' = stepping
      BY <2>5 DEF resume
    <3> QED BY <1>2, <2>2, <2>3, <2>4, <3>1 DEF Transparent!Resume, Transparent!Next
  <2>6. ASSUME NEW t \in Threads, step(t) PROVE Transparent!Next
    <3>1. call' = "step" /\ stepping' = t
      BY <2>6 DEF step
    <3>2. Transparent!Step(t)
      BY <1>2, <2>2, <2>3, <2>4, <3>1 DEF Transparent!Step
    <3> QED BY <3>2 DEF Transparent!Next
  <2> QED BY <1>6, <2>5, <2>6
<1>7. CASE detach
  <2>1. /\ process = "stopped" /\ process' = "gone" /\ pc' = "idle"
        /\ UNCHANGED <<call, stepping, place, line, kernel, ocl_breakpoints>>
    BY <1>7, <1>1 DEF detach, hostVars, bpVars
  <2>2. Target = "halted" /\ Target' = "free" /\ Reached' = {}
    BY <1>2, <2>1 DEF Target, Reached
  <2>3. UserAddresses' = UserAddresses /\ Where' = Where
    BY <2>1, CallLeaves DEF UserAddresses
  <2> QED BY <2>1, <2>2, <2>3 DEF Transparent!Leave, Transparent!Next
<1> QED BY <1>3, <1>4, <1>5, <1>6, <1>7 DEF Client

(***************************************************************************)
(* The CPU debugger implements one that has no breakpoints but the         *)
(* client's: its breakpoints at the enqueue, at the dispatch and in the    *)
(* trampoline, the stops it hides and its resolving of breakpoints late    *)
(* change nothing of what a client is shown, when the program halts and    *)
(* where threads stop (continue_execution(), DebuggerContext.cpp:1055).    *)
(***************************************************************************)
THEOREM OwnStopsAreHidden == Spec => HidesOwnStops
<1>1. Init => Transparent!Init
  <2> SUFFICES ASSUME Init PROVE Transparent!Init
    OBVIOUS
  <2>1. /\ pc = "idle" /\ call = "resume" /\ stepping = Nobody /\ process = "none"
        /\ ocl_breakpoints = {}
        /\ \A t \in Threads : place[t] \in {"start", "idle"}
    BY DEF Init
  <2>2. Target = "free" /\ Reached = {} /\ UserAddresses = {}
    BY <2>1 DEF Target, Reached, UserAddresses
  <2>3. \A t \in Threads : SiteOf(t) = Unresolved
    BY <2>1, SiteFacts
  <2>4. Where = [t \in Threads |-> Unresolved]
    BY <2>3 DEF Where
  <2> QED BY <2>1, <2>2, <2>4 DEF Transparent!Init
<1>2. Init => NumberInv
  BY DEF Init, NumberInv
<1>3. Inv /\ NumberInv /\ [Next]_vars => NumberInv'
  BY NumberKeeps
<1>4. Inv /\ NumberInv /\ [Next]_vars => [Transparent!Next]_(Transparent!vars)
  <2>1. ASSUME UNCHANGED vars PROVE UNCHANGED Transparent!vars
    <3>1. UNCHANGED <<pc, call, stepping, place, line, kernel, reason, ocl_breakpoints, process>>
      BY <2>1 DEF vars, hostVars, bpVars
    <3> QED BY <3>1, NothingSeen
  <2> QED BY <2>1, ProgramSeen, DebuggerSeen, ClientSeen DEF Next
<1> QED BY <1>1, <1>2, <1>3, <1>4, InvAlways, PTL DEF Spec, HidesOwnStops, Transparent!Spec
=============================================================================
