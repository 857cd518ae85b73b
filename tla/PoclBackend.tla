----------------------------- MODULE PoclBackend -----------------------------
(***************************************************************************)
(* The CPU backend and the LLDB debugger under it (PoclCPUBackend.cpp,     *)
(* DebuggerContext.cpp): breakpoints named by source line before there is  *)
(* a kernel to put them in, and the loop of continue_execution(), which    *)
(* hides the debugger's own stops from the client.                         *)
(*                                                                         *)
(* The program is outside the repository: its main thread passes one host  *)
(* line, enqueues a kernel and waits for it, for every kernel in turn;     *)
(* workers run work-groups, through the lines of the kernel's line table.  *)
(* Kernel 1 is the first whose module pocl loads, and the host executable  *)
(* has not the name of a kernel.                                           *)
(***************************************************************************)
EXTENDS Integers, Sequences, FiniteSets

CONSTANTS
    NumWorkers,  \* threads of pocl
    CodeLines,   \* CodeLines[k]: the lines of the line table of kernel k
    Locations,   \* what a client breaks at: [file |-> "kernel" or "host", line |-> ...]
    MaxGroups,   \* bound on the work-groups of a kernel
    MaxBps       \* bound on the breakpoints a client sets

ASSUME CountAssumption == NumWorkers \in Nat /\ MaxGroups \in Nat /\ MaxBps \in Nat
ASSUME CodeAssumption == CodeLines \in Seq(SUBSET (Nat \ {0})) /\ CodeLines # <<>>
ASSUME LocationAssumption ==
    \A loc \in Locations : loc.file \in {"kernel", "host"} /\ loc.line \in Nat \ {0}

main == 0
Workers == 1 .. NumWorkers
Threads == {main} \cup Workers
Nobody == -1

VARIABLES
    pc,              \* "idle", or in a call: "wait" for the program or "handle" a stop
    call,            \* the call: "resume" or "step"
    pending_bps,     \* pending_bps: what each of the backend's ids is set at, or Unset
    next_bp_id,      \* next_bp_id
    dbg,             \* the DebuggerContext exists
    ocl_breakpoints, \* ocl_breakpoints; nothing depends on their order
    next_ocl_bp_id,  \* next_ocl_bp_id
    wg_breakpoint,   \* where it is: "none", "every entry", "one entry" or "dispatch"
    launch_info,     \* where it was inferred: "none", "enqueue" or "elsewhere"
    kernel_name,     \* the kernel it names, 0 for none
    stepping,        \* the thread LLDB has a step under way for
    shown,           \* the thread the last stop was shown of
    place, line,     \* threads: where they are; their line, if they are at one
    reason,          \* threads: LLDB's stop reason
    kernel,          \* the kernel last enqueued
    loaded,          \* how many kernels' modules are loaded
    groups,          \* groups of the kernel no worker has taken
    process,         \* "none", "stopped", "running" or "gone"
    past             \* history: "removal" before the launch, "step"

bpVars == <<pending_bps, next_bp_id, dbg, ocl_breakpoints, next_ocl_bp_id>>
launchVars == <<wg_breakpoint, launch_info, kernel_name>>
hostVars == <<place, line, kernel, loaded, groups>>
vars == <<pc, call, bpVars, launchVars, stepping, shown, hostVars, reason, process, past>>

Kernels == DOMAIN CodeLines
Unset == [file |-> "none", line |-> 0]

\* An address is a line of a module: a kernel's, or that of the host executable.
HostExe == -1
Address(module, l) == [module |-> module, line |-> l]
Unresolved == Address(0, 0)

Init ==
    /\ pc = "idle" /\ call = "resume" /\ dbg = FALSE
    /\ pending_bps = [id \in 1 .. MaxBps |-> Unset] /\ next_bp_id = 1
    /\ ocl_breakpoints = {} /\ next_ocl_bp_id = 1
    /\ wg_breakpoint = "none" /\ launch_info = "none" /\ kernel_name = 0
    /\ stepping = Nobody /\ shown = Nobody
    /\ place = [t \in Threads |-> IF t = main THEN "start" ELSE "idle"]
    /\ line = [t \in Threads |-> 0] /\ reason = [t \in Threads |-> "none"]
    /\ kernel = 0 /\ loaded = 0 /\ groups = 0 /\ process = "none" /\ past = {}

-----------------------------------------------------------------------------
(* Breakpoints.                                                            *)

\* find_kernel_module() takes the kernel module that was loaded first, and its
\* DWARF is read once: every kernel line is looked up there.
kernel_mod == IF loaded > 0 THEN 1 ELSE 0

\* source_to_pcs(): the line, or the next one that has code; 0 for none.
source_to_line(l) ==
    LET after == {c \in CodeLines[kernel_mod] : c >= l}
    IN IF after = {} THEN 0 ELSE CHOOSE c \in after : \A other \in after : c <= other

\* resolve_host_breakpoint() and resolve_one_breakpoint(); the latter moves the
\* breakpoint to the line that has code.
Resolved(bp) ==
    IF bp.file = "host" THEN [bp EXCEPT !.address = Address(HostExe, bp.line)]
    ELSE IF kernel_mod # 0 /\ source_to_line(bp.line) # 0
      THEN [bp EXCEPT !.line = source_to_line(bp.line),
                      !.address = Address(kernel_mod, source_to_line(bp.line))]
      ELSE bp

resolve_pending(bps) ==
    {IF bp.address = Unresolved THEN Resolved(bp) ELSE bp : bp \in bps}

Entry(id, loc) == [id |-> id, file |-> loc.file, line |-> loc.line, address |-> Unresolved]

\* Wrong variant: the id is not used up.
add_ocl_breakpoint_reusing(loc) ==
    /\ ocl_breakpoints' = LET bps == ocl_breakpoints \cup {Entry(next_ocl_bp_id, loc)}
                          IN IF process = "none" THEN bps ELSE resolve_pending(bps)
    /\ UNCHANGED next_ocl_bp_id

\* add_ocl_breakpoint() resolves at once if there is a target.
add_ocl_breakpoint(loc) ==
    /\ ocl_breakpoints' = LET bps == ocl_breakpoints \cup {Entry(next_ocl_bp_id, loc)}
                          IN IF process = "none" THEN bps ELSE resolve_pending(bps)
    /\ next_ocl_bp_id' = next_ocl_bp_id + 1

delete_ocl_breakpoint(id) ==
    ocl_breakpoints' = {bp \in ocl_breakpoints : bp.id # id}

UserAddresses == {bp.address : bp \in ocl_breakpoints} \ {Unresolved}

-----------------------------------------------------------------------------
(* The program, and LLDB's breakpoints in its way.                         *)

HostLine == 1
SourcePlaces == {"line", "host"}

IsUserSite(pl, l) ==
    \/ pl = "line" /\ Address(kernel, l) \in UserAddresses
    \/ pl = "host" /\ Address(HostExe, l) \in UserAddresses

\* launch() leaves a breakpoint at clEnqueueNDRangeKernel.
HasBreakpoint(pl, l) ==
    \/ pl = "enqueue" \/ IsUserSite(pl, l)
    \/ pl = "dispatch" /\ wg_breakpoint = "dispatch"
    \/ pl = "entry" /\ wg_breakpoint = "every entry"
    \/ pl = "entry" /\ wg_breakpoint = "one entry" /\ kernel = kernel_name

\* A thread goes on to a place, and stops there at a breakpoint or when that
\* ends its step.
Go(t, pl, l) ==
    /\ pc = "wait" /\ process = "running" /\ reason[t] = "none"
    /\ place' = [place EXCEPT ![t] = pl] /\ line' = [line EXCEPT ![t] = l]
    /\ reason' = [reason EXCEPT ![t] =
         IF HasBreakpoint(pl, l) THEN "breakpoint"
         ELSE IF t = stepping /\ pl \in SourcePlaces THEN "step" ELSE "none"]
    /\ UNCHANGED <<pc, call, launchVars, stepping, shown, process, past>>

KernelDone == groups = 0 /\ \A t \in Workers : place[t] = "idle"

HostRuns ==
    /\ \/ place[main] = "start"
       \/ place[main] = "waiting" /\ KernelDone /\ kernel < Len(CodeLines)
    /\ Go(main, "host", HostLine)
    /\ UNCHANGED <<bpVars, kernel, loaded, groups>>

Enqueue ==
    /\ place[main] = "host" /\ Go(main, "enqueue", 0)
    /\ kernel' = kernel + 1
    /\ UNCHANGED <<bpVars, loaded, groups>>

\* pocl loads the module of the kernel and hands out its groups.
StartKernel ==
    /\ place[main] = "enqueue" /\ Go(main, "waiting", 0)
    /\ loaded' = kernel /\ groups' = MaxGroups
    /\ UNCHANGED <<bpVars, kernel>>

TakeGroup(t) ==
    /\ place[t] = "idle" /\ groups > 0 /\ Go(t, "dispatch", 0)
    /\ groups' = groups - 1
    /\ UNCHANGED <<bpVars, kernel, loaded>>

EnterKernel(t) ==
    /\ place[t] = "dispatch" /\ Go(t, "entry", 0)
    /\ UNCHANGED <<bpVars, kernel, loaded, groups>>

\* Wrong variant: the callback of the trampoline leaves breakpoints pending.
EnterBodySilently(t) ==
    /\ place[t] = "entry" /\ Go(t, "body", 0)
    /\ UNCHANGED <<bpVars, kernel, loaded, groups>>

\* The trampoline, behind the prologue: its callback lets the program go on.
EnterBody(t) ==
    /\ place[t] = "entry" /\ Go(t, "body", 0)
    /\ ocl_breakpoints' = resolve_pending(ocl_breakpoints)
    /\ UNCHANGED <<pending_bps, next_bp_id, dbg, next_ocl_bp_id, kernel, loaded, groups>>

\* Kernels branch, but here they do not loop.
NextLine(t) ==
    /\ place[t] \in {"body", "line"}
    /\ \E l \in CodeLines[kernel] : l > line[t] /\ Go(t, "line", l)
    /\ UNCHANGED <<bpVars, kernel, loaded, groups>>

LeaveKernel(t) ==
    /\ place[t] \in {"body", "line"} /\ Go(t, "idle", 0)
    /\ UNCHANGED <<bpVars, kernel, loaded, groups>>

Running == pc = "wait" /\ process = "running"

\* A fault in the kernel: a signal stops the program, or ends it.
Fault(t) ==
    /\ Running /\ place[t] = "line" /\ reason[t] = "none"
    /\ \/ reason' = [reason EXCEPT ![t] = "signal"] /\ UNCHANGED process
       \/ process' = "gone" /\ UNCHANGED reason
    /\ UNCHANGED <<pc, call, bpVars, launchVars, stepping, shown, hostVars, past>>

HostExits ==
    /\ Running /\ place[main] = "waiting" /\ KernelDone /\ kernel = Len(CodeLines)
    /\ process' = "gone"
    /\ UNCHANGED <<pc, call, bpVars, launchVars, stepping, shown, hostVars, reason, past>>

Program ==
    \/ HostRuns \/ Enqueue \/ StartKernel \/ HostExits
    \/ \E t \in Workers :
         TakeGroup(t) \/ EnterKernel(t) \/ EnterBody(t) \/ NextLine(t) \/ LeaveKernel(t) \/ Fault(t)

-----------------------------------------------------------------------------
(* The debugger.  Continue() and the steps block until the program stops   *)
(* as a whole, with any number of threads at a breakpoint.                 *)

Stopped == {t \in Threads : reason[t] # "none"}

Proceed ==
    /\ pc' = "wait" /\ process' = "running"
    /\ reason' = [t \in Threads |-> "none"]

Stop ==
    /\ Running /\ Stopped # {}
    /\ pc' = "handle" /\ process' = "stopped"
    /\ UNCHANGED <<call, bpVars, launchVars, stepping, shown, hostVars, reason, past>>

\* Wrong variant: the loop takes an end for one of the states to wait through.
EndedStep ==
    /\ pc = "wait" /\ process = "gone" /\ call = "step" /\ pc' = "idle"
    /\ UNCHANGED <<call, bpVars, launchVars, stepping, shown, hostVars, reason, process, past>>

\* The program has ended: the call returns and nothing is shown.
Ended ==
    /\ pc = "wait" /\ process = "gone" /\ pc' = "idle"
    /\ UNCHANGED <<call, bpVars, launchVars, stepping, shown, hostVars, reason, process, past>>

\* Wrong variant: the launch is inferred whether or not one is known.
InferLaunchAgain ==
    \/ /\ \A t \in Stopped : place[t] # "enqueue"
       /\ UNCHANGED launchVars
    \/ /\ \E t \in Stopped :
            IF place[t] = "enqueue"
            THEN launch_info' = "enqueue" /\ kernel_name' \in {0, kernel}
            ELSE launch_info' = "elsewhere" /\ UNCHANGED kernel_name
       /\ IF kernel_name' # 0 THEN wg_breakpoint' \in {"dispatch", "one entry"}
                              ELSE UNCHANGED wg_breakpoint

\* check_enqueue_ndrange() looks for registers that could be the arguments of
\* clEnqueueNDRangeKernel; infer_kernel_launch() reads those of the selected
\* thread, and the name of the kernel if it can.  With a name, the work-group
\* breakpoint is set again: at pocl's dispatch, if that is found.
InferLaunch ==
    \/ /\ launch_info # "none" \/ \A t \in Stopped : place[t] # "enqueue"
       /\ UNCHANGED launchVars
    \/ /\ launch_info = "none"
       /\ \E t \in Stopped :
            IF place[t] = "enqueue"
            THEN launch_info' = "enqueue" /\ kernel_name' \in {0, kernel}
            ELSE launch_info' = "elsewhere" /\ UNCHANGED kernel_name
       /\ IF kernel_name' # 0 THEN wg_breakpoint' \in {"dispatch", "one entry"}
                              ELSE UNCHANGED wg_breakpoint

\* What check_user_stop() looks for in one thread.
UserStop(t) ==
    \/ reason[t] \in {"step", "signal"}
    \/ reason[t] = "breakpoint" /\ IsUserSite(place[t], line[t])

First == CHOOSE t \in Stopped : \A other \in Stopped : t <= other

\* Wrong variant: the thread to be shown is the only one looked at.
check_user_stop_of_first == UserStop(First)

\* Wrong variant: a stop of the debugger's own is shown.
check_any_stop == Stopped # {}

check_user_stop == \E t \in Stopped : UserStop(t)

\* notify_stop(): the first thread that LLDB lists with a stop reason.
Show ==
    /\ shown' = First /\ pc' = "idle" /\ UNCHANGED <<process, reason>>

\* The plan of a step that something else interrupted stays with its thread.
StepEnds ==
    stepping' \in IF stepping \in Stopped /\ reason[stepping] = "step"
                  THEN {Nobody} ELSE {Nobody, stepping}

\* One turn of the loop of continue_execution().
HandleStop ==
    /\ pc = "handle" /\ call = "resume"
    /\ InferLaunch
    /\ ocl_breakpoints' = resolve_pending(ocl_breakpoints)
    /\ \/ check_user_stop /\ Show /\ StepEnds
       \/ ~check_user_stop /\ Proceed /\ UNCHANGED <<shown, stepping>>
    /\ UNCHANGED <<call, pending_bps, next_bp_id, dbg, next_ocl_bp_id, hostVars, past>>

\* step_over() and step_in() show whatever stopped the program.
HandleStep ==
    /\ pc = "handle" /\ call = "step"
    /\ Show /\ StepEnds
    /\ UNCHANGED <<call, bpVars, launchVars, hostVars, past>>

-----------------------------------------------------------------------------
(* The calls of the backend.                                               *)

Registered == {id \in DOMAIN pending_bps : pending_bps[id] # Unset}

\* The client's breakpoints are handed on in the order of their ids, and get
\* the debugger's ids in that order.
Rank(id) == Cardinality({other \in Registered : other <= id})
Handed == {Entry(Rank(id), pending_bps[id]) : id \in Registered}

\* launch(), once: the program stops at its entry; or no target can be made of it.
launch ==
    /\ pc = "idle" /\ ~dbg /\ dbg' = TRUE
    /\ next_ocl_bp_id' = Cardinality(Registered) + 1
    /\ \/ /\ process' = "stopped" /\ wg_breakpoint' = "every entry"
          /\ ocl_breakpoints' = resolve_pending(Handed)
       \/ UNCHANGED <<process, wg_breakpoint>> /\ ocl_breakpoints' = Handed
    /\ UNCHANGED <<pc, call, pending_bps, next_bp_id, launch_info, kernel_name, stepping, shown>>
    /\ UNCHANGED <<hostVars, reason, past>>

set_breakpoint(loc) ==
    /\ pc = "idle" /\ next_bp_id <= MaxBps
    /\ next_bp_id' = next_bp_id + 1
    /\ pending_bps' = [pending_bps EXCEPT ![next_bp_id] = loc]
    /\ IF dbg THEN add_ocl_breakpoint(loc) ELSE UNCHANGED <<ocl_breakpoints, next_ocl_bp_id>>
    /\ UNCHANGED <<pc, call, dbg, launchVars, stepping, shown, hostVars, reason, process, past>>

\* Wrong variant: only the backend's own map is changed.
remove_breakpoint_here(id) ==
    /\ pc = "idle" /\ id \in Registered
    /\ pending_bps' = [pending_bps EXCEPT ![id] = Unset]
    /\ past' = past \cup (IF dbg THEN {} ELSE {"removal"})
    /\ UNCHANGED <<ocl_breakpoints, pc, call, next_bp_id, dbg, next_ocl_bp_id, launchVars, stepping>>
    /\ UNCHANGED <<shown, hostVars, reason, process>>

\* The id is passed on as one of the debugger's.
remove_breakpoint(id) ==
    /\ pc = "idle" /\ id \in Registered
    /\ pending_bps' = [pending_bps EXCEPT ![id] = Unset]
    /\ IF dbg THEN delete_ocl_breakpoint(id) ELSE UNCHANGED ocl_breakpoints
    /\ past' = past \cup (IF dbg THEN {} ELSE {"removal"})
    /\ UNCHANGED <<pc, call, next_bp_id, dbg, next_ocl_bp_id, launchVars, stepping, shown>>
    /\ UNCHANGED <<hostVars, reason, process>>

\* continue_execution()
resume ==
    /\ pc = "idle" /\ process = "stopped" /\ call' = "resume"
    /\ Proceed
    /\ UNCHANGED <<bpVars, launchVars, stepping, shown, hostVars, past>>

\* step_over() and step_in(), of a work-item of the stop that is shown.
step(t) ==
    /\ pc = "idle" /\ process = "stopped" /\ t \in Stopped /\ call' = "step"
    /\ stepping' = t /\ past' = past \cup {"step"}
    /\ Proceed
    /\ UNCHANGED <<bpVars, launchVars, shown, hostVars>>

detach ==
    /\ pc = "idle" /\ process = "stopped" /\ process' = "gone"
    /\ UNCHANGED <<pc, call, bpVars, launchVars, stepping, shown, hostVars, reason, past>>

Client ==
    \/ launch \/ resume \/ detach
    \/ \E loc \in Locations : set_breakpoint(loc)
    \/ \E id \in DOMAIN pending_bps : remove_breakpoint(id)
    \/ \E t \in Threads : step(t)

Debugger == Stop \/ Ended \/ HandleStop \/ HandleStep

Next == Client \/ Debugger \/ Program

\* Both processes are scheduled.  Nothing obliges the client to make a call.
Spec == Init /\ [][Next]_vars /\ WF_vars(Debugger) /\ WF_vars(Program)

-----------------------------------------------------------------------------
TypeOK ==
    /\ pc \in {"idle", "wait", "handle"} /\ call \in {"resume", "step"}
    /\ \A id \in DOMAIN pending_bps : pending_bps[id] \in Locations \cup {Unset}
    /\ \A bp \in ocl_breakpoints :
         bp.id < next_ocl_bp_id /\ bp.address.module \in {HostExe, 0} \cup Kernels
    /\ wg_breakpoint \in {"none", "every entry", "one entry", "dispatch"}
    /\ launch_info \in {"none", "enqueue", "elsewhere"} /\ kernel_name \in {0} \cup Kernels
    /\ {stepping, shown} \subseteq Threads \cup {Nobody}
    /\ place \in [Threads -> {"start", "host", "enqueue", "waiting", "idle", "dispatch", "entry",
                             "body", "line"}]
    /\ reason \in [Threads -> {"none", "breakpoint", "step", "signal"}]
    /\ process \in {"none", "stopped", "running", "gone"}

(***************************************************************************)
(* The backend and the debugger number breakpoints independently           *)
(* (PoclCPUBackend.cpp:290, DebuggerContextImpl.h: next_ocl_bp_id), and    *)
(* remove_breakpoint() passes an id of one as an id of the other: unless a *)
(* breakpoint was removed before the launch, they name the same one, moved *)
(* at most to the next line that has code.                                 *)
(***************************************************************************)
IdsAgree ==
    dbg /\ "removal" \notin past =>
      \A id \in DOMAIN pending_bps :
        LET named == {bp \in ocl_breakpoints : bp.id = id} IN
        IF id \in Registered
        THEN \E bp \in named :
               /\ bp.file = pending_bps[id].file
               /\ bp.line \in
                    {pending_bps[id].line}
                      \cup (IF kernel_mod = 0 THEN {} ELSE {source_to_line(pending_bps[id].line)})
        ELSE named = {}

(***************************************************************************)
(* A breakpoint set on a line of the first kernel, before the program is   *)
(* launched or at any stop after it, is in place when a work-item reaches  *)
(* that line: the kernel's module, of which the debugger knows nothing     *)
(* before the kernel is enqueued, is loaded and looked at in time          *)
(* (DebuggerContext.cpp:584-599, 793, 1090).                               *)
(***************************************************************************)
KernelLineStops ==
    [][\A t \in Workers :
         /\ kernel = 1 /\ place'[t] = "line" /\ line'[t] # line[t]
         /\ \E bp \in ocl_breakpoints : bp.file = "kernel" /\ source_to_line(bp.line) = line'[t]
         => reason'[t] = "breakpoint"]_vars

(***************************************************************************)
(* The debugger hides its own stops and no others: a thread that stopped   *)
(* for the client goes on only when the client says so, whichever threads  *)
(* stopped with it (check_user_stop, DebuggerContext.cpp:1032-1053).  TLC  *)
(* checks it as a part of HidesOwnStops.                                   *)
(***************************************************************************)
NoUserStopIsPassedOver ==
    [][\A t \in Threads : UserStop(t) /\ reason'[t] = "none" => pc = "idle"]_vars

(***************************************************************************)
(* "If halted at clEnqueueNDRangeKernel, inspect arguments and compute     *)
(* launch bounds" (DebuggerContext.h:57): as long as no step is made, the  *)
(* bounds come from there, or from a stop that the client asked for.       *)
(***************************************************************************)
InferredAtEnqueue ==
    [][launch_info' # launch_info /\ "step" \notin past =>
         launch_info' = "enqueue" \/ \E t \in Stopped : UserStop(t)]_vars

\* The site a thread is at, the state of the target, and who waits for the client.
SiteOf(t) ==
    CASE place[t] = "line" -> Address(kernel, line[t])
      [] place[t] = "host" -> Address(HostExe, line[t])
      [] OTHER             -> Unresolved

Target == IF pc # "idle" THEN "running" ELSE IF process = "stopped" THEN "halted" ELSE "free"
Where == [t \in Threads |-> SiteOf(t)]
Reached == IF pc = "idle" THEN {} ELSE {t \in Threads : UserStop(t)}

Transparent == INSTANCE TransparentDebugger WITH
    Nowhere <- Unresolved,
    target <- Target, sites <- UserAddresses, where <- Where, reached <- Reached, plan <- stepping

(***************************************************************************)
(* Seen from a client this is a debugger that has no breakpoints but the   *)
(* client's (TransparentDebugger): its own stops, at the enqueue, the      *)
(* dispatch and the entry, and the resolving of breakpoints in between     *)
(* neither halt the target, but in a step, nor let a thread past a site    *)
(* (continue_execution(), DebuggerContext.cpp:1055-1099).                  *)
(***************************************************************************)
HidesOwnStops == Transparent!Spec

(***************************************************************************)
(* resume() and the steps return: the loop that hides stops ends when the  *)
(* program does.                                                           *)
(***************************************************************************)
CallsReturn == pc # "idle" ~> pc = "idle"

=============================================================================
